---------------------------- MODULE MCRetention ----------------------------
(***************************************************************************)
(* Retention for TLC: the Gregorian calendar of 2023 to 2028, with two leap    *)
(* years, and in each month the days around its ends and some between.      *)
(***************************************************************************)
EXTENDS Retention

BeforeMonth == <<0, 31, 59, 90, 120, 151, 181, 212, 243, 273, 304, 334>>

\* Months count from 0, January 2023, a Sunday.
MCMonthStart ==
  [m \in 0..72 |->
     LET year == m \div 12
         leapDays == (IF m > 13 THEN 1 ELSE 0) + (IF m > 61 THEN 1 ELSE 0)
     IN 365 * year + BeforeMonth[(m % 12) + 1] + leapDays]

Ends == {0, 6, 13, 27, 28, 29, 30}
OfMonth(m) == {d \in {MCMonthStart[m] + k : k \in Ends} : d < MCMonthStart[m + 1]}

\* Those days of interest from February 2024 to March 2025, alternately in the
\* first and the second half of a day.
MCMoments == UNION {{2 * d + (d % 2) : d \in OfMonth(m)} : m \in 13..26}

Policy(w, m, y) == [Weekly |-> w, Monthly |-> m, Quarterly |-> 0, Yearly |-> y]

MCPolicies == {Policy(0, 0, 0), Policy(3, 2, 1), Policy(5, 12, 2)}

\* A point of one tier, and of two in either order.
MCMarks == {<<"Yearly">>, <<"Weekly", "Monthly">>, <<"None", "Monthly", "Weekly">>}
=============================================================================
