--------------------------- MODULE NepalHolidays ---------------------------
(***************************************************************************)
(* The holidays built into lib/nepal-holidays.ts: of each its date in the  *)
(* Bikram Sambat and its Gregorian date, as they stand in the source.      *)
(***************************************************************************)
EXTENDS NepaliDate

(* month and day, Gregorian year, month and day *)
BS_2081 == <<
    <<1, 1, 2024, 4, 13>>, <<1, 18, 2024, 5, 1>>, <<2, 10, 2024, 5, 23>>,
    <<2, 15, 2024, 5, 28>>, <<3, 15, 2024, 6, 29>>, <<4, 4, 2024, 8, 19>>,
    <<4, 5, 2024, 8, 20>>, <<4, 11, 2024, 8, 26>>, <<4, 21, 2024, 9, 6>>,
    <<5, 3, 2024, 9, 19>>, <<5, 5, 2024, 9, 21>>, <<6, 17, 2024, 10, 3>>,
    <<6, 23, 2024, 10, 9>>, <<6, 24, 2024, 10, 10>>, <<6, 25, 2024, 10, 11>>,
    <<6, 26, 2024, 10, 12>>, <<6, 27, 2024, 10, 13>>, <<6, 28, 2024, 10, 14>>,
    <<7, 1, 2024, 10, 17>>, <<7, 15, 2024, 11, 1>>, <<7, 16, 2024, 11, 2>>,
    <<7, 17, 2024, 11, 3>>, <<7, 21, 2024, 11, 7>>, <<9, 27, 2025, 1, 11>>,
    <<10, 1, 2025, 1, 14>>, <<10, 16, 2025, 1, 29>>, <<10, 16, 2025, 1, 29>>,
    <<11, 14, 2025, 2, 26>>, <<11, 17, 2025, 3, 1>>, <<11, 28, 2025, 3, 14>>,
    <<12, 16, 2025, 3, 29>>, <<12, 24, 2025, 4, 6>> >>

BS_2082 == <<
    <<1, 1, 2025, 4, 14>>, <<1, 18, 2025, 5, 1>>, <<1, 28, 2025, 5, 12>>,
    <<2, 15, 2025, 5, 28>>, <<3, 15, 2025, 6, 29>>, <<4, 24, 2025, 8, 9>>,
    <<4, 25, 2025, 8, 10>>, <<5, 1, 2025, 8, 16>>, <<5, 10, 2025, 8, 26>>,
    <<5, 3, 2025, 9, 19>>, <<5, 21, 2025, 9, 5>>, <<6, 6, 2025, 9, 22>>,
    <<6, 12, 2025, 9, 28>>, <<6, 13, 2025, 9, 29>>, <<6, 14, 2025, 9, 30>>,
    <<6, 15, 2025, 10, 1>>, <<6, 16, 2025, 10, 2>>, <<6, 17, 2025, 10, 3>>,
    <<6, 21, 2025, 10, 7>>, <<7, 4, 2025, 10, 20>>, <<7, 5, 2025, 10, 21>>,
    <<7, 6, 2025, 10, 22>>, <<7, 10, 2025, 10, 26>>, <<9, 27, 2026, 1, 11>>,
    <<10, 1, 2026, 1, 14>>, <<10, 16, 2026, 1, 30>>, <<11, 3, 2026, 2, 15>>,
    <<11, 20, 2026, 3, 3>>, <<12, 5, 2026, 3, 18>>, <<12, 13, 2026, 3, 26>> >>

BS_2083 == <<
    <<1, 1, 2026, 4, 14>>, <<1, 18, 2026, 5, 1>>, <<2, 18, 2026, 5, 31>>,
    <<2, 15, 2026, 5, 28>>, <<4, 13, 2026, 7, 28>>, <<4, 20, 2026, 8, 5>>,
    <<4, 30, 2026, 8, 15>>, <<5, 3, 2026, 9, 19>>, <<5, 26, 2026, 10, 12>>,
    <<6, 2, 2026, 10, 18>>, <<6, 3, 2026, 10, 19>>, <<6, 4, 2026, 10, 20>>,
    <<6, 5, 2026, 10, 21>>, <<6, 23, 2026, 11, 8>>, <<6, 25, 2026, 11, 10>>,
    <<6, 29, 2026, 11, 14>>, <<10, 1, 2027, 1, 14>>, <<10, 23, 2027, 2, 6>>,
    <<11, 8, 2027, 2, 22>>, <<12, 2, 2027, 3, 15>> >>

(* The day of a Gregorian date (new Date), from 2013 on. *)
IsLeap(y) == y % 4 = 0
GregorianMonths == <<31, 28, 31, 30, 31, 30, 31, 31, 30, 31, 30, 31>>
DaysBefore(y, m) == MapThenSumSet(LAMBDA i : GregorianMonths[i], 1..(m - 1))
                    + IF IsLeap(y) /\ m > 2 THEN 1 ELSE 0
GregorianDay(y, m, d) ==
  365 * (y - 2013) + Cardinality({l \in 2013..(y - 1) : IsLeap(l)})
  + DaysBefore(y, m) + d - 1 - DaysBefore(2013, 4) - 13

(* A holiday is named by its place in the list. *)
Entry(year, h, i) ==
  [bs |-> BSDate(year, h[1], h[2]), date |-> GregorianDay(h[3], h[4], h[5]), name |-> i]
BuiltIn(year) ==
  LET list == CASE year = 2081 -> BS_2081 [] year = 2082 -> BS_2082 [] OTHER -> BS_2083 IN
  [i \in 1..Len(list) |-> Entry(year, list[i], i)]
=============================================================================
