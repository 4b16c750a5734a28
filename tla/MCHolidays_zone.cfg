SPECIFICATION Spec
CONSTANTS
  Requests = {r1}
  Year = 2081
  Published <- MCPublished
  Fallback <- MCFallback
  Entered <- MCEntered
  HolidayTypes = {"PUBLIC_HOLIDAY"}
  WorkingDays = {0, 1, 2, 3, 4, 5}
  MaxRows = 2
  East = TRUE
INVARIANTS
  HolidaysNotWorked
\* With one handler, nothing is left to do once the rows are used up.
CHECK_DEADLOCK FALSE
