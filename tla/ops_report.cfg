SPECIFICATION ReportSpec
CONSTANTS
  e1 = e1
  e2 = e2
  e3 = e3
  Never = Never
  JobEvents <- MCJobEvents
  Day = 5
  MaxWait = 2
SYMMETRY Symmetry
INVARIANT
  CountedOnce
