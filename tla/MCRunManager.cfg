\* A message and an operation; every port and every commit may fail, execution
\* budgets expire, and one queue edit, stops, holds, exclusive work and disposal
\* come at any moment.
CONSTANTS
  u1 = u1
  u2 = u2
  t1 = t1
  t2 = t2
  r1 = r1
  r2 = r2
  None = None
  Tasks = {t1, t2}
  Runs = {r1, r2}
  Submissions = {u1, u2}
  Operations = {u2}
  Wakes = {}
  MaxEdits = 1
  Deadlines = TRUE
  Faults = TRUE
SPECIFICATION Spec
INVARIANTS
  SlotOwnsExecution
  ExclusiveAlone
PROPERTIES
  StopHolds
\* A closed session with nothing left to do stops.
CHECK_DEADLOCK FALSE
