\* A message and two background wakes without port failures: one queue edit can
\* lose a reservation, steer the message or withdraw it, and a notice may come
\* while a message or an earlier wake is at work, or while nothing is.
CONSTANTS
  u1 = u1
  w1 = w1
  w2 = w2
  t1 = t1
  t2 = t2
  t3 = t3
  r1 = r1
  r2 = r2
  r3 = r3
  None = None
  Tasks = {t1, t2, t3}
  Runs = {r1, r2, r3}
  Submissions = {u1, w1, w2}
  Operations = {}
  Wakes = {w1, w2}
  MaxEdits = 1
  Deadlines = FALSE
  Faults = FALSE
SPECIFICATION Spec
INVARIANTS
  RacesNeverFail
PROPERTIES
  QueueServed
  CloseCompletes
  InboxRead
\* A closed session with nothing left to do stops.
CHECK_DEADLOCK FALSE
