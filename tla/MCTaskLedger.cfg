\* Three tasks make reordering and steering matter; one of the submissions is an
\* operation, and every submission may be repeated.  One process death per
\* behaviour reaches every torn batch; the second owner recovers and goes on.
CONSTANTS
  t1 = t1
  t2 = t2
  t3 = t3
  r1 = r1
  r2 = r2
  s1 = s1
  s2 = s2
  s3 = s3
  None = None
  Tasks = {t1, t2, t3}
  Runs = {r1, r2}
  Submissions = {s1, s2, s3}
  Operations = {s2}
  MaxCrashes = 1
SPECIFICATION Spec
SYMMETRY Symmetric
INVARIANTS
  QueueIsPending
  Ownership
  NeverPoisoned
  NoOrphan
  SnapshotNeverAhead
PROPERTY PromiseKept
\* A blocked ledger stops for good once the bound on process deaths is used up.
CHECK_DEADLOCK FALSE
