CONSTANTS
  r1 = r1  r2 = r2
  n1 = n1  n2 = n2  n3 = n3
  q1 = q1  q2 = q2  q3 = q3
  w1 = w1  w2 = w2  s1 = s1  s2 = s2
  NoResource = NoResource  NoRun = NoRun  Nobody = Nobody
  Resources = {r1, r2}
  Bundles = {r1}
  Runs = {n1, n2}
  Requests = {q1, q2, q3}
  Workers = {w1, w2}
  Schedulers = {}
  Ops = {"create", "upload", "refresh", "archive", "delete", "restore", "purge", "review"}
  Faults = {"enqueue_error", "crash", "late_timeout"}
  Frequencies = {"manual", "interval"}
  ScanLimit = 2
SPECIFICATION Spec
SYMMETRY Symmetric
INVARIANTS OneActiveRunPerResource PurgedLeavesNothing IInv
PROPERTIES SnapshotAdvance
CHECK_DEADLOCK FALSE
