CONSTANTS
  r1 = r1  r2 = r2
  n1 = n1  n2 = n2  n3 = n3
  q1 = q1  q2 = q2  q3 = q3
  w1 = w1  w2 = w2  s1 = s1  s2 = s2
  NoResource = NoResource  NoRun = NoRun  Nobody = Nobody
  Resources = {r1}
  Bundles = {}
  Runs = {n1, n2}
  Requests = {q1, q2, q3}
  Workers = {w1}
  Schedulers = {}
  Ops = {"create", "refresh", "archive", "delete", "restore", "purge"}
  Faults = {"enqueue_error"}
  Frequencies = {"manual", "interval"}
  ScanLimit = 2
SPECIFICATION FairSpec
INVARIANTS NoStrandedRun
PROPERTIES RunsMoveForward ActiveRunsEnd
CHECK_DEADLOCK FALSE
