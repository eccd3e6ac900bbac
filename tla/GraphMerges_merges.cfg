CONSTANTS
  r1 = r1  r2 = r2  q1 = q1  q2 = q2  q3 = q3  w1 = w1  w2 = w2
  m1 = m1  p1 = p1  p2 = p2  c1 = c1
  NoResource = NoResource  NoMerge = NoMerge
  Resources = {r1, r2}
  Requests = {q1, q2, q3}
  Workers = {w1, w2}
  MaxSnapshot = 2
  MaxVersion = 4
  Merges = {m1}
  Reviewers = {p1, p2}
  Candidates = {c1}
  MaxMergeVersion = 2
SPECIFICATION MergeSpec
SYMMETRY Symmetric
CONSTRAINT Bound
INVARIANTS GraphFollowsSnapshot StreamsAgree MergePointer OpenIsAcknowledged MergesAgree
PROPERTIES SnapshotBringsGraph
CHECK_DEADLOCK FALSE
