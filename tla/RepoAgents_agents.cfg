CONSTANTS
  r1 = r1  x1 = x1  x2 = x2  k1 = k1  a1 = a1  d1 = d1  q1 = q1  u1 = u1
  NoResource = NoResource  NoArtifact = NoArtifact  NoPack = NoPack
  Resources = {r1}
  Artifacts = {x1, x2}
  Packs = {k1}
  Drafters = {d1}
  Reviewers = {q1}
  Purgers = {u1}
  Agents = {a1}
  MaxSnapshot = 1
  MaxPackVersion = 2
  MaxExport = 1
  MaxAgentVersion = 2
SPECIFICATION Spec
SYMMETRY Symmetric
CONSTRAINT Bound
INVARIANTS AgentPointer AgentEvidence DetachedIsScrubbed PurgeIsComplete AgentsAgree
CHECK_DEADLOCK FALSE
