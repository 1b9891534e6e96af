SPECIFICATION Spec
CONSTANTS
  Backend = {b1, b2}
  Call = {c1, c2}
  Viewer = {v1}
  Key = {k1}
  Digest = {d1, d2}
  Prompt = {p1, p2}
  None = None
  MaxCrashes = 1
INVARIANTS  CacheAgrees CancelHonest
 
SYMMETRY Symmetric
