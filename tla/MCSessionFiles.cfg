CONSTANTS
  s1 = s1
  s2 = s2
  u1 = u1
  u2 = u2
  u3 = u3
  b1 = b1
  Sessions = {s1, s2}
  Uploads = {u1, u2, u3}
  Bundles = {b1}
  Quota = 1
  None = None
  Staged = Staged
SPECIFICATION Spec
SYMMETRY Alike
INVARIANTS
  TypeOK
  FilesFollowSession
  QuotaHolds
CHECK_DEADLOCK FALSE
