SPECIFICATION FairSpec
CONSTANTS
  Instance = {i1, i2}
  Conn = {k1, k2}
  Stream = {s1, s2, s3}
  Plugin = {p1}
  None = None
PROPERTIES PromiseKept SilentIsDropped
CHECK_DEADLOCK FALSE
