SPECIFICATION AdapterSpec
CONSTANTS
  Sessions = {s1, s2, s3}
  Handlers = {h1, h2}
  Fan = 2
INVARIANTS NoReleasedSession
