CONSTANTS
  r1 = r1 r2 = r2 r3 = r3 s1 = s1 s2 = s2 s3 = s3
  Requests = {r1, r2}
  Sessions = {s1, s2}
  Limit = 1 Ttl = 2 Grace = 9 Window = 2
  Passwords = {1}
  MaxNow = 3 MaxVer = 1 MaxPw = 1
  NoRequest = NoRequest NoSession = NoSession
SPECIFICATION Spec
INVARIANTS
  ActiveWithinLimit
CHECK_DEADLOCK FALSE
