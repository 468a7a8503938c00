CONSTANTS
  r1 = r1 r2 = r2 r3 = r3 s1 = s1 s2 = s2 s3 = s3
  Requests = {r1, r2}
  Sessions = {s1, s2}
  Limit = 2 Ttl = 3 Grace = 9 Window = 2
  Passwords = {1}
  MaxNow = 2 MaxVer = 0 MaxPw = 1
  NoRequest = NoRequest NoSession = NoSession
SPECIFICATION Spec
INVARIANTS
  OpenedWithCurrent
CHECK_DEADLOCK FALSE
