CONSTANTS
  r1 = r1 r2 = r2 r3 = r3 s1 = s1 s2 = s2 s3 = s3
  Requests = {r1, r2}
  Sessions = {s1}
  Limit = 1 Ttl = 3 Grace = 1 Window = 2
  Passwords = {0, 1}
  MaxNow = 3 MaxVer = 2 MaxPw = 1
  NoRequest = NoRequest NoSession = NoSession
SPECIFICATION CalmSpec
PROPERTIES
  CopyRevokes
  RequestEnds
CHECK_DEADLOCK FALSE
