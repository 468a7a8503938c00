CONSTANTS
  i1 = i1 i2 = i2 u1 = u1 m1 = m1 s1 = s1 p1 = p1 r1 = r1 r2 = r2 r3 = r3
  Requests = {r1, r2}
  Buyers = {u1} Users = {u1}
  Movies = {m1} Serials = {} Plans = {}
  Intents = {i1}
  BuyerOf <- OneBuyer
  ItemOf <- OneMovie
  MaxQr = 1 Batch = 2
  NoRequest = NoRequest NoIntent = NoIntent
SPECIFICATION Spec
INVARIANTS
  SupersededHasNoReceipt
CHECK_DEADLOCK FALSE
