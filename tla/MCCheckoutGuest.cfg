CONSTANTS
  i1 = i1 i2 = i2 u1 = u1 m1 = m1 s1 = s1 p1 = p1 r1 = r1 r2 = r2 r3 = r3
  Requests = {r1, r2, r3}
  Buyers = {u1} Users = {}
  Movies = {m1} Serials = {} Plans = {}
  Intents = {i1, i2}
  BuyerOf <- UserBuyer
  ItemOf <- MovieTwice
  MaxQr = 2 Batch = 2
  NoRequest = NoRequest NoIntent = NoIntent
SPECIFICATION Spec
INVARIANTS
  GrantBacked
  SucceededDelivered
  SupersededOwned
  ApprovalDelivered
  DeliveredIsClosed
SYMMETRY Symmetry
CHECK_DEADLOCK FALSE
