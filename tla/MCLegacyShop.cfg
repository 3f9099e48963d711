SPECIFICATION Spec
CONSTANTS
  u1 = u1
  i1 = i1
  s1 = s1
  s2 = s2
  None = None
  Unlimited = Unlimited
  Users = {u1}
  Items = {i1}
  Sessions = {s1, s2}
  Prices = {0, 1, 2}
  MaxPerUser <- MCMaxOne
  ReadsMayFail = FALSE
  CoinMax = 4
SYMMETRY Symmetry
INVARIANTS
  EveryItemPaid
  OvershootBounded
