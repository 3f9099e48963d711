SPECIFICATION FairSpec
CONSTANTS
  u1 = u1
  u2 = u2
  r1 = r1
  p1 = p1
  admin = admin
  s1 = s1
  s2 = s2
  None = None
  Unlimited = Unlimited
  Users = {u1, u2}
  Requests = {r1}
  Products = {p1}
  Sessions = {s1, s2}
  CoinsOf <- MCOneCoin
  Price <- MCPrice
  Stock0 <- MCStock
  MaxPerUser <- MCMaxTwo
  Reasons = {admin}
  Adjustments = {2}
  Quantities = {1, 2}
  MaxQty = 3
  CoinMax = 3
INVARIANTS
  NoOverdraft
  LedgerExplainsBalance
  CreditedOnce
  LimitsKept
PROPERTIES
  ImplementsWallet
  HandlersFinish
