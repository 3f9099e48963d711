SPECIFICATION ShopSpec
CONSTANTS
  w1 = w1
  w2 = w2
  desk = desk
  Windows = {w1, w2}
  Products = {desk}
  Price <- MCPrice
  MaxQuantity = 2
  Funds = 2
  MaxOpens = 2
  MaxConfirms = 2
  SendBuffer = 1
  MaxFaults = 1
  Nothing = Nothing
CHECK_DEADLOCK FALSE
INVARIANTS
  CoinsShown
  OwnPurchasesShown
PROPERTIES
  WaitsEnd
