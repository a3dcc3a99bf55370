SPECIFICATION FairSpec
CONSTANTS
  h1 = h1
  h2 = h2
  buyer = buyer
  seller = seller
  ore = ore
  Handlers <- MCHandlers
  Resources <- MCResources
  Buyers <- MCBuyers
  Sellers <- MCSellers
  Prices = {1, 2}
  Quantities = {1, 2}
  MaxRecent = 1
  MaxOrders = 2
  MaxRestarts = 1
  EmitMayFail = TRUE
  Nobody = Nobody
PROPERTIES
  ExchangeSpec
  AlwaysAnswers
CHECK_DEADLOCK FALSE
