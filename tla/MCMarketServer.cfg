SPECIFICATION Spec
CONSTANTS
  h1 = h1
  h2 = h2
  buyer = buyer
  seller = seller
  ore = ore
  Handlers <- MCHandlers
  Resources <- MCResources
  Buyers <- MCBuyers
  Sellers <- MCSellers
  Prices = {1, 2}
  Quantities = {1, 2}
  MaxRecent = 1
  MaxOrders = 3
  MaxRestarts = 0
  EmitMayFail = FALSE
  Nobody = Nobody
INVARIANTS
  TypeOK
  BooksSorted
  NoStrandedCross
  NothingLostOrMinted
  ReportedOnce
PROPERTIES
  ExchangeSpec
CHECK_DEADLOCK FALSE
