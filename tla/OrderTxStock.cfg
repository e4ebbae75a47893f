SPECIFICATION Spec
CONSTANTS
  Placements = {p1, p2}
  Cancels = {c1, c2}
  Users = {u1}
  Keys = {}
  NoKey = NoKey
  NoOrder = NoOrder
  Products = {1, 2, 3}
  Catalog = {1, 2}
  Carts <- StockCarts
  MaxLines = 3
  MaxOrderLineQuantity = 1
  Price <- Prices
  MaxAmount = 10
  Amounts = {2}
  MaxSupply = 2
CHECK_DEADLOCK FALSE
SYMMETRY Symmetry
INVARIANTS TypeOK StockConserved CancelledOnce NoDeadlock
PROPERTY ImplementsLedger
