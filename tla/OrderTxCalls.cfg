SPECIFICATION FairSpec
CONSTANTS
  Placements = {p1, p2}
  Cancels = {c1}
  Users = {u1}
  Keys = {k1}
  NoKey = NoKey
  NoOrder = NoOrder
  Products = {1, 2}
  Catalog = {1, 2}
  Carts <- CallCarts
  MaxLines = 2
  MaxOrderLineQuantity = 1
  Price <- Prices
  MaxAmount = 10
  Amounts = {1}
  MaxSupply = 1
CHECK_DEADLOCK FALSE
INVARIANTS OneOrderPerKey ReplyTruthful
PROPERTY EveryCallAnswered
