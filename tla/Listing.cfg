SPECIFICATION ListingSpec
CONSTANTS
  Rows = {r1, r2, r3, r4}
  Values = {1, 2, 3}
  OrderBys = {"", "status", "quantity"}
  Pages = {0, 5}
  Limits = {1, 3}
  DefaultPageSize = 2
  Word = 16
  MaxMoves = 1
SYMMETRY Symmetry
INVARIANTS ListingTypeOK WalkComplete WalkExact PastTheEndEmpty
CHECK_DEADLOCK FALSE
