SPECIFICATION ShopSpec
CONSTANTS
  Calls = {c1, c2, c3}
  Users = {u1}
  Products = {1, 3}
  Catalog = {1}
  Quantities = {1, 2}
  DetailReaders = {d1}
  ListReaders = {l1, l2}
  Creators = {w1}
  Updaters = {w2}
  None = None
  Missing = Missing
  Error = Error
INVARIANT ListAnswerFresh
PROPERTIES ImplementsAtomicCart CartCallAnswered EventuallyFresh
CHECK_DEADLOCK FALSE
