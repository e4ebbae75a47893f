SPECIFICATION FairSpec
CONSTANTS
  Requests = {r1, r2, r3}
  Keys = {k1}
  Fingerprints = {f1, f2}
  None = None
  Limit = 1
INVARIANTS TypeOK AnswersAgree LimitRespected
PROPERTIES ImplementsOncePerKey ReservationEnds
CHECK_DEADLOCK FALSE
