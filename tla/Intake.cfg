SPECIFICATION IntakeFairSpec
CONSTANTS
  Txns = {t1, t2, t3}
  R = 2
INVARIANTS TimestampsFollowArrival TakenOnce
PROPERTIES InTimeIsExecuted
