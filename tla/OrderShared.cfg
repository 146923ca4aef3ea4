\* Two orders that compete for one worker, two threads, locks kept by live holders; instances may die.
SPECIFICATION FairSpec
CONSTANTS
  o1 = o1  o2 = o2  w1 = w1  w2 = w2
  k1 = k1  k2 = k2  k3 = k3  d1 = d1  d2 = d2
  Orders = {o1, o2}
  Workers = {w1, w2}
  NoWorker = NoWorker
  Keys = {k1, k2, k3}
  Dispatches = {d1, d2}
  Threads = {t1, t2}
  Free = Free
  Orphan = Orphan
  NoCommand = NoCommand
  ClaimCommands <- SharedClaims
  AssignCommands <- SharedCommands
  Eligible <- AllEligible
  Capacity <- RoomForOne
  Urgent = {}
  LegacyOrders = {o2}
  LockMayBeLost = FALSE
INVARIANTS SuccessReceiptIsTrue
PROPERTIES LockIsReleased
CHECK_DEADLOCK FALSE
