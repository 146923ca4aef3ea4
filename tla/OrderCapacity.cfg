\* Two orders under their own locks, one worker with room for one order.
SPECIFICATION Spec
CONSTANTS
  o1 = o1  o2 = o2  w1 = w1  w2 = w2
  k1 = k1  k2 = k2  k3 = k3  d1 = d1  d2 = d2
  Orders = {o1, o2}
  Workers = {w1, w2}
  NoWorker = NoWorker
  Keys = {k1, k2, k3}
  Dispatches = {d1, d2}
  Threads = {t1, t2}
  Free = Free
  Orphan = Orphan
  NoCommand = NoCommand
  ClaimCommands = {}
  AssignCommands <- RaceCommands
  Eligible <- AllEligible
  Capacity <- RoomForOne
  Urgent = {}
  LegacyOrders = {o1, o2}
  LockMayBeLost = FALSE
PROPERTIES AssignmentLeavesRoom
CHECK_DEADLOCK FALSE
