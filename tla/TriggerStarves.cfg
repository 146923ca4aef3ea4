\* A batch of one and two expired orders: the oldest unclaimed one fills it for ever.
SPECIFICATION FairDispatchSpec
CONSTANTS
  Orders = {o1, o2}
  Workers = {w1}
  NoWorker = NoWorker
  Scanners = {s1}
  DispatchAdmins = {}
  AdminKeys = {"admin:1:k"}
  Urgent = {o1}
  BatchSize = 1
  NoEvent = NoEvent

PROPERTIES ExpiredIsDispatched
CHECK_DEADLOCK FALSE
