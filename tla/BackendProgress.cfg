\* Two orders, two scanners and batches that hold every expired order; one device that
\* administrators edit or delete at any time, two request ids.
SPECIFICATION JobSpec
CONSTANTS
  Orders = {o1, o2}
  Workers = {w1}
  NoWorker = NoWorker
  Scanners = {s1, s2}
  Admins = {a1}
  DispatchAdmins = {a1}
  AdminKeys = {"admin:1:k"}
  Urgent = {o1}
  BatchSize = 2
  NoEvent = NoEvent
  Devices = {d1}
  Users = {u1, u2}
  Nobody = Nobody
  Requests = {r1, r2}
  NoRequest = NoRequest
  NoRelation = NoRelation
  NoTransaction = NoTransaction
  Clients = {t1}
  Consumers = {c1, c2}
  FormStatuses = {"OTHER"}
  MaxFaults = 1
INVARIANTS WindowIsRespected
PROPERTIES ExpiredIsDispatched PendingIsResolved
CHECK_DEADLOCK FALSE
