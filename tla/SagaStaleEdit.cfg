\* One administrator whose forms leave the status alone.
SPECIFICATION Spec
CONSTANTS
  Devices = {d1}
  Users = {u1}
  Nobody = Nobody
  Requests = {r1, r2}
  NoRequest = NoRequest
  NoRelation = NoRelation
  NoTransaction = NoTransaction
  Clients = {t1}
  Consumers = {c1}
  Admins = {a1}
  FormStatuses = {}
  MaxFaults = 0
INVARIANTS ActiveMeansInUse
CHECK_DEADLOCK FALSE
