\* One device, two users, three request ids, two concurrent calls, two consumers.
SPECIFICATION Spec
CONSTANTS
  Devices = {d1}
  Users = {u1, u2}
  Nobody = Nobody
  Requests = {r1, r2, r3}
  NoRequest = NoRequest
  NoRelation = NoRelation
  NoTransaction = NoTransaction
  Clients = {t1, t2}
  Consumers = {c1, c2}
  Admins = {}
  FormStatuses = {}
  MaxFaults = 1
SYMMETRY Interchangeable
INVARIANTS RelationMatchesDevice
PROPERTIES ImplementsOwnership
CHECK_DEADLOCK FALSE
