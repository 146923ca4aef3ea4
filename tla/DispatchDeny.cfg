\* One event, one call at a time; a command may time out.
SPECIFICATION Spec
CONSTANTS
  order1 = order1
  Events = {e1}
  Orders = {order1}
  Workers = {w1, w2}
  Calls = {c1}
  OrderOf <- MCOrderOf
  NoOne = NoOne
  None = None
  MaxInputs = 3
  MaxFaults = 1
SYMMETRY MCSymmetry
INVARIANTS DenyNeverWrites
CHECK_DEADLOCK FALSE
