\* One event, two workers, two calls at once; two snapshots and an answer, or two answers.
SPECIFICATION Spec
CONSTANTS
  order1 = order1
  Events = {e1}
  Orders = {order1}
  Workers = {w1, w2}
  Calls = {c1, c2}
  OrderOf <- MCOrderOf
  NoOne = NoOne
  None = None
  MaxInputs = 3
  MaxFaults = 1
SYMMETRY MCSymmetry
INVARIANTS CommandsMatchDecision ProposalsNeedApproval VerifiedIsTrue OneDecision
CHECK_DEADLOCK FALSE
