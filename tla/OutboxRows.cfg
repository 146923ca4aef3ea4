\* Three rows, two publishers with batches of two, which may stall past the stale limit or not.
SPECIFICATION FairSpec
CONSTANTS
  Events = {1, 2, 3}
  Publishers = {p1, p2}
  BatchSize = 2
  MaxFaults = 2
INVARIANTS HolderOwnsTheRow
PROPERTIES ImplementsDelivery EventuallyPublished
CHECK_DEADLOCK FALSE
