CONSTANTS
  Pushers = {p1, p2}
  Poppers = {c1}
  AsyncPoppers = {a1}
  Items = {x1, x2, x3, x4}
  Capacity = 2
  Nothing = Nothing
SPECIFICATION Spec
INVARIANTS QueueIsTheDifference NoLostWakeup
PROPERTY ImplementsFifo
