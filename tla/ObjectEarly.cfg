SPECIFICATION Spec
CONSTANTS
  Component <- Components
  Link <- LinkNames
  NULL = NULL
  c1 = c1
  c2 = c2
  c3 = c3
  c4 = c4
  c5 = c5
  l1 = l1
  l2 = l2
  l3 = l3
  l4 = l4
  Systems <- EarlyFanOut
  MaxRounds = 2
CHECK_DEADLOCK FALSE
INVARIANT SentToAll
