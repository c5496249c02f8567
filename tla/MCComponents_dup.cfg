SPECIFICATION DequeSpec
CONSTANTS
  k1 = k1
  a0 = a0
  a1 = a1
  a2 = a2
  a3 = a3
  a4 = a4
  u1 = u1
  u2 = u2
  e1 = e1
  e2 = e2
  e3 = e3
  c1 = c1
  dx = dx
  dy = dy
  null = null
  TableScenes <- AllScenes
  Thieves = {1, 2}
  Uses = {"both"}
  FirstSize <- OneOrEight
  MaxPush = 4
  StealMax = 2
INVARIANT
  EachOnce
CHECK_DEADLOCK FALSE
