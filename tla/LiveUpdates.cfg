CONSTANTS
  s1 = s1  s2 = s2  n1 = n1  c1 = c1  c2 = c2
  Session = {s1, s2}
  Node = {n1}
  Client = {c1, c2}
  MaxEvents = 2
  MaxFaults = 1
SPECIFICATION Spec
INVARIANTS
  SessionInOrder
  NothingForgotten
  OnlyDurableShown
  NoGap
  EndedIsForgotten
SYMMETRY Interchangeable
CHECK_DEADLOCK FALSE
