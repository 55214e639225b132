SPECIFICATION ListSpec
CONSTANTS
  a = a
  b = b
  n1 = n1
  n2 = n2
  n3 = n3
  n4 = n4
  Null = Null
  Nothing = Nothing
  Item = {a, b}
  Node = {n1, n2, n3, n4}
INVARIANT ListOK
PROPERTY ImplementsSteque
CHECK_DEADLOCK FALSE
