SPECIFICATION Spec
CONSTANTS
  o1 = o1
  i1 = i1
  i2 = i2
  i3 = i3
  i4 = i4
  q1 = q1
  q2 = q2
  c1 = c1
  c2 = c2
  none = none
  Orders = {o1}
  Items = {i1, i2}
  Quotes = {q1}
  Calls = {c1, c2}
  Reached = {"COMPLETED"}
  MaxQty = 2
SYMMETRY Alike
CONSTRAINT Bounded
CHECK_DEADLOCK FALSE

  
  
  
PROPERTIES
  AnsweredOnce
