SPECIFICATION Spec
CONSTANTS
  Node = {n1}
  Slug = {work, play}
  Remote = {d1, d2}
  Request = {r1}
  Idle = Idle
  MaxReturns = 1
PROPERTIES BindingHasNode
