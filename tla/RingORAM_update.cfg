SPECIFICATION Spec
CONSTANTS
  Blocks = {b1}
  Values = {v1, v2}
  Height = 2
  Z = 1
  S = 1
  Reserve = 0
  None = None
  NoLeaf = NoLeaf
INVARIANTS ReadLatest
