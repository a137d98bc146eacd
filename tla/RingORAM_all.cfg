SPECIFICATION Spec
CONSTANTS
  Blocks = {b1, b2, b3}
  Values = {v1}
  Height = 2
  Z = 1
  S = 2
  Reserve = 0
  None = None
  NoLeaf = NoLeaf
INVARIANTS TypeOK Available NeverHalts EvictionSpread
SYMMETRY Symmetry
