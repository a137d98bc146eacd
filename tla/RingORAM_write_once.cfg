SPECIFICATION FairWriteOnceSpec
CONSTANTS
  Blocks = {b1, b2, b3, b4, b5}
  Values = {v1}
  Height = 2
  Z = 1
  S = 1
  Reserve = 0
  None = None
  NoLeaf = NoLeaf
INVARIANTS SingleCopy ReadLatest
PROPERTIES ImplementsBlockStore RequestsEnd
