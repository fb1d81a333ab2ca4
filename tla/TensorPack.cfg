CONSTANTS
  A = A
  B = B
  C = C
  S = S
  Tensors = {A, B, C, S}
  Order <- MCOrder
  Dense = {B}
  Reversed = {A, C}
  Dimension = 2
  Capacity = 2
  Spare = 2
  MaxInserts <- MCInserts
  MaxBuffer = 2
  Programs = {{A, C}, {A, S}, {B, S}}
  Usage = {}
SPECIFICATION Spec
INVARIANTS TypeOK WritesInside IncrementSemantics StorageIsSorted LoopReadsAll
