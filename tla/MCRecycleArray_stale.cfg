SPECIFICATION Spec
CONSTANTS
  r1 = r1
  Readers = {r1}
  DefaultSize = 3
  Sizes = {3, 4}
  MaxPut = 3
  BuffSize = 3
  Aligned = 2
  SharedWorker = FALSE
  MaxBytes = 9
  MaxGeneration = 2
INVARIANTS InOrder
