SPECIFICATION Spec
CONSTANTS
  Ids = {i1, i2}
  Contents = {a, b}
  Windows = {w1, w2}
  None = None
  Part = Part
SYMMETRY Interchangeable
INVARIANTS
  TypeOK
  ShownIsWhole
  ImportIsKept
  OneConfiguration
PROPERTIES
  ImplementsAtomicStore
