SPECIFICATION Spec
CONSTANTS
  Threads = {t1, t2, t3}
  MaxSlots = 3
  PageSize = 2
  MaxPages = 6
  MaxRefs = 3
  UIntWidth = 3
  Sizes = {0, 3}
  Offsets = {1}
  Lengths = {1, 2, 3}
  Bytes = {1}
  Exhaust = FALSE
  Zero = Zero
  Minus1 = Minus1
SYMMETRY Interchangeable
VIEW WithoutLast
INVARIANT RefCountExact
INVARIANT AllProtected
INVARIANT FaultFindsArea
PROPERTY ImplementsPrivateStorage
