SPECIFICATION Spec
CONSTANTS
  Threads = {t1, t2, t3}
  MaxSlots = 2
  PageSize = 2
  MaxPages = 4
  MaxRefs = 4
  UIntWidth = 3
  Sizes = {0, 3}
  Offsets = {1, 7}
  Lengths = {1, 2, 3}
  Bytes = {1}
  Exhaust = TRUE
  Zero = Zero
  Minus1 = Minus1
SYMMETRY Interchangeable
VIEW WithoutLast
INVARIANT NoDanglingPage
PROPERTY OthersUntouched
