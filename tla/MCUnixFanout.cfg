SPECIFICATION Spec
CONSTANTS
  Clients = {c1}
  MaxSeq = 2
  OutCap = 1
  MaxDials = 1
  Widths = {10}
INVARIANTS
    ShownOnceInOrder

    
    
CHECK_DEADLOCK FALSE
