SPECIFICATION Spec
CONSTANTS
  ann = ann bob = bob
  Users <- TwoUsers
  MaxMessages = 2 MaxClears = 1 MaxFaults = 1
INVARIANTS  RowsFresh HeldExplained
SYMMETRY Swap
CHECK_DEADLOCK FALSE
