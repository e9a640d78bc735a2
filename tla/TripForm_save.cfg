SPECIFICATION FairSpec
CONSTANTS
  i1 = i1 i2 = i2
  Items <- TwoItems
  Day = 2 Hour = 1 Minute = 1
  Never = Never
  MaxDay = 0 MaxSaves = 2
INVARIANTS  TripOnce
PROPERTIES FormUnblocked
CHECK_DEADLOCK FALSE
