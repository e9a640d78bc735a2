SPECIFICATION Spec
CONSTANTS
  i1 = i1 i2 = i2
  Items <- NoItems
  Day = 5 Hour = 2 Minute = 1
  Never = Never
  MaxDay = 1 MaxSaves = 0
INVARIANTS StartNearShown StartNotPast
CHECK_DEADLOCK FALSE
