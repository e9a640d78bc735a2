SPECIFICATION FairSpec
CONSTANTS
  plain = plain edited = edited
  Values <- TwoValues
  MaxTrips = 1 MaxRequests = 2 MaxLate = 1
INVARIANTS RowsOnce TapOpensShown ListCurrent
PROPERTIES TripsUnblocked
