SPECIFICATION FairSpec
CONSTANTS
  from = from to = to city = city land = land
  Ends <- OneEnd
  Cities <- OneCity
  Countries <- OneCountry
  Blank = Blank
  MaxDay = 3 MaxSearches = 4
INVARIANTS  RowsOfLast RowsHeld
 
CHECK_DEADLOCK FALSE
