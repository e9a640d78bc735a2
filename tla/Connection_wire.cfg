SPECIFICATION FairSpec
CONSTANTS
  room = room list = list
  Queries <- TwoQueries
  MaxPuts = 3 MaxListens = 2 MaxFaults = 2
INVARIANTS ListensAgree
PROPERTIES Delivers CompletionsInTurn PutsComplete
CHECK_DEADLOCK FALSE
