SPECIFICATION FairSpec
CONSTANTS
  t1 = t1 t2 = t2 t3 = t3 m1 = m1 m2 = m2
  Texts <- TwoTexts
  Images <- None
  PartnerBodies <- OneText
  NoText = NoText NoImage = NoImage Absent = Absent
  MaxScreens = 2 MaxPosts = 3 MaxWire = 3 MaxRowActs = 0 MaxFaults = 1
INVARIANTS OneChainPerScreen LatchExplained TextPostedOnce 
PROPERTIES SendEnds MessageReachesPartner MessageGetsRow
CHECK_DEADLOCK FALSE
