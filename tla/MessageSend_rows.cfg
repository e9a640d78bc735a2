SPECIFICATION Spec
CONSTANTS
  t1 = t1 t2 = t2 t3 = t3 m1 = m1 m2 = m2
  Texts <- OneText
  Images <- TwoImages
  PartnerBodies <- OneText
  NoText = NoText NoImage = NoImage Absent = Absent
  MaxScreens = 1 MaxPosts = 2 MaxWire = 2 MaxRowActs = 1 MaxFaults = 1
INVARIANTS PreviewIsWhatPosts EditHitsChosen RowsDistinct 
CHECK_DEADLOCK FALSE
