SPECIFICATION FairSpec
CONSTANTS
  ann = ann ben = ben tim = tim
  Emails <- OneEmail
  Registered <- OneEmail
  Socials <- OneSocial
  Guest = Guest Fresh = Fresh Idle = Idle
  MaxVersion = 2 MaxFlight = 2
INVARIANTS LogoutStays PasswordCurrent HudExplained
PROPERTIES LaunchEnds
