SPECIFICATION Spec
CONSTANTS
  ann = ann ben = ben tim = tim
  Emails <- OneEmail
  Registered <- OneEmail
  Socials <- OneSocial
  Guest = Guest Fresh = Fresh Idle = Idle
  MaxVersion = 1 MaxFlight = 2
INVARIANTS SocialNeedsNoPassword
