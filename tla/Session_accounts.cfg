SPECIFICATION Spec
CONSTANTS
  ann = ann ben = ben tim = tim
  Emails <- TwoEmails
  Registered <- OneEmail
  Socials <- None
  Guest = Guest Fresh = Fresh Idle = Idle
  MaxVersion = 2 MaxFlight = 2
INVARIANTS SavedIsShown PasswordOwned
