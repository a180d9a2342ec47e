SPECIFICATION FairSpec
CONSTANTS
  c1 = c1
  c2 = c2
  Client <- TwoClients
  MaxVersion = 2
  MaxFaults = 2
  Signs = TRUE
  AllowUnsigned = FALSE
  HasGpg = TRUE
  None = None
  Refused = Refused
  Partial = Partial
INVARIANTS OnlySigned
PROPERTIES AnswersAgain
