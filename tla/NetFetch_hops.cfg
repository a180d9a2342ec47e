SPECIFICATION FetchSpec
CONSTANTS
  Host <- MCHost
  Url <- MCUrl
  Schemes <- MCSchemes
  Budget = 3
  Ceiling = 2
  MaxHops = 2
  MaxClock = 5
  None = None
INVARIANTS HopsArePermitted
PROPERTIES BodiesAreBounded
