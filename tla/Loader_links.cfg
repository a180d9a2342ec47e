SPECIFICATION Spec
CONSTANTS
  Files = {"main", "a", "b"}
  Root = "main"
  Names = {"b", "f", "g", "h", "k", "m"}
  Modules = {"main", "a", "b", "q"}
  Missing = "missing"
  None = None
  Projects <- AllProjects
INVARIANTS TypeOK AcceptsWellFormed LinkedInOrder SafeNamesKeepMeaning
