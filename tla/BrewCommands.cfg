CONSTANTS
  Call = {c1, c2}
  RETRY_COUNT = 2
  Brews = {c1}
  Profiles = {1, 2}
  Numbers = {300, 65576}
  MaxProperties = 2
  MaxParams = 3
SPECIFICATION BrewSpec
INVARIANTS
  DuplicatesArePaidFor
  UnsupportedIsTrue
  RecipeIsTheBeverages
  CommandCarriesRecipe
  FramesWellFormed
  NoMilkWithoutModule
  MachineReadsWish
CHECK_DEADLOCK FALSE
