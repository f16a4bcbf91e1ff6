\* Six tables of routes, a keyboard in two combos, one pointer event under way.
SPECIFICATION FairSpec
CONSTANTS
  c1 = c1
  c2 = c2
  h1 = h1
  NoDevice = NoDevice
  NoRoute = NoRoute
  Routes <- AllRoutes
  Tables <- SixTables
  Devices <- TwoCombos
  MaxEvents = 1
INVARIANTS
  KeysComeFromFocus
  LooksComeFromFocus
PROPERTIES
  RoutesAreSteady
  InputSettles
CHECK_DEADLOCK FALSE
