SPECIFICATION DesktopSpec
CONSTANTS
  Restarts = {r1, r2}
  Boot = boot
  Quit = quit
  Install = install
  MaxChildren = 3
  MaxServers = 2
  Overlap = FALSE
INVARIANTS StatusMatchesChild OneServer QuitLeavesNone EveryServerIsHeld
PROPERTIES ElectronCallsEnd ReadyIsShown StartSettles QuitEnds
CHECK_DEADLOCK FALSE
