SPECIFICATION Spec
CONSTANTS
  Boing = boing
  Water = water
  Pacman = pacman
  Entries = {boing, water, pacman}
  Order <- MCOrder
  Exec = {pacman}
  Waits = {pacman}
  Solo = {pacman}
  Fragile = {water}
  Seconds <- MCSeconds
  DefaultSeconds = 2
  Overlap = 1
  Versions = {"installed"}
  Installed <- MCInstalled
  Starts <- MCStarts
  Lead = 2
  NULL = NULL
  MaxIndex = 2
  MaxAge = 2
  MaxCommands = 2
INVARIANTS
  TypeOK
  OnAirBuilt
  ReadyAsMapped
  OneDrawer
  CleanExit
PROPERTIES
  
  
  JumpPlays
CHECK_DEADLOCK FALSE
