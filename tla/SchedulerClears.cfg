SPECIFICATION Spec
CONSTANTS
  Boing = boing
  Water = water
  Pacman = pacman
  Entries = {boing, water, pacman}
  Order <- MCOrder
  Exec = {pacman}
  Waits = {pacman}
  Solo = {pacman}
  Fragile = {}
  Seconds <- MCSeconds
  DefaultSeconds = 2
  Overlap = 1
  Versions = {"installed"}
  Installed <- MCInstalled
  Starts <- MCStarts
  Lead = 2
  NULL = NULL
  MaxIndex = 3
  MaxAge = 2
  MaxCommands = 0
INVARIANTS
  ClearsAreCleared
CHECK_DEADLOCK FALSE
