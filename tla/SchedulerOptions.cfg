SPECIFICATION Spec
CONSTANTS
  Boing = boing
  Water = water
  Pacman = pacman
  Entries = {boing, water, pacman}
  Order <- MCOrder
  Exec = {pacman}
  Waits = {pacman}
  Solo = {pacman}
  Fragile = {}
  Seconds <- MCSeconds
  DefaultSeconds = 2
  Overlap = 1
  Versions = {"installed", "edited"}
  Installed <- MCInstalled
  Starts <- MCStarts
  Lead = 2
  NULL = NULL
  MaxIndex = 2
  MaxAge = 2
  MaxCommands = 1
INVARIANTS
  BuiltAsConfigured
CHECK_DEADLOCK FALSE
