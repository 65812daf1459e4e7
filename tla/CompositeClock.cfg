SPECIFICATION Spec
CONSTANTS
  NLayers = 2
  Pixels = {1}
  Positions = {1}
  Rects <- MCRectsOne
  Colors = {black, red}
  Black = black
  LayerArgs <- MCLayerArgs
  MaxAge = 2
  Never = 50
  StartTimes <- MCStartTimes
  NULL = NULL
  MaxTicks = 4
INVARIANTS
  ClearedAlways
CHECK_DEADLOCK FALSE
