SPECIFICATION Spec
CONSTANTS
  NLayers = 3
  Pixels = {1, 2}
  Positions = {1, 2, 3}
  Rects <- MCRects
  Colors = {black, red}
  Black = black
  LayerArgs <- MCLayerArgs
  MaxAge = 2
  Never = 50
  StartTimes <- MCStartTimes
  NULL = NULL
  MaxTicks = 4
INVARIANTS
  TypeOK
  ZBufferRight
  AtRestWhenUnlocked
  ClearedOnTime
PROPERTIES
  
  ImplementsLayeredDisplay
