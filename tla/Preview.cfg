SPECIFICATION PreviewSpec
CONSTANTS
  Width = 2
  Height = 2
  Pictures <- MCPictures
  red = red
  Dark = black
  Places <- MCPlaces
  SizeSettings <- MCSizes
  SizeBits = 20
  MaxFrames = 2
  NLayers = 2
  Rows = 2
  Colors = {black, red}
  Black = black
  Timeout = 1
  Browsers = {b1}
  Nothing = Nothing
  MaxJoins = 1
INVARIANTS TypeOK  BandCostsOnlyItsRows ClearedInTime ShownAtRest
PROPERTIES ImplementsLayeredDisplay NewestFrameShown
