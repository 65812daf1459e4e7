SPECIFICATION Spec
CONSTANTS
  Width = 2
  Height = 2
  Colors = {black, red}
  Black = black
  Areas <- MCAreas
  Writers = {udp, gc}
INVARIANTS
  TypeOK
  SpareInSync
  AsleepOnlyWhenShown
PROPERTIES
  OnScreenUntouched
  ImplementsPanel
  SentIsShown
  StopIsNoticed
