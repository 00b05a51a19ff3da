CONSTANTS
  Messages <- MCMessages
  CursorMod = 5
  ScreenCells = 4
  ByteMod = 4
  Width = 4
  FirstPos = 2
  Banner <- MCBanner
  MaxLogs = 1
SPECIFICATION FairSpec
INVARIANTS
  TelemetryIntact
  InServiceSound
  EchoSound
PROPERTIES
  KeysHandled
