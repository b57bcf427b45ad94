SPECIFICATION Spec
CONSTANTS
  PanelW = 5
  PanelH = 4
  Int16Max = 63
  RowBuf = 2
  Chunk = 3
  MaxFaults = 1
  MaxCmds = 2
  Clips <- MCClips
  Commands <- MCCommands
  Disturbed <- MCDisturbed
  Windows <- MCWindows
INVARIANTS FiguresExact  LitIsReady
