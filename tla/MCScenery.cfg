CONSTANTS
  NumDividers = 5
  Spacing = 7
  ScreenHeight = 24
  Length = 4
  InitialSpeed = 2
  Speedup = 1
  MaxSpeed = 9
  WindowWidth = 600
  WindowHeight = 800
  WindowSizes <- MCSizes
  Pixels <- MCPixels
SPECIFICATION Spec
\* The program ends by QUIT.
CHECK_DEADLOCK FALSE
INVARIANTS
  ButtonsWork
  ButtonsNotSwapped
PROPERTIES
  GamesStartPainted
  MergesBySpeed
