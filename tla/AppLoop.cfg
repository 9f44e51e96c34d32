SPECIFICATION Spec
CONSTANTS
  h1 = h1  h2 = h2
  Hosts = {h1, h2}
  Errors = {}
  NoError = NoError
  None = None
  ProfileCount = 2
  Screens <- MCScreens
  Rows = 1
  Buttons <- MCButtons
  MaxPressed = 1
  MaxRounds = 2
INVARIANTS AlertsTellTheNetwork DetailIsChosen SelectionVisible NoScanBehindRadar
CHECK_DEADLOCK FALSE
SYMMETRY Symmetry
