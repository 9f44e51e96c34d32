SPECIFICATION Spec
CONSTANTS
  Alerts = {a1, a2, a3}
  Capacity = 4
  Blank = Blank
PROPERTIES ImplementsLog
