SPECIFICATION PStackSpec
CONSTANTS
  e1 = e1
  e2 = e2
  e3 = e3
  PStackEntries = {e1, e2, e3}
  FastData_Size = 2
  Lengths = {0, 5}
  Layouts <- MCLayouts
  Ops = {"AsnMultiply", "Assignment", "Case", "Default", "LogicalAND", "LogicalOR", "For"}
  PushLimit = 3
INVARIANTS
  VisitsWhatWasPushed SimplesRecognised
SYMMETRY MCSymmetry
VIEW MCView
