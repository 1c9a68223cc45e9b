SPECIFICATION Spec
CONSTANTS
  Duration = 8
  Period = 4
  Build = "mono"
INVARIANTS ExportOfLastStep
