SPECIFICATION AllSpec
CONSTANTS
  Duration = 8
  Period = 4
  Images = TRUE
  Export = TRUE
INVARIANTS
  NormsOfTheirSteps
  ReportsOfTheirStep
PROPERTIES
  EachImplementsLoop
  EachEnds
