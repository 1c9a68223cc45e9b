SPECIFICATION Spec
CONSTANTS
  Duration = 10
  Period = 4
  Images = TRUE
  Export = TRUE
INVARIANT NormOfThisPeriod
