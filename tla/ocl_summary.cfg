SPECIFICATION Spec
CONSTANTS
  Duration = 10
  Period = 4
  Images = TRUE
  Export = FALSE
INVARIANT SummaryAfterKernels
