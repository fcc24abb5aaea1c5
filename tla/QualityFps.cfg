SPECIFICATION ResizeSpec
CONSTANTS
  Sizes = {p, l}
  Wide = {l}
  Rates = {30, 60}
  NoSize = none
  MaxResizes = 2
  MaxFailures = 1
INVARIANT FpsIsSent
CHECK_DEADLOCK FALSE
