SPECIFICATION Spec
CONSTANTS
  Content <- ThreeFrames
  Header = 2
  MaxSize = 3
  Selects = FALSE
CHECK_DEADLOCK FALSE
INVARIANT NeverMisread
