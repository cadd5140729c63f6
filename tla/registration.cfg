SPECIFICATION Spec
CONSTANTS
  Run = {r1, r2, r3}
  Robots = 3
  Activities = 2
  Buttons = TRUE
SYMMETRY Symmetric
CHECK_DEADLOCK FALSE
INVARIANT TypeOK
INVARIANT Complete
INVARIANT NotAllOvertaken
