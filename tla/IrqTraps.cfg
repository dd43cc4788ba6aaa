SPECIFICATION Spec
CONSTANTS
  Half = 2
  Words = 3
  NoFrame = NoFrame
  StatusVals = {{}, {"MIE"}}
  EnableVals = {{}, {"MSI", "MTI"}}
  VectorVals <- MCVectors
  HalfVals = {0, 1}
INVARIANTS
  HandlerIsSafe
PROPERTIES
  Resumes
  NoEarlyTimer
