SPECIFICATION SpecWithManager
CONSTANTS
  Kinds = {"media", "perception", "original_frame"}
  MaxStdout = 1
  MaxStderr = 1
INVARIANTS
  NoWorkerOutlivesTheAnswer
  AnswerIsTrue
PROPERTY CallEnds
CHECK_DEADLOCK FALSE
