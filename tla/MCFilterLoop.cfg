CONSTANTS
  Reasons <- MCReasons
  StageReason = "status"
  MaxTests = 4
SPECIFICATION LoopSpec
INVARIANTS
  LoopTypeOK
  LoopIsClosedForm
  KeywordOrderIrrelevant
\* The loop ends after the last keyword.
CHECK_DEADLOCK FALSE
