SPECIFICATION Spec
CONSTANTS
  Calls <- ConstCalls
  Targets <- ConstTargets
INVARIANTS
  SuccessIsTrue
  OthersUntouched
  FailureKeepsText
  ModeIsOwn
  TempfileRemoved
