\* Every small submission; admitted plans over two attempts, interrupted in every way.
SPECIFICATION PlanSpec
CONSTANTS
  Keys = {"a", "b", "c"}
  Plans <- Submissions
  MaxRuns = 2
  Interrupts = {"kill", "suspend", "crash"}
INVARIANTS PlanTypeOK AdmitsExactlyDags OrderRespectsDeps ConditionHolds FailFastStops SuccessIsWhole
PROPERTIES CheckpointIsFinal
CHECK_DEADLOCK FALSE
