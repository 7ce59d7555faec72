\* The tenant context across two sign-ins.
SPECIFICATION Spec
CONSTANTS
  MaxSubjects = 2
  MaxCalls = 2
  MaxSeq = 4
INVARIANTS TenantOfSubject
CHECK_DEADLOCK FALSE
