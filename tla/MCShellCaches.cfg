\* Two sign-ins, two requests in flight, every store.
SPECIFICATION FairSpec
CONSTANTS
  MaxSubjects = 2
  MaxCalls = 2
  MaxSeq = 6
INVARIANTS CachesTypeOK MenuOfSubject WarmOfSubject ViewpointOfSubject PromisesPending
PROPERTIES MenuStopsLoading
CHECK_DEADLOCK FALSE
