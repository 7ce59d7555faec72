\* A plain and a guarded write, two sign-ins, every fault of the environment.
SPECIFICATION FairSpec
CONSTANTS
  Plain = {w}
  Guarded = {g}
  MaxSessions = 2
  MaxPairs = 2
  MaxFaults = 1
  Events = {"expire", "idle", "revoke", "verifyExpires", "network", "reload"}
INVARIANTS TypeOK AtMostOnce RefreshIsFresh
PROPERTIES RequestsSettle LogoutEnds
CHECK_DEADLOCK FALSE
