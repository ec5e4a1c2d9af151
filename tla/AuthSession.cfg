CONSTANTS
  t1 = t1  t2 = t2
  Tab = {t1, t2}
  MaxLogins = 2  MaxCalls = 2  MaxFailures = 2
SPECIFICATION Spec
INVARIANTS
  SessionLostForAReason
  SingleLiveToken
PROPERTIES
  DeadFamilyStaysDead
  CallEnds
CHECK_DEADLOCK FALSE
