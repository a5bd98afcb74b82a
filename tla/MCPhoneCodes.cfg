SPECIFICATION Spec
CONSTANTS
  r1 = r1  r2 = r2  r3 = r3
  v1 = v1  v2 = v2
  Request = {r1, r2, r3}
  Verifier = {v1, v2}
  NoCode = NoCode
  TTL = 2
  MaxAttempts = 1
  Window = 2
  MaxRequests = 2
  Gap = 1
  MaxTime = 3
SYMMETRY Symmetric
CHECK_DEADLOCK FALSE
INVARIANTS CodesSpaced WindowQuota LoginLostOnlyToRace
PROPERTIES ExhaustedStaysDead OneTimeCodes
