SPECIFICATION Spec
CONSTANTS
  Atoms = {1, 2}
  Contents = {1, 2}
  Attrs = {0}
  Poison = {}
  MaxRepairs = 1
  MaxAttempts = 2
  MaxRetries = 1
  MaxReplays = 2
  MaxBackoff = 2
  MaxJobs = 1
  MaxWrites = 3
  MaxFaults = 2
PROPERTY ForgottenStaysForgotten
CHECK_DEADLOCK FALSE
