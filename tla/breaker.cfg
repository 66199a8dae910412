SPECIFICATION FairBreakerSpec
CONSTANTS
  Callers = {c1, c2, c3}
  failure_threshold = 3
  half_open_max_retries = 1
  HasSecondary = TRUE
  MaxFailures = 4
INVARIANTS NeverWedged
 
