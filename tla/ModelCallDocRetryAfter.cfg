SPECIFICATION Spec
CONSTANTS
  MaxAttempts = 2
  InitialBackoff = 1
  BackoffCap = 2
  Width = 2
  Timeouts <- NoTimeout
  Failures <- RateLimits
  MaxEvents = 1
INVARIANT RetryAfterHonoured
