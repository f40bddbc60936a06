SPECIFICATION FairSpec
CONSTANTS
  Suites <- MCSuites
  MaxWork = 4
INVARIANTS
  ReportAccounts
  MetMeansMeasured
PROPERTY SuiteReturns
CHECK_DEADLOCK FALSE
