SPECIFICATION Spec
CONSTANTS
  a1 = a1  x1 = x1  x2 = x2  x3 = x3  gpu = gpu
  Host = Host
  NoTransfer = NoTransfer
  Reads = {a1}
  Transfers = {x1, x2}
  ReadOf <- OneReadOf
  Subranges <- OneRead
  CtxOf <- OneHost
  SubrangeSize = 1
  NumReactors = 2
  MaxConcurrentRequests = 2
  MaxAttempts = 2
  Faults = {"multi", "retry", "fatal", "short", "overflow", "alloc"}
INVARIANTS TypeOK SlotsConserved RetriesNotOverslept NoStrandedWork ReportInv
PROPERTIES AttemptsStartClean Implements
CHECK_DEADLOCK FALSE
