CONSTANTS
  w0 = w0
  NoWorker = NoWorker
  Idle = Idle
  Local = w0
  Job <- MCJob
  Worker <- MCWorker
  Resumable <- MCResumable
  MaxAttempts <- MCMaxAttempts
  TenantOf <- MCTenantOf
SPECIFICATION LocalSpec
INVARIANT TimeoutIsReported
