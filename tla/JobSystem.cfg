CONSTANTS
  w0 = w0
  w1 = w1
  NoWorker = NoWorker
  NoJob = NoJob
  Idle = Idle
  Local = w0
  Job <- MCJob
  Worker <- MCWorker
  Runner <- MCRunner
  Resumable <- MCJob
  MaxAttempts <- MCMaxAttempts
  TenantOf <- MCTenantOf
SPECIFICATION SystemSpec
INVARIANTS AckedCancelSticks NoSilentGreen SystemIsSound
PROPERTIES SpawnedByOne
