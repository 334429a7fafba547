CONSTANTS
  w1 = w1
  w2 = w2
  NoWorker = NoWorker
  NoJob = NoJob
  Job <- MCJob
  Worker <- MCWorker
  Runner <- MCWorker
  Resumable <- MCJob
  MaxAttempts <- MCMaxAttempts
  TenantOf <- MCTenantOf
SPECIFICATION FleetSpec
INVARIANT FleetIsSound
PROPERTIES StoreContract LostJobStopsChild
