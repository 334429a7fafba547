CONSTANTS
  w1 = w1
  w2 = w2
  w3 = w3
  NoWorker = NoWorker
  Job <- MCJob
  Worker <- MCWorker
  Resumable <- MCResumable
  MaxAttempts <- MCMaxAttempts
  TenantOf <- MCTenantOf
SPECIFICATION StoreSpec
INVARIANTS StoreTypeOK ActiveRowIsOwned CancelledRowOnlyEnds
PROPERTIES TerminalRowIsFinal NoStolenClaim
