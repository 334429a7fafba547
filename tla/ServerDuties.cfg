CONSTANTS
  Key <- MCKey
  Version <- MCVersion
  NoTitle = NoTitle
  Recipe <- MCRecipe
  NoRecipe = NoRecipe
  NoTargets = NoTargets
  MaxJobs = 3
  BrowserJob <- MCBrowserJob
  ConfiguredJob <- MCConfigured
  HardTtl = 2
  IdleTtl = 1
  Horizon = 3
  Cleaner = {c1, c2}
  Targets = 2
  MaxAttempts = 2
  MaxPlans = 2
  Event <- MCEvent
  NoEvent = NoEvent
  Drain <- MCDrain
  NoDrain = NoDrain
  MaxTries = 3
  MaxStops = 1
SPECIFICATION DutiesSpec
INVARIANTS DutiesTypeOK LiveWasRehearsed LiveOnce OverLeavesNothing OutboxIsSound
PROPERTIES OutcomeIsFinal QueuedIsDecided GoneForGood RunHasItsPlan EveryEventSettles
CHECK_DEADLOCK FALSE
