CONSTANTS
  p3d = p3d
  pdc = pdc
  h1 = h1
  h2 = h2
  app = app
  Interrupts = {p3d, pdc}
  PdcInterrupts = {pdc}
  NoInterrupt = NoInterrupt
  Handlers = {h1, h2}
  NoHandler = NoHandler
  QUEUE_LENGTH = 2
  Waiters = {app}
SPECIFICATION FairSpec
INVARIANTS
  NoWakeupIsLost
  RunningHandlerIsRegistered
PROPERTIES
  ImplementsInterruptDelivery
  InterruptsAreTaken
  WaitsEnd
\* After Finalize nothing is left to do.
CHECK_DEADLOCK FALSE
