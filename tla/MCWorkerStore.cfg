SPECIFICATION StoreSpec
CONSTANTS
  Jobs = {j1}
  Hosts = {h1, h2}
  Unset = Unset
  MaxNumResets = 2
  MaxNumRetries = 2
  RetryAfterSet = TRUE
  DequeueLimit = 1
  MaxRequeues = 2
SYMMETRY Symmetry
INVARIANTS StoreTypeOK PoisonBound
PROPERTIES TerminalIsFinal CancelSticks
