\* Each start of the request is finalized at most once, against a scan of a
\* request that is completed, freed and started again.
CONSTANTS
  TimeoutResults = {"HANDLED", "RESET_TIMER"}
SPECIFICATION Spec
INVARIANT CompleteOnce
