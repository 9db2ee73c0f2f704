SPECIFICATION Spec
CONSTANTS
  Client = {c1}
  FbOpens = {TRUE}
  NodeOpens = {TRUE}
  SyncFails = FALSE
INVARIANT PrepareExclusive
