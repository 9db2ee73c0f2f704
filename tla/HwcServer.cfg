SPECIFICATION FairSpec
CONSTANTS
  Client = {c1}
  FbOpens = {TRUE, FALSE}
  NodeOpens = {TRUE, FALSE}
  SyncFails = FALSE
INVARIANTS
  NoStuckLock
  NoLostRequest
  FenceOwner
PROPERTIES
  RequestCommitted
  RequestHandled
