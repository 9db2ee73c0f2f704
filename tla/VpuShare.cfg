SPECIFICATION FairSpec
CONSTANTS
  p1 = p1
  p2 = p2
  d1 = d1
  d2 = d2
  None = None
  Procs <- MCProcs
  Clients <- MCClients
  ProcOf <- MCProcOf
  NInst = 2
  MaxApps = 2
  Overlap = FALSE
INVARIANTS PoolExact PendingHeld MarkGuardsPicture FreshAfterCrash
PROPERTIES Undisturbed SpinForever SeekRefused CallsShorten CallsEnd
