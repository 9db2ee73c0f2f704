----------------------------- MODULE MCVpuShare -----------------------------
(* Two processes; both decoders belong to the first, the second opens,     *)
(* closes and dies around them.  A pool of two and an app_count within 2.  *)
EXTENDS VpuShare
CONSTANTS p1, p2, d1, d2
MCProcs == {p1, p2}
MCClients == {d1, d2}
MCProcOf == [c \in MCClients |-> p1]
=============================================================================
