---------------------------- MODULE MCWriterLease ----------------------------
(* Three processes, each of which opens the session once. *)
EXTENDS WriterLease
CONSTANTS l1, l2, l3, p1, p2, p3
MCProcOf == [l \in Leases |-> CASE l = l1 -> p1 [] l = l2 -> p2 [] OTHER -> p3]
=============================================================================
