-------------------------- MODULE MCOutboundQueue --------------------------
(* Small instances of OutboundQueue.  Each sender is in a domain of its own; *)
(* the empty return path has the empty domain.                               *)
EXTENDS OutboundQueue

CONSTANTS alice, null, b1, c1, c2

MCDomainOf == [path \in ReturnPaths |-> path]
============================================================================
