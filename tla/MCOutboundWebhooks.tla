------------------------- MODULE MCOutboundWebhooks -------------------------
(* Instances of OutboundWebhooks for TLC.  See README.md for the runs. *)
EXTENDS OutboundWebhooks, TLC

CONSTANTS d1, d2, e1, e2

\* Each delivery has an endpoint of its own.
MCEndpointOf == [d \in Deliveries |-> IF d = d1 THEN e1 ELSE e2]

RunSymmetry == Permutations(Runs)
=============================================================================
