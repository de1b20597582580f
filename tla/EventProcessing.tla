-------------------------- MODULE EventProcessing --------------------------
(***************************************************************************)
(* What the idempotency table promises of one provider event that may be   *)
(* delivered many times: one delivery handles it, and another one may      *)
(* handle it again only after a handling failed.  How a delivery finds out *)
(* is left to WebhookIdempotency, which implements this specification.     *)
(***************************************************************************)
CONSTANT Deliveries    \* the times the provider delivers the event

VARIABLES
    claimed,    \* deliveries that were let through to the handler
    failed,     \* those whose handling failed
    applied     \* those whose handler ran to its end

vars == <<claimed, failed, applied>>

Init == claimed = {} /\ failed = {} /\ applied = {}

Claim(d) ==
    /\ d \notin claimed
    /\ claimed = {} \/ failed # {}
    /\ claimed' = claimed \cup {d}
    /\ UNCHANGED <<failed, applied>>

Apply(d) ==
    /\ d \in claimed \ (applied \cup failed)
    /\ applied' = applied \cup {d}
    /\ UNCHANGED <<claimed, failed>>

Fail(d) ==
    /\ d \in claimed \ failed
    /\ failed' = failed \cup {d}
    /\ UNCHANGED <<claimed, applied>>

Next == \E d \in Deliveries : Claim(d) \/ Apply(d) \/ Fail(d)

Spec == Init /\ [][Next]_vars
=============================================================================
