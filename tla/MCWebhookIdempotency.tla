------------------------ MODULE MCWebhookIdempotency ------------------------
(* Instances of WebhookIdempotency for TLC.  See README.md for the runs. *)
EXTENDS WebhookIdempotency, TLC

DeliverySymmetry == Permutations(Deliveries)
=============================================================================
