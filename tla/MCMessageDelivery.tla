------------------------- MODULE MCMessageDelivery -------------------------
(* Small instances of MessageDelivery: see delivery.cfg, with two messages, *)
(* and delivery_liveness.cfg, with a message and a done signal.             *)
EXTENDS MessageDelivery
=============================================================================
