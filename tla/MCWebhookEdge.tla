--------------------------- MODULE MCWebhookEdge ---------------------------
(* Small instances of WebhookEdge. *)
EXTENDS WebhookEdge

CONSTANTS p1, p2

=============================================================================
