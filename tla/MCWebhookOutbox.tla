---------------------------- MODULE MCWebhookOutbox ----------------------------
(* Small instances of WebhookOutbox for TLC. *)
EXTENDS WebhookOutbox

CONSTANTS w1, w2, d1, d2

================================================================================
