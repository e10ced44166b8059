--------------------------- MODULE MCWebhookRetry ---------------------------
(* Model-checking instance of WebhookRetry.  Its run checks a liveness     *)
(* property too, so no symmetry is declared.                               *)
EXTENDS WebhookRetry, TLC
=============================================================================
