--------------------------- MODULE MCWebhookIntake ---------------------------
(***************************************************************************)
(* Small instances of WebhookIntake for TLC; requests are interchangeable, *)
(* and so are the deliveries that ask for a job.                           *)
(***************************************************************************)
EXTENDS WebhookIntake, TLC

Symmetry ==
    Permutations(Requests) \cup Permutations(Deliveries \ Irrelevant)
=============================================================================
