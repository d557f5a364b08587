--------------------------- MODULE MCSubscriptions ---------------------------
(* Two threads and the webhook, two subscriptions at the provider.         *)
EXTENDS Subscriptions, TLC

Symmetry == Permutations(Workers)
=============================================================================
