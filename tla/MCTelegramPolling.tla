------------------------- MODULE MCTelegramPolling -------------------------
(* Instances of TelegramPolling for TLC. *)
EXTENDS TelegramPolling, TLC

Replicas2 == Permutations(Replicas)
=============================================================================
