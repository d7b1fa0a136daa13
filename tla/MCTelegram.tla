------------------------------ MODULE MCTelegram ------------------------------
(* Two processes; either may run the sync and either may log in.           *)
EXTENDS TelegramAccount, TLC

CONSTANTS w1, w2

Symmetry == Permutations({w1, w2})

(* Nothing is claimed once attempts have crossed.                          *)
NotCrossed == interrupted # "again"
==============================================================================
