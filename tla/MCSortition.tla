----------------------------- MODULE MCSortition -----------------------------
(* An instance of Sortition for TLC: a fourth of the coins win, hashes have  *)
(* five bits, and 0 is what a map yields for a key it does not hold.         *)
EXTENDS Sortition

MCWallets == {0, 2, 4, 6, 8}
=============================================================================
