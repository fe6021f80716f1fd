----------------------------- MODULE MCAccounts -----------------------------
(* Accounts with a few names, passwords and devices.                       *)
EXTENDS Accounts, TLC

Symmetry ==
  Permutations(Names) \cup Permutations(Passwords) \cup Permutations(Devices)
=============================================================================
