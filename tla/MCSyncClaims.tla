----------------------------- MODULE MCSyncClaims -----------------------------
(* SyncClaims on small sets of devices, users and slots.                   *)
EXTENDS SyncClaims, TLC

Symmetry == Permutations(Devices) \cup Permutations(Users)
=============================================================================
