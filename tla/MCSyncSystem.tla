----------------------------- MODULE MCSyncSystem -----------------------------
(* SyncSystem on small sets of devices, users and slots.                   *)
EXTENDS SyncSystem, TLC

Symmetry == Permutations(Devices) \cup Permutations(Users)
=============================================================================
