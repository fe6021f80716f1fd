------------------------------ MODULE SyncClaims ------------------------------
(***************************************************************************)
(* What the README and the comments say of synchronisation and the code    *)
(* does not do.  Each property is checked by a run of its own, which finds *)
(* a behaviour of the program that violates it.                            *)
(***************************************************************************)
EXTENDS SyncSystem

(* "Last-write-wins conflict resolution by updated_at" (README), "merged   *)
(* by updated_at": unless the user saves or deletes, or the device         *)
(* restarts, a passphrase on a device is only replaced by one not older.   *)
(* merge_remote compares updated_at for hosts only.                        *)
PassphrasesKeepLastWrite ==
  [][\A d \in Devices : \A v \in local[d].vault, w \in local'[d].vault :
       changes' = changes /\ faults' = faults /\ w.id = v.id
         => w.updated_at >= v.updated_at]_vars
=============================================================================
