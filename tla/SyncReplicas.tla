----------------------------- MODULE SyncReplicas -----------------------------
(***************************************************************************)
(* What synchronisation promises about hosts: a set of replicas, one per   *)
(* device and one per account on the server, that hold versions written by *)
(* users and exchange them.  A replica holds nothing that was not written, *)
(* an exchange never makes a replica's host older, and only a deletion or  *)
(* a restart makes a host disappear from a replica.                        *)
(***************************************************************************)
EXTENDS SyncData

CONSTANT Devices

VARIABLES
  written,   \* the versions that users saved
  device,    \* [Devices -> set of versions]
  file,      \* [Devices -> set of versions]: what a device restarts with
  server     \* [Users -> set of versions]

vars == <<written, device, file, server>>

Init ==
  /\ written = {}
  /\ device = [d \in Devices |-> {}]
  /\ file = [d \in Devices |-> {}]
  /\ server = [u \in Users |-> {}]

(* A device puts what it holds in its file, or fails to: then the file is  *)
(* the old one, or lost.                                                   *)
Save(d) ==
  \E f \in {device'[d], file[d], {}} : file' = [file EXCEPT ![d] = f]

(* A user saves a version that is new under the sun, over any other.       *)
Write(d, h) ==
  /\ h \notin written
  /\ written' = written \cup {h}
  /\ device' = [device EXCEPT ![d] = Upsert(@, h)]
  /\ Save(d)
  /\ UNCHANGED server

(* A written version reaches the server and takes the place of one that is *)
(* not newer.                                                              *)
Publish(u, h) ==
  /\ h \in written
  /\ \A r \in server[u] : r.id = h.id => r.updated_at <= h.updated_at
  /\ server' = [server EXCEPT ![u] = Upsert(@, h)]
  /\ UNCHANGED <<written, device, file>>

(* A device takes written versions that are new to it or strictly newer.   *)
Adopt(d, versions) ==
  /\ versions \subseteq written /\ UniqueIds(versions)
  /\ \A h \in device[d], v \in versions :
       h.id = v.id => h.updated_at < v.updated_at
  /\ device' = [device EXCEPT ![d] =
                  {h \in @ : h.id \notin IdsOf(versions)} \cup versions]
  /\ Save(d)
  /\ UNCHANGED <<written, server>>

DeviceForgets(d, id) ==
  /\ device' = [device EXCEPT ![d] = Remove(@, id)]
  /\ Save(d)
  /\ UNCHANGED <<written, server>>

ServerForgets(u, id) ==
  /\ server' = [server EXCEPT ![u] = Remove(@, id)]
  /\ UNCHANGED <<written, device, file>>

Restart(d) ==
  /\ device' = [device EXCEPT ![d] = file[d]]
  /\ UNCHANGED <<written, file, server>>

DeviceStep(d) ==
  \/ \E versions \in SUBSET written : Adopt(d, versions)
  \/ \E id \in Ids : DeviceForgets(d, id)
  \/ Restart(d)

ServerStep(u) ==
  \/ \E h \in written : Publish(u, h)
  \/ \E id \in Ids : ServerForgets(u, id)

Next ==
  \/ written' # written /\ \E d \in Devices, h \in HostConfig : Write(d, h)
  \/ <<device, file>>' # <<device, file>> /\ \E d \in Devices : DeviceStep(d)
  \/ server' # server /\ \E u \in Users : ServerStep(u)

Spec == Init /\ [][Next]_vars
=============================================================================
