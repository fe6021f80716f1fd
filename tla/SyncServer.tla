------------------------------ MODULE SyncServer ------------------------------
(***************************************************************************)
(* The server: accounts, and one table of hosts and one of vault entries   *)
(* keyed by (user_id, id).  Every handler takes the one database mutex, so *)
(* a handler is one step.  The token of a request decides whose rows it    *)
(* may touch; rows refer to an account that exists (FOREIGN KEY).          *)
(***************************************************************************)
EXTENDS SyncData

VARIABLES
  userTable,      \* registered users
  hostTable,      \* [Users -> set of sealed hosts]
  vaultTable,     \* [Users -> set of sealed vault entries]
  removedHosts,   \* history: ids DELETE /hosts was served for
  removedVault    \* history: ids DELETE /vault was served for

serverVars == <<userTable, hostTable, vaultTable, removedHosts, removedVault>>

ServerInit ==
  /\ userTable = {}
  /\ hostTable = [u \in Users |-> {}]
  /\ vaultTable = [u \in Users |-> {}]
  /\ removedHosts = {}
  /\ removedVault = {}

ServerTypeOK ==
  /\ userTable \subseteq Users
  /\ hostTable \in [Users -> SUBSET SealedHost]
  /\ vaultTable \in [Users -> SUBSET VaultEntry]
  /\ removedHosts \subseteq Ids
  /\ removedVault \subseteq Ids

-----------------------------------------------------------------------------
(* POST /register: the UNIQUE user name decides between two attempts.      *)
CreateUser(u) ==
  /\ userTable' = userTable \cup {u}
  /\ UNCHANGED <<hostTable, vaultTable, removedHosts, removedVault>>

(* PUT /hosts.  A stale write is answered 200 with ok: false.              *)
UpsertHost(u, row) ==
  /\ u \in userTable
  /\ hostTable' = [hostTable EXCEPT ![u] = PutNewer(@, row)]
  /\ UNCHANGED <<userTable, vaultTable, removedHosts, removedVault>>

(* Mutant: the vault table is keyed by id alone, so an id already stored   *)
(* under another account is updated there.                                 *)
UpsertAnyOwner(u, row) ==
  /\ u \in userTable
  /\ \E o \in Users :
       /\ \/ row.id \in IdsOf(vaultTable[o])
          \/ /\ o = u
             /\ \A x \in Users : row.id \notin IdsOf(vaultTable[x])
       /\ vaultTable' = [vaultTable EXCEPT ![o] = PutNewer(@, row)]
  /\ UNCHANGED <<userTable, hostTable, removedHosts, removedVault>>

(* PUT /vault.                                                             *)
UpsertVaultEntry(u, row) ==
  /\ u \in userTable
  /\ vaultTable' = [vaultTable EXCEPT ![u] = PutNewer(@, row)]
  /\ UNCHANGED <<userTable, hostTable, removedHosts, removedVault>>

(* DELETE /hosts/:id leaves no tombstone; deleting nothing is a success.   *)
DeleteHostRow(u, id) ==
  /\ hostTable' = [hostTable EXCEPT ![u] = Remove(@, id)]
  /\ removedHosts' = removedHosts \cup {id}
  /\ UNCHANGED <<userTable, vaultTable, removedVault>>

(* DELETE /vault/:id.                                                      *)
DeleteVaultEntry(u, id) ==
  /\ vaultTable' = [vaultTable EXCEPT ![u] = Remove(@, id)]
  /\ removedVault' = removedVault \cup {id}
  /\ UNCHANGED <<userTable, hostTable, removedHosts>>

-----------------------------------------------------------------------------
(* Requests as they travel.                                                *)
Request ==
       [op: {"register"}, user: Users]
  \cup [op: {"putHost"}, user: Users, row: SealedHost]
  \cup [op: {"putVault"}, user: Users, row: VaultEntry]
  \cup [op: {"deleteHost"}, user: Users, id: Ids]
  \cup [op: {"deleteVault"}, user: Users, id: Ids]

Serve(q) ==
  \/ q.op = "register" /\ CreateUser(q.user)
  \/ q.op = "putHost" /\ UpsertHost(q.user, q.row)
  \/ q.op = "putVault" /\ UpsertVaultEntry(q.user, q.row)
  \/ q.op = "deleteHost" /\ DeleteHostRow(q.user, q.id)
  \/ q.op = "deleteVault" /\ DeleteVaultEntry(q.user, q.id)
=============================================================================
