---------------------------- MODULE SyncRowProofs ----------------------------
(***************************************************************************)
(* What happens to the hosts on their way: a sync brings back what it      *)
(* pushed, the server keeps the newest of each row, every stored row       *)
(* opens, hosts only travel as they were saved, and the whole system       *)
(* implements SyncReplicas.  The invariants follow the hosts through every *)
(* copy: on a device, in a file, in a sync, in a late request and on the   *)
(* server.                                                                 *)
(***************************************************************************)
EXTENDS SyncSystemProofs

-----------------------------------------------------------------------------
(* What a step does to each part of the state.                             *)

(* A row is inserted by a push or by a late request.                       *)
Pushes == \E d \in Devices : \E t \in syncs[d] : \E h \in t.todoHosts : PushHost(d, t, h)
LatePut == \E q \in late : LateServed(q) /\ q.op = "putHost" /\ UpsertHost(q.user, q.row)
Deletes == \E u \in Users, id \in Ids : DeleteHostRow(u, id)

LEMMA HostTableNext ==
  ASSUME TypeOK, [Next]_vars
  PROVE  \/ UNCHANGED <<hostTable, removedHosts>>
         \/ (Pushes \/ LatePut \/ Deletes) /\ UNCHANGED <<local, disk, written>>
<1> USE DEF serverVars, uiVars, taskVars, countVars
<1>1. ASSUME NEW d \in Devices, SignInStep(d) \/ UserStep(d)
      PROVE  UNCHANGED <<hostTable, removedHosts>>
  BY <1>1 DEF SignInStep, UserStep, RegisterServed, LoginServed, SignInFails, OnSignedIn,
     OnSignInFailed, CreateUser, ClickSignIn, ClickSync, ClickLogout, ClickSearch,
     ClickNewHost, ClickEdit, ClickDelete, SaveHost, SavePreferences, Restart
<1>2. ASSUME NEW d \in Devices, SyncStep(d)
      PROVE  \/ UNCHANGED <<hostTable, removedHosts>>
             \/ Pushes /\ UNCHANGED <<local, disk, written>>
  <2>1. PICK t \in syncs[d] :
          \/ \E v \in t.todoVault : PushVault(d, t, v)
          \/ \E h \in t.todoHosts : PushHost(d, t, h)
          \/ PullHosts(d, t) \/ PullVault(d, t) \/ SyncFails(d, t)
          \/ OnPulled(d, t) \/ OnSyncFailed(d, t)
    BY <1>2 DEF SyncStep
  <2>2. CASE \E v \in t.todoVault : PushVault(d, t, v)
    BY <2>2 DEF PushVault, UpsertVaultEntry
  <2>3. CASE \E h \in t.todoHosts : PushHost(d, t, h)
    BY <2>3 DEF PushHost, Pushes
  <2>4. CASE PullHosts(d, t) \/ PullVault(d, t) \/ SyncFails(d, t)
             \/ OnPulled(d, t) \/ OnSyncFailed(d, t)
    BY <2>4 DEF PullHosts, PullVault, SyncFails, OnPulled, OnSyncFailed
  <2> QED BY <2>1, <2>2, <2>3, <2>4
<1>3. ASSUME NEW d \in Devices, DeletionStep(d)
      PROVE  \/ UNCHANGED <<hostTable, removedHosts>>
             \/ Deletes /\ UNCHANGED <<local, disk, written>>
  <2>1. PICK t \in deletions[d] :
          \/ DeleteHostServed(d, t) \/ DeleteVaultServed(d, t)
          \/ DeletionFails(d, t) \/ OnDeleted(d, t)
    BY <1>3 DEF DeletionStep
  <2>2. t.user \in Users /\ t.id \in Ids
    BY DEF TypeOK, Deletion
  <2>3. CASE DeleteHostServed(d, t)
    BY <2>2, <2>3 DEF DeleteHostServed, Deletes
  <2>4. CASE DeleteVaultServed(d, t) \/ DeletionFails(d, t) \/ OnDeleted(d, t)
    BY <2>4 DEF DeleteVaultServed, DeleteVaultEntry, DeletionFails, OnDeleted
  <2> QED BY <2>1, <2>3, <2>4
<1>4. ASSUME NEW q \in late, LateServed(q)
      PROVE  \/ UNCHANGED <<hostTable, removedHosts>>
             \/ (LatePut \/ Deletes) /\ UNCHANGED <<local, disk, written>>
  <2>1. q \in Request
    BY DEF TypeOK
  <2>2. q.user \in Users /\ (q.op \in {"deleteHost", "deleteVault"} => q.id \in Ids)
    BY <2>1, RequestKinds
  <2>3. Serve(q) /\ UNCHANGED <<local, disk, written>>
    BY <1>4 DEF LateServed
  <2>4. CASE q.op = "putHost" /\ UpsertHost(q.user, q.row)
    BY <1>4, <2>3, <2>4 DEF LatePut
  <2>5. CASE q.op = "deleteHost" /\ DeleteHostRow(q.user, q.id)
    BY <2>2, <2>3, <2>5 DEF Deletes
  <2>6. CASE \/ q.op = "register" /\ CreateUser(q.user)
             \/ q.op = "putVault" /\ UpsertVaultEntry(q.user, q.row)
             \/ q.op = "deleteVault" /\ DeleteVaultEntry(q.user, q.id)
    BY <2>6 DEF CreateUser, UpsertVaultEntry, DeleteVaultEntry
  <2> QED BY <2>3, <2>4, <2>5, <2>6 DEF Serve
<1>5. CASE UNCHANGED vars
  BY <1>5 DEF vars
<1> QED BY <1>1, <1>2, <1>3, <1>4, <1>5 DEF Next

(* The same for the rows of the vault.                                     *)
VaultPushes == \E d \in Devices : \E t \in syncs[d] : \E v \in t.todoVault : PushVault(d, t, v)
LateVaultPut == \E q \in late : q.op = "putVault" /\ UpsertVaultEntry(q.user, q.row)
VaultDeletes == \E u \in Users, id \in Ids : DeleteVaultEntry(u, id)

LEMMA VaultTableNext ==
  ASSUME TypeOK, [Next]_vars
  PROVE  UNCHANGED vaultTable \/ VaultPushes \/ LateVaultPut \/ VaultDeletes
<1> USE DEF serverVars, uiVars, taskVars, countVars
<1>1. ASSUME NEW d \in Devices, SignInStep(d) \/ UserStep(d)
      PROVE  UNCHANGED vaultTable
  BY <1>1 DEF SignInStep, UserStep, RegisterServed, LoginServed, SignInFails, OnSignedIn,
     OnSignInFailed, CreateUser, ClickSignIn, ClickSync, ClickLogout, ClickSearch,
     ClickNewHost, ClickEdit, ClickDelete, SaveHost, SavePreferences, Restart
<1>2. ASSUME NEW d \in Devices, SyncStep(d)
      PROVE  UNCHANGED vaultTable \/ VaultPushes
  BY <1>2 DEF SyncStep, VaultPushes, PushHost, UpsertHost, PullHosts, PullVault,
     SyncFails, OnPulled, OnSyncFailed
<1>3. ASSUME NEW d \in Devices, DeletionStep(d)
      PROVE  UNCHANGED vaultTable \/ VaultDeletes
  <2>1. PICK t \in deletions[d] :
          \/ DeleteHostServed(d, t) \/ DeleteVaultServed(d, t)
          \/ DeletionFails(d, t) \/ OnDeleted(d, t)
    BY <1>3 DEF DeletionStep
  <2>2. t.user \in Users /\ t.vault_id \subseteq Ids
    BY DEF TypeOK, Deletion, Option
  <2>3. CASE DeleteVaultServed(d, t)
    BY <2>2, <2>3 DEF DeleteVaultServed, VaultDeletes
  <2>4. CASE DeleteHostServed(d, t) \/ DeletionFails(d, t) \/ OnDeleted(d, t)
    BY <2>4 DEF DeleteHostServed, DeleteHostRow, DeletionFails, OnDeleted
  <2> QED BY <2>1, <2>3, <2>4
<1>4. ASSUME NEW q \in late, LateServed(q)
      PROVE  UNCHANGED vaultTable \/ LateVaultPut \/ VaultDeletes
  <2>1. q \in Request
    BY DEF TypeOK
  <2>2. q.user \in Users /\ (q.op \in {"deleteHost", "deleteVault"} => q.id \in Ids)
    BY <2>1, RequestKinds
  <2> QED BY <1>4, <2>2 DEF LateServed, Serve, CreateUser, UpsertHost, DeleteHostRow,
             LateVaultPut, VaultDeletes
<1>5. CASE UNCHANGED vars
  BY <1>5 DEF vars
<1> QED BY <1>1, <1>2, <1>3, <1>4, <1>5 DEF Next

(* A late row is one that a sync was sending when its request failed.      *)
LateHost(d, q) ==
  \E t \in syncs[d] : \E h \in t.todoHosts :
    q = [op |-> "putHost", user |-> t.user, row |-> SealHost(t.user, h)]
LateVault(d, q) ==
  \E t \in syncs[d] : \E v \in t.todoVault :
    q = [op |-> "putVault", user |-> t.user, row |-> SealVault(t.user, v)]

LEMMA LateNext ==
  ASSUME TypeOK, [Next]_vars, NEW q \in late'
  PROVE  \/ q \in late \/ q.op \in {"register", "deleteHost", "deleteVault"}
         \/ \E d \in Devices : LateHost(d, q) \/ LateVault(d, q)
<1> USE DEF serverVars, uiVars, taskVars, countVars
<1>1. ASSUME NEW d \in Devices, SignInStep(d)
      PROVE  q \in late \/ q.op = "register"
  BY <1>1 DEF SignInStep, RegisterServed, LoginServed, SignInFails, OnSignedIn, OnSignInFailed
<1>2. ASSUME NEW d \in Devices, UserStep(d)
      PROVE  q \in late
  BY <1>2 DEF UserStep, ClickSignIn, ClickSync, ClickLogout, ClickSearch, ClickNewHost,
     ClickEdit, ClickDelete, SaveHost, SavePreferences, Restart
<1>3. ASSUME NEW d \in Devices, SyncStep(d)
      PROVE  q \in late \/ LateHost(d, q) \/ LateVault(d, q)
  BY <1>3 DEF SyncStep, PushVault, PushHost, PullHosts, PullVault, SyncFails, OnPulled,
     OnSyncFailed, LateHost, LateVault
<1>4. ASSUME NEW d \in Devices, DeletionStep(d)
      PROVE  q \in late \/ q.op \in {"deleteHost", "deleteVault"}
  BY <1>4 DEF DeletionStep, DeleteHostServed, DeleteVaultServed, DeletionFails, OnDeleted
<1>5. ASSUME NEW r \in late, LateServed(r)
      PROVE  q \in late
  BY <1>5 DEF LateServed
<1>6. CASE UNCHANGED vars
  BY <1>6 DEF vars
<1> QED BY <1>1, <1>2, <1>3, <1>4, <1>5, <1>6 DEF Next

(* A sync task is an old one, a new one, or an old one a step further.     *)
Stepped(d, t, new) ==
  \/ \E v \in t.todoVault : PushVault(d, t, v) /\ new = [t EXCEPT !.todoVault = @ \ {v}]
  \/ \E h \in t.todoHosts : PushHost(d, t, h) /\ new = [t EXCEPT !.todoHosts = @ \ {h}]
  \/ /\ PullHosts(d, t)
     /\ new = [t EXCEPT !.pc = "pullVault", !.rows = hostTable[t.user]]
  \/ /\ PullVault(d, t) /\ AllOpen(t, vaultTable[t.user])
     /\ new = Pulled(t, vaultTable[t.user])
  \/ new = [t EXCEPT !.pc = "err", !.rows = {}]

LEMMA SyncsNext ==
  ASSUME TypeOK, [Next]_vars, NEW d \in Devices, NEW new \in syncs'[d]
  PROVE  \/ new \in syncs[d]
         \/ \E n \in Slots, u \in Users : new = NewSync(n, u, local[d])
         \/ \E t \in syncs[d] : Stepped(d, t, new)
<1> USE DEF serverVars, uiVars, taskVars, countVars
<1>0. syncs \in [Devices -> SUBSET SyncTask]
  BY DEF TypeOK
<1>1. ASSUME \A e \in Devices : syncs'[e] \subseteq syncs[e]
      PROVE  new \in syncs[d]
  BY <1>1
<1>2. ASSUME NEW e \in Devices, NEW u \in Users, SpawnSync(e, u)
      PROVE  new \in syncs[d] \/ \E n \in Slots : new = NewSync(n, u, local[d])
  <2>1. PICK n \in Slots : syncs' = [syncs EXCEPT ![e] = @ \cup {NewSync(n, u, local[e])}]
    BY <1>2 DEF SpawnSync
  <2> QED BY <1>0, <2>1
<1>3. ASSUME NEW e \in Devices, NEW t \in syncs[e], NEW x, NextSync(e, t, x)
      PROVE  new \in syncs[d] \/ (e = d /\ new = x)
  BY <1>0, <1>3 DEF NextSync, Replace
<1>4. ASSUME NEW e \in Devices, SignInStep(e)
      PROVE  new \in syncs[d] \/ \E n \in Slots, u \in Users : new = NewSync(n, u, local[d])
  <2>1. PICK t \in signIns[e] :
          \/ RegisterServed(e, t) \/ LoginServed(e, t) \/ SignInFails(e, t)
          \/ OnSignedIn(e, t) \/ OnSignInFailed(e, t)
    BY <1>4 DEF SignInStep
  <2>2. t.user \in Users
    BY DEF TypeOK, SignIn
  <2>3. CASE OnSignedIn(e, t)
    <3>1. SpawnSync(e, t.user)
      BY <2>3 DEF OnSignedIn
    <3> QED BY <1>2, <2>2, <3>1
  <2>4. CASE \/ RegisterServed(e, t) \/ LoginServed(e, t) \/ SignInFails(e, t)
             \/ OnSignInFailed(e, t)
    <3>1. UNCHANGED syncs
      BY <2>4 DEF RegisterServed, LoginServed, SignInFails, OnSignInFailed
    <3> QED BY <3>1
  <2> QED BY <2>1, <2>3, <2>4
<1>5. ASSUME NEW e \in Devices, UserStep(e)
      PROVE  new \in syncs[d] \/ \E n \in Slots, u \in Users : new = NewSync(n, u, local[d])
  <2>1. CASE ClickSync(e)
    <3>1. PICK u \in account[e] : SpawnSync(e, u)
      BY <2>1 DEF ClickSync
    <3>2. u \in Users
      BY DEF TypeOK, Option
    <3> QED BY <1>2, <3>1, <3>2
  <2>2. CASE Restart(e)
    BY <1>0, <1>1, <2>2 DEF Restart
  <2>3. CASE ~ClickSync(e) /\ ~Restart(e)
    <3>1. UNCHANGED syncs
      BY <1>5, <2>3 DEF UserStep, ClickSignIn, ClickLogout, ClickSearch, ClickNewHost,
         ClickEdit, ClickDelete, SaveHost, SavePreferences
    <3> QED BY <3>1
  <2> QED BY <2>1, <2>2, <2>3
<1>6. ASSUME NEW e \in Devices, SyncStep(e)
      PROVE  new \in syncs[d] \/ \E t \in syncs[d] : Stepped(d, t, new)
  <2>1. PICK t \in syncs[e] :
          \/ \E v \in t.todoVault : PushVault(e, t, v)
          \/ \E h \in t.todoHosts : PushHost(e, t, h)
          \/ PullHosts(e, t) \/ PullVault(e, t) \/ SyncFails(e, t)
          \/ OnPulled(e, t) \/ OnSyncFailed(e, t)
    BY <1>6 DEF SyncStep
  <2>2. CASE \E v \in t.todoVault : PushVault(e, t, v)
    <3>1. PICK v \in t.todoVault : PushVault(e, t, v)
      BY <2>2
    <3>2. NextSync(e, t, [t EXCEPT !.todoVault = @ \ {v}])
      BY <3>1 DEF PushVault
    <3> QED BY <1>3, <3>1, <3>2 DEF Stepped
  <2>3. CASE \E h \in t.todoHosts : PushHost(e, t, h)
    <3>1. PICK h \in t.todoHosts : PushHost(e, t, h)
      BY <2>3
    <3>2. NextSync(e, t, [t EXCEPT !.todoHosts = @ \ {h}])
      BY <3>1 DEF PushHost
    <3> QED BY <1>3, <3>1, <3>2 DEF Stepped
  <2>4. CASE PullHosts(e, t)
    <3>1. NextSync(e, t, [t EXCEPT !.pc = "pullVault", !.rows = hostTable[t.user]])
      BY <2>4 DEF PullHosts
    <3> QED BY <1>3, <2>4, <3>1 DEF Stepped
  <2>5. CASE PullVault(e, t) /\ AllOpen(t, vaultTable[t.user])
    <3>1. NextSync(e, t, Pulled(t, vaultTable[t.user]))
      BY <2>5 DEF PullVault
    <3> QED BY <1>3, <2>5, <3>1 DEF Stepped
  <2>6. CASE (PullVault(e, t) /\ ~AllOpen(t, vaultTable[t.user])) \/ SyncFails(e, t)
    <3>1. NextSync(e, t, [t EXCEPT !.pc = "err", !.rows = {}])
      BY <2>6 DEF PullVault, SyncFails
    <3> QED BY <1>3, <3>1 DEF Stepped
  <2>7. CASE OnPulled(e, t) \/ OnSyncFailed(e, t)
    <3>1. syncs' = [syncs EXCEPT ![e] = @ \ {t}]
      BY <2>7 DEF OnPulled, OnSyncFailed
    <3> QED BY <1>0, <1>1, <3>1
  <2> QED BY <2>1, <2>2, <2>3, <2>4, <2>5, <2>6, <2>7
<1>7. ASSUME NEW e \in Devices, DeletionStep(e)
      PROVE  UNCHANGED syncs
  BY <1>7 DEF DeletionStep, DeleteHostServed, DeleteVaultServed, DeletionFails, OnDeleted
<1>8. ASSUME NEW q \in late, LateServed(q)
      PROVE  UNCHANGED syncs
  BY <1>8 DEF LateServed
<1>9. CASE UNCHANGED vars
  BY <1>9 DEF vars
<1> QED BY <1>4, <1>5, <1>6, <1>7, <1>8, <1>9 DEF Next
-----------------------------------------------------------------------------
(* The round trip.  While a sync pushes, every host it has sent is on the  *)
(* server, not older, or was deleted there, and so it stays; the rows it   *)
(* then reads hold them all.                                               *)

AtLeast(h, rows) ==
  \/ h.id \in removedHosts
  \/ \E r \in rows : r.id = h.id /\ r.updated_at >= h.updated_at

TaskTrip(t) ==
  /\ t.todoHosts \subseteq t.hosts
  /\ t.pc = "push" => \A h \in t.hosts \ t.todoHosts : AtLeast(h, hostTable[t.user])
  /\ t.pc = "pullVault" => \A h \in t.hosts : AtLeast(h, t.rows)
  /\ t.pc = "ok" => \A h \in t.hosts : AtLeast(h, t.gotHosts)

TripInv == \A d \in Devices : \A t \in syncs[d] : TaskTrip(t)

(* What an upsert leaves of a table is not older than what was there.      *)
LEMMA PutNewerAges ==
  ASSUME NEW rows, NEW row, NEW r \in rows,
         r.updated_at \in Int, row.updated_at \in Int
  PROVE  \E s \in PutNewer(rows, row) : s.id = r.id /\ s.updated_at >= r.updated_at
<1>1. r.updated_at \in Int /\ row.updated_at \in Int
  OBVIOUS
<1>2. CASE \E s \in rows : s.id = row.id /\ s.updated_at > row.updated_at
  BY <1>1, <1>2 DEF PutNewer
<1>3. CASE ~ \E s \in rows : s.id = row.id /\ s.updated_at > row.updated_at
  <2>1. PutNewer(rows, row) = Upsert(rows, row)
    BY <1>3 DEF PutNewer
  <2>2. CASE r.id = row.id
    <3>1. row.updated_at >= r.updated_at
      BY <1>1, <1>3, <2>2
    <3> QED BY <2>1, <2>2, <3>1 DEF Upsert
  <2>3. CASE r.id # row.id
    BY <1>1, <2>1, <2>3 DEF Upsert
  <2> QED BY <2>2, <2>3
<1> QED BY <1>2, <1>3

(* Afterwards the table holds the row or a newer one.                      *)
LEMMA PutNewerHolds ==
  ASSUME NEW rows \in SUBSET SealedHost, NEW row \in SealedHost
  PROVE  \E s \in PutNewer(rows, row) : s.id = row.id /\ s.updated_at >= row.updated_at
<1>1. row.updated_at \in Int /\ \A s \in rows : s.updated_at \in Int
  BY DEF SealedHost, Times
<1> QED BY <1>1 DEF PutNewer, Upsert

LEMMA SealKeeps ==
  ASSUME NEW u \in Users, NEW h \in HostConfig
  PROVE  SealHost(u, h).id = h.id /\ SealHost(u, h).updated_at = h.updated_at
BY DEF SealHost, HostConfig

LEMMA OpenKeeps ==
  ASSUME NEW r \in SealedHost
  PROVE  OpenHost(r).id = r.id /\ OpenHost(r).updated_at = r.updated_at
BY DEF OpenHost, SealedHost

LEMMA AtLeastStays ==
  ASSUME TypeOK, [Next]_vars, NEW u \in Users, NEW h \in HostConfig,
         AtLeast(h, hostTable[u])
  PROVE  AtLeast(h, hostTable[u])'
<1> USE DEF AtLeast
<1>1. hostTable \in [Users -> SUBSET SealedHost] /\ h.updated_at \in Int
  BY DEF TypeOK, ServerTypeOK, HostConfig, Times
<1>2. \A r \in hostTable[u] : r.updated_at \in Int
  BY <1>1 DEF SealedHost, Times
<1>3. CASE UNCHANGED <<hostTable, removedHosts>>
  BY <1>3
<1>4. ASSUME NEW o \in Users, NEW row \in SealedHost, UpsertHost(o, row)
      PROVE  AtLeast(h, hostTable[u])'
  <2>1. hostTable' = [hostTable EXCEPT ![o] = PutNewer(hostTable[o], row)]
        /\ UNCHANGED removedHosts
    BY <1>4 DEF UpsertHost
  <2>2. CASE o # u
    BY <1>1, <2>1, <2>2
  <2>3. CASE o = u
    <3>1. CASE h.id \in removedHosts
      BY <2>1, <3>1
    <3>2. CASE h.id \notin removedHosts
      <4>1. PICK r \in hostTable[u] : r.id = h.id /\ r.updated_at >= h.updated_at
        BY <3>2
      <4>2. r \in SealedHost /\ hostTable[u] \in SUBSET SealedHost
        BY <1>1
      <4>3. PICK s \in PutNewer(hostTable[u], row) :
              s.id = r.id /\ s.updated_at >= r.updated_at
        <5>1. r.updated_at \in Int /\ row.updated_at \in Int
          BY <4>2 DEF SealedHost, Times
        <5> QED BY <4>1, <5>1, PutNewerAges
      <4>4. s \in SealedHost
        BY <4>2, <4>3, UpsertType
      <4>5. s.updated_at \in Int
        BY <4>4 DEF SealedHost, Times
      <4>6. s.updated_at >= h.updated_at
        BY <1>1, <1>2, <4>1, <4>3, <4>5
      <4>7. hostTable'[u] = PutNewer(hostTable[u], row)
        BY <1>1, <2>1, <2>3
      <4> QED BY <4>1, <4>3, <4>6, <4>7
    <3> QED BY <3>1, <3>2
  <2> QED BY <2>2, <2>3
<1>5. CASE Pushes
  <2>1. PICK d \in Devices : \E t \in syncs[d] : \E g \in t.todoHosts : PushHost(d, t, g)
    BY <1>5 DEF Pushes
  <2>2. PICK t \in syncs[d] : \E g \in t.todoHosts : PushHost(d, t, g)
    BY <2>1
  <2>3. PICK g \in t.todoHosts : PushHost(d, t, g)
    BY <2>2
  <2>4. t.user \in Users /\ g \in HostConfig
    BY DEF TypeOK, SyncTask
  <2>5. SealHost(t.user, g) \in SealedHost
    BY <2>4, SealType
  <2> QED BY <1>4, <2>3, <2>4, <2>5 DEF PushHost
<1>6. CASE LatePut
  <2>1. PICK q \in late : q.op = "putHost" /\ UpsertHost(q.user, q.row)
    BY <1>6 DEF LatePut
  <2>2. q \in Request
    BY DEF TypeOK
  <2> QED BY <1>4, <2>1, <2>2, RequestKinds
<1>7. CASE Deletes
  <2>1. PICK o \in Users, id \in Ids : DeleteHostRow(o, id)
    BY <1>7 DEF Deletes
  <2>2. /\ hostTable' = [hostTable EXCEPT ![o] = Remove(hostTable[o], id)]
        /\ removedHosts' = removedHosts \cup {id}
    BY <2>1 DEF DeleteHostRow
  <2>3. \A r \in hostTable[u] : r.id # id => r \in hostTable'[u]
    BY <1>1, <2>2 DEF Remove
  <2> QED BY <2>2, <2>3
<1> QED BY <1>3, <1>5, <1>6, <1>7, HostTableNext

LEMMA TaskTripStays ==
  ASSUME TypeOK, [Next]_vars, NEW t \in SyncTask, TaskTrip(t)
  PROVE  TaskTrip(t)'
<1>1. t.user \in Users /\ t.hosts \subseteq HostConfig
  BY DEF SyncTask
<1>2. t.pc = "push" => \A h \in t.hosts \ t.todoHosts : AtLeast(h, hostTable[t.user])'
  BY <1>1, AtLeastStays DEF TaskTrip
<1>3. removedHosts \subseteq removedHosts'
  BY HostTableNext DEF Pushes, PushHost, LatePut, UpsertHost, Deletes, DeleteHostRow
<1> QED BY <1>2, <1>3 DEF TaskTrip, AtLeast

LEMMA TripInit == Init => TripInv
BY DEF Init, TripInv

LEMMA TripNext ==
  ASSUME TypeOK, TypeOK', TripInv, [Next]_vars
  PROVE  TripInv'
<1> SUFFICES ASSUME NEW d \in Devices, NEW new \in syncs'[d]
             PROVE  TaskTrip(new)'
  BY DEF TripInv
<1>0. new \in SyncTask /\ \A t \in syncs[d] : t \in SyncTask
  BY DEF TypeOK
<1>1. CASE new \in syncs[d]
  BY <1>0, <1>1, TaskTripStays DEF TripInv
<1>2. ASSUME NEW n \in Slots, NEW u \in Users, new = NewSync(n, u, local[d])
      PROVE  TaskTrip(new)'
  BY <1>2 DEF NewSync, TaskTrip
<1>3. ASSUME NEW t \in syncs[d], Stepped(d, t, new)
      PROVE  TaskTrip(new)'
  <2>0. /\ t \in SyncTask /\ t.user \in Users
        /\ t.todoHosts \subseteq HostConfig /\ t.hosts \subseteq HostConfig
        /\ t.rows \subseteq SealedHost
    BY <1>0 DEF SyncTask
  <2>1. TaskTrip(t) /\ TaskTrip(t)'
    BY <1>0, TaskTripStays DEF TripInv
  <2>2. ASSUME NEW v \in t.todoVault, PushVault(d, t, v), new = [t EXCEPT !.todoVault = @ \ {v}]
        PROVE  TaskTrip(new)'
    <3>1. /\ new.pc = t.pc /\ new.hosts = t.hosts /\ new.todoHosts = t.todoHosts
          /\ new.user = t.user /\ new.rows = t.rows /\ new.gotHosts = t.gotHosts
      BY <2>0, <2>2 DEF SyncTask
    <3> QED BY <2>1, <3>1 DEF TaskTrip
  <2>3. ASSUME NEW h \in t.todoHosts, PushHost(d, t, h), new = [t EXCEPT !.todoHosts = @ \ {h}]
        PROVE  TaskTrip(new)'
    <3>1. /\ new.pc = "push" /\ new.hosts = t.hosts /\ new.todoHosts = t.todoHosts \ {h}
          /\ new.user = t.user
      BY <2>0, <2>3 DEF SyncTask, PushHost
    <3>2. h \in HostConfig /\ SealHost(t.user, h) \in SealedHost
      BY <2>0, SealType
    <3>3. hostTable \in [Users -> SUBSET SealedHost]
      BY DEF TypeOK, ServerTypeOK
    <3>4. hostTable'[t.user] = PutNewer(hostTable[t.user], SealHost(t.user, h))
      BY <2>0, <2>3, <3>3 DEF PushHost, UpsertHost
    <3>5. \E s \in hostTable'[t.user] :
            s.id = SealHost(t.user, h).id /\ s.updated_at >= SealHost(t.user, h).updated_at
      BY <2>0, <3>2, <3>3, <3>4, PutNewerHolds
    <3>6. AtLeast(h, hostTable[t.user])'
      BY <2>0, <3>2, <3>5, SealKeeps DEF AtLeast
    <3>7. t.pc = "push"
      BY <2>3 DEF PushHost
    <3> QED BY <2>1, <3>1, <3>6, <3>7 DEF TaskTrip
  <2>4. CASE /\ PullHosts(d, t)
             /\ new = [t EXCEPT !.pc = "pullVault", !.rows = hostTable[t.user]]
    <3>1. /\ new.pc = "pullVault" /\ new.hosts = t.hosts /\ new.todoHosts = t.todoHosts
          /\ new.rows = hostTable[t.user]
      BY <2>0, <2>4 DEF SyncTask
    <3>2. t.pc = "push" /\ t.todoHosts = {} /\ UNCHANGED <<hostTable, removedHosts>>
      BY <2>4 DEF PullHosts, serverVars
    <3> QED BY <2>1, <3>1, <3>2 DEF TaskTrip, AtLeast
  <2>5. CASE PullVault(d, t) /\ new = Pulled(t, vaultTable[t.user])
    <3>1. /\ new.pc = "ok" /\ new.hosts = t.hosts /\ new.todoHosts = t.todoHosts
          /\ new.gotHosts = {OpenHost(r) : r \in t.rows}
      BY <2>0, <2>5 DEF SyncTask, Pulled
    <3>2. t.pc = "pullVault" /\ UNCHANGED removedHosts
      BY <2>5 DEF PullVault, serverVars
    <3>3. \A h \in t.hosts : AtLeast(h, new.gotHosts)
      BY <2>0, <2>1, <3>1, <3>2, OpenKeeps DEF TaskTrip, AtLeast
    <3> QED BY <2>1, <3>1, <3>2, <3>3 DEF TaskTrip, AtLeast
  <2>6. CASE new = [t EXCEPT !.pc = "err", !.rows = {}]
    <3>1. new.pc = "err" /\ new.hosts = t.hosts /\ new.todoHosts = t.todoHosts
      BY <2>0, <2>6 DEF SyncTask
    <3> QED BY <2>1, <3>1 DEF TaskTrip
  <2> QED BY <1>3, <2>2, <2>3, <2>4, <2>5, <2>6 DEF Stepped
<1> QED BY <1>1, <1>2, <1>3, SyncsNext

(* A sync that succeeds brings back every host it pushed, not older, or    *)
(* the host was deleted: what other devices write between its push and its *)
(* pull replaces its rows by newer ones only.                              *)
THEOREM SyncsBringBack == Spec => []RoundTrip
<1>1. Init => TypeOK /\ KeysInv /\ TripInv
  BY TypeInit, KeysInit, TripInit
<1>2. TypeOK /\ KeysInv /\ TripInv /\ [Next]_vars => TypeOK' /\ KeysInv' /\ TripInv'
  BY TypeNext, KeysNext, TripNext DEF KeysInv
<1>3. TripInv => RoundTrip
  BY DEF TripInv, TaskTrip, AtLeast, RoundTrip
<1> QED BY <1>1, <1>2, <1>3, PTL DEF Spec

(* Every row of a table is still there, not older, or was deleted.         *)
KeptRow(r, rows, removed) ==
  r.id \in removed \/ \E s \in rows : s.id = r.id /\ s.updated_at >= r.updated_at

LEMMA VaultStays ==
  ASSUME TypeOK, [Next]_vars, NEW u \in Users, NEW r \in vaultTable[u]
  PROVE  KeptRow(r, vaultTable[u], removedVault)'
<1>1. /\ vaultTable \in [Users -> SUBSET VaultEntry] /\ r \in VaultEntry
      /\ r.updated_at \in Int
  BY DEF TypeOK, ServerTypeOK, VaultEntry, Times
<1>2. CASE UNCHANGED vaultTable
  <2>1. r \in vaultTable'[u] /\ r.updated_at >= r.updated_at
    BY <1>1, <1>2
  <2> QED BY <2>1 DEF KeptRow
<1>3. ASSUME NEW o \in Users, NEW row \in VaultEntry, UpsertVaultEntry(o, row)
      PROVE  KeptRow(r, vaultTable[u], removedVault)'
  <2>1. vaultTable' = [vaultTable EXCEPT ![o] = PutNewer(vaultTable[o], row)]
    BY <1>3 DEF UpsertVaultEntry
  <2>2. CASE o # u
    <3>1. r \in vaultTable'[u] /\ r.updated_at >= r.updated_at
      BY <1>1, <2>1, <2>2
    <3> QED BY <3>1 DEF KeptRow
  <2>3. CASE o = u
    <3>1. row.updated_at \in Int
      BY DEF VaultEntry, Times
    <3>2. \E s \in PutNewer(vaultTable[u], row) :
            s.id = r.id /\ s.updated_at >= r.updated_at
      BY <1>1, <3>1, PutNewerAges
    <3>3. vaultTable'[u] = PutNewer(vaultTable[u], row)
      BY <1>1, <2>1, <2>3
    <3> QED BY <3>2, <3>3 DEF KeptRow
  <2> QED BY <2>2, <2>3
<1>4. CASE VaultPushes
  <2>1. PICK d \in Devices : \E t \in syncs[d] : \E v \in t.todoVault : PushVault(d, t, v)
    BY <1>4 DEF VaultPushes
  <2>2. PICK t \in syncs[d] : \E v \in t.todoVault : PushVault(d, t, v)
    BY <2>1
  <2>3. PICK v \in t.todoVault : PushVault(d, t, v)
    BY <2>2
  <2>4. t.user \in Users /\ v \in LocalVaultEntry
    BY DEF TypeOK, SyncTask
  <2>5. SealVault(t.user, v) \in VaultEntry
    BY <2>4, SealType
  <2> QED BY <1>3, <2>3, <2>4, <2>5 DEF PushVault
<1>5. CASE LateVaultPut
  <2>1. PICK q \in late : q.op = "putVault" /\ UpsertVaultEntry(q.user, q.row)
    BY <1>5 DEF LateVaultPut
  <2>2. q \in Request
    BY DEF TypeOK
  <2> QED BY <1>3, <2>1, <2>2, RequestKinds
<1>6. CASE VaultDeletes
  <2>1. PICK o \in Users, id \in Ids : DeleteVaultEntry(o, id)
    BY <1>6 DEF VaultDeletes
  <2>2. /\ vaultTable' = [vaultTable EXCEPT ![o] = Remove(vaultTable[o], id)]
        /\ removedVault' = removedVault \cup {id}
    BY <2>1 DEF DeleteVaultEntry
  <2>3. r.id # id => r \in vaultTable'[u]
    BY <1>1, <2>2 DEF Remove
  <2>4. r.id = id => r.id \in removedVault'
    BY <2>2
  <2> QED BY <1>1, <2>3, <2>4 DEF KeptRow
<1> QED BY <1>2, <1>4, <1>5, <1>6, VaultTableNext

ServerKeepsNewest ==
  [][\A u \in Users :
       /\ \A r \in hostTable[u] : KeptRow(r, hostTable[u], removedHosts)'
       /\ \A r \in vaultTable[u] : KeptRow(r, vaultTable[u], removedVault)']_vars

(* Neither a sync nor a late request takes a host or a vault entry from    *)
(* the server or makes it older: it stays, gives way to one that is not    *)
(* older, or is deleted.                                                   *)
THEOREM TheServerKeepsNewest == Spec => ServerKeepsNewest
<1> DEFINE Kept ==
      \A u \in Users :
        /\ \A r \in hostTable[u] : KeptRow(r, hostTable[u], removedHosts)'
        /\ \A r \in vaultTable[u] : KeptRow(r, vaultTable[u], removedVault)'
<1>1. ASSUME TypeOK, [Next]_vars, NEW u \in Users, NEW r \in hostTable[u]
      PROVE  KeptRow(r, hostTable[u], removedHosts)'
  <2>1. r \in SealedHost
    BY <1>1 DEF TypeOK, ServerTypeOK
  <2>2. PICK h : h = OpenHost(r)
    OBVIOUS
  <2>3. h \in HostConfig /\ h.id = r.id /\ h.updated_at = r.updated_at
    BY <2>1, <2>2, OpenType, OpenKeeps
  <2>4. AtLeast(h, hostTable[u])
    <3>1. r.updated_at \in Int
      BY <2>1 DEF SealedHost, Times
    <3> QED BY <2>3, <3>1 DEF AtLeast
  <2>5. AtLeast(h, hostTable[u])'
    BY <1>1, <2>3, <2>4, AtLeastStays
  <2> QED BY <2>3, <2>5 DEF AtLeast, KeptRow
<1>2. TypeOK /\ [Next]_vars => [Kept]_vars
  BY <1>1, VaultStays
<1>3. Spec => [][Kept]_vars
  BY <1>2, TypeCorrect, PTL DEF Spec
<1> QED BY <1>3 DEF ServerKeepsNewest
-----------------------------------------------------------------------------
(* Every row opens: it was sealed for its own account, under its own id or *)
(* label, and so is every row that a late request may still bring.         *)

LateOpens ==
  \A q \in late :
    /\ q.op = "putHost" => HostOpens(q.user, q.row)
    /\ q.op = "putVault" => VaultOpens(q.user, q.row)

OpenInv == EveryRowOpens /\ LateOpens

LEMMA SealOpens ==
  ASSUME NEW u \in Users
  PROVE  /\ \A h \in HostConfig : HostOpens(u, SealHost(u, h))
         /\ \A v \in LocalVaultEntry : VaultOpens(u, SealVault(u, v))
<1>1. ASSUME NEW h \in HostConfig PROVE HostOpens(u, SealHost(u, h))
  <2> DEFINE pw == {encrypt_secret(u, p, h.id) : p \in {q \in h.password : h.auth_method = "password"}}
  <2>1. \A s \in pw : s.key = u /\ s.aad = h.id
    BY DEF encrypt_secret
  <2>2. SealHost(u, h) = [h EXCEPT !.password = pw]
    BY DEF SealHost
  <2> HIDE DEF pw
  <2>3. SealHost(u, h).password = pw /\ SealHost(u, h).id = h.id
    BY <2>2 DEF HostConfig
  <2> QED BY <2>1, <2>3 DEF HostOpens, Opens
<1>2. ASSUME NEW v \in LocalVaultEntry PROVE VaultOpens(u, SealVault(u, v))
  BY DEF VaultOpens, Opens, SealVault, encrypt_secret
<1> QED BY <1>1, <1>2

LEMMA OpenInit == Init => OpenInv
BY DEF Init, ServerInit, OpenInv, EveryRowOpens, LateOpens

LEMMA OpenNext ==
  ASSUME TypeOK, OpenInv, [Next]_vars
  PROVE  OpenInv'
<1>0. /\ hostTable \in [Users -> SUBSET SealedHost] /\ late \subseteq Request
      /\ vaultTable \in [Users -> SUBSET VaultEntry]
      /\ \A d \in Devices : \A t \in syncs[d] :
           /\ t.user \in Users
           /\ t.todoHosts \subseteq HostConfig /\ t.todoVault \subseteq LocalVaultEntry
  BY DEF TypeOK, ServerTypeOK, SyncTask
<1>1. ASSUME NEW u \in Users, NEW r \in hostTable'[u]
      PROVE  HostOpens(u, r)
  <2>1. CASE r \in hostTable[u]
    BY <2>1 DEF OpenInv, EveryRowOpens
  <2>2. CASE r \notin hostTable[u]
    <3>1. ASSUME NEW o \in Users, NEW row, UpsertHost(o, row), HostOpens(o, row)
          PROVE  HostOpens(u, r)
      <4>1. hostTable' = [hostTable EXCEPT ![o] = PutNewer(hostTable[o], row)]
        BY <3>1 DEF UpsertHost
      <4>2. \A s \in PutNewer(hostTable[o], row) : s \in hostTable[o] \/ s = row
        BY DEF PutNewer, Upsert
      <4> QED BY <1>0, <2>2, <3>1, <4>1, <4>2
    <3>2. CASE Pushes
      BY <1>0, <3>1, <3>2, SealOpens DEF Pushes, PushHost
    <3>3. CASE LatePut
      BY <1>0, <3>1, <3>3, RequestKinds DEF LatePut, OpenInv, LateOpens
    <3>4. CASE Deletes
      BY <1>0, <2>2, <3>4 DEF Deletes, DeleteHostRow, Remove
    <3>5. CASE UNCHANGED hostTable
      BY <2>2, <3>5
    <3> QED BY <3>2, <3>3, <3>4, <3>5, HostTableNext
  <2> QED BY <2>1, <2>2
<1>2. ASSUME NEW u \in Users, NEW r \in vaultTable'[u]
      PROVE  VaultOpens(u, r)
  <2>1. CASE r \in vaultTable[u]
    BY <2>1 DEF OpenInv, EveryRowOpens
  <2>2. CASE r \notin vaultTable[u]
    <3>1. ASSUME NEW o \in Users, NEW row, UpsertVaultEntry(o, row), VaultOpens(o, row)
          PROVE  VaultOpens(u, r)
      <4>1. vaultTable' = [vaultTable EXCEPT ![o] = PutNewer(vaultTable[o], row)]
        BY <3>1 DEF UpsertVaultEntry
      <4>2. \A s \in PutNewer(vaultTable[o], row) : s \in vaultTable[o] \/ s = row
        BY DEF PutNewer, Upsert
      <4> QED BY <1>0, <2>2, <3>1, <4>1, <4>2
    <3>2. CASE VaultPushes
      BY <1>0, <3>1, <3>2, SealOpens DEF VaultPushes, PushVault
    <3>3. CASE LateVaultPut
      BY <1>0, <3>1, <3>3, RequestKinds DEF LateVaultPut, OpenInv, LateOpens
    <3>4. CASE VaultDeletes
      BY <1>0, <2>2, <3>4 DEF VaultDeletes, DeleteVaultEntry, Remove
    <3>5. CASE UNCHANGED vaultTable
      BY <2>2, <3>5
    <3> QED BY <3>2, <3>3, <3>4, <3>5, VaultTableNext
  <2> QED BY <2>1, <2>2
<1>3. EveryRowOpens'
  <2>1. EveryRowOpens' <=>
          \A u \in Users : /\ \A r \in hostTable'[u] : HostOpens(u, r)
                           /\ \A v \in vaultTable'[u] : VaultOpens(u, v)
    BY DEF EveryRowOpens
  <2> QED BY <1>1, <1>2, <2>1
<1>4. ASSUME NEW q \in late'
      PROVE  /\ q.op = "putHost" => HostOpens(q.user, q.row)
             /\ q.op = "putVault" => VaultOpens(q.user, q.row)
  <2>1. CASE q \in late
    BY <2>1 DEF OpenInv, LateOpens
  <2>2. CASE \E d \in Devices : LateHost(d, q) \/ LateVault(d, q)
    BY <1>0, <2>2, SealOpens DEF LateHost, LateVault
  <2>3. CASE q.op \in {"register", "deleteHost", "deleteVault"}
    BY <2>3
  <2> QED BY <2>1, <2>2, <2>3, LateNext
<1> QED BY <1>3, <1>4 DEF OpenInv, LateOpens

(* Whatever is stored under an account, however it got there, opens with   *)
(* that account's key and the row's own associated data.                   *)
THEOREM RowsAlwaysOpen == Spec => []EveryRowOpens
<1>1. Init => TypeOK /\ KeysInv /\ OpenInv
  BY TypeInit, KeysInit, OpenInit
<1>2. TypeOK /\ KeysInv /\ OpenInv /\ [Next]_vars => TypeOK' /\ KeysInv' /\ OpenInv'
  BY TypeNext, KeysNext, OpenNext DEF KeysInv
<1>3. OpenInv => EveryRowOpens
  BY DEF OpenInv
<1> QED BY <1>1, <1>2, <1>3, PTL DEF Spec
-----------------------------------------------------------------------------
(* The buttons are disabled only while a task runs.  One device's steps    *)
(* leave the others' tasks and buttons alone.                              *)

Running(e) == signIns[e] # {} \/ syncs[e] # {} \/ deletions[e] # {}

LEMMA SpawnRuns ==
  ASSUME TypeOK, NEW d \in Devices, NEW u, SpawnSync(d, u)
  PROVE  /\ syncs'[d] # {}
         /\ \A e \in Devices \ {d} : syncs'[e] = syncs[e] /\ busy'[e] = busy[e]
BY DEF TypeOK, SpawnSync

LEMMA NextRuns ==
  ASSUME TypeOK, NEW d \in Devices, NEW t, NEW x
  PROVE  /\ NextSync(d, t, x) =>
              syncs'[d] # {} /\ \A e \in Devices \ {d} : syncs'[e] = syncs[e]
         /\ NextSignIn(d, t, x) =>
              signIns'[d] # {} /\ \A e \in Devices \ {d} : signIns'[e] = signIns[e]
         /\ NextDeletion(d, t, x) =>
              deletions'[d] # {} /\ \A e \in Devices \ {d} : deletions'[e] = deletions[e]
BY DEF TypeOK, NextSync, NextSignIn, NextDeletion, Replace

LEMMA BusySignIn ==
  ASSUME TypeOK, NEW d \in Devices, SignInStep(d), NEW e \in Devices,
         busy[e] => Running(e)
  PROVE  busy'[e] => Running(e)'
<1> USE DEF serverVars, uiVars, taskVars, countVars, Running
<1>1. PICK t \in signIns[d] :
        \/ RegisterServed(d, t) \/ LoginServed(d, t) \/ SignInFails(d, t)
        \/ OnSignedIn(d, t) \/ OnSignInFailed(d, t)
  BY DEF SignInStep
<1>2. CASE RegisterServed(d, t) \/ LoginServed(d, t) \/ SignInFails(d, t)
  <2>1. UNCHANGED <<busy, syncs, deletions>> /\ \E pc : NextSignIn(d, t, pc)
    BY <1>2 DEF RegisterServed, LoginServed, SignInFails
  <2> QED BY <2>1, NextRuns
<1>3. CASE OnSignedIn(d, t)
  <2>1. /\ SpawnSync(d, t.user) /\ UNCHANGED deletions
        /\ signIns' = [signIns EXCEPT ![d] = @ \ {t}]
    BY <1>3 DEF OnSignedIn
  <2>2. \A x \in Devices \ {d} : signIns'[x] = signIns[x]
    BY <2>1 DEF TypeOK
  <2> QED BY <2>1, <2>2, SpawnRuns
<1>4. CASE OnSignInFailed(d, t)
  <2>1. /\ busy' = [busy EXCEPT ![d] = FALSE] /\ UNCHANGED <<syncs, deletions>>
        /\ signIns' = [signIns EXCEPT ![d] = @ \ {t}]
    BY <1>4 DEF OnSignInFailed
  <2> QED BY <2>1 DEF TypeOK
<1> QED BY <1>1, <1>2, <1>3, <1>4

LEMMA BusySync ==
  ASSUME TypeOK, NEW d \in Devices, SyncStep(d), NEW e \in Devices,
         busy[e] => Running(e)
  PROVE  busy'[e] => Running(e)'
<1> USE DEF serverVars, uiVars, taskVars, countVars, Running
<1>1. PICK t \in syncs[d] :
        \/ \E v \in t.todoVault : PushVault(d, t, v)
        \/ \E h \in t.todoHosts : PushHost(d, t, h)
        \/ PullHosts(d, t) \/ PullVault(d, t) \/ SyncFails(d, t)
        \/ OnPulled(d, t) \/ OnSyncFailed(d, t)
  BY DEF SyncStep
<1>2. CASE \/ \E v \in t.todoVault : PushVault(d, t, v)
           \/ \E h \in t.todoHosts : PushHost(d, t, h)
           \/ PullHosts(d, t) \/ PullVault(d, t) \/ SyncFails(d, t)
  <2>1. UNCHANGED <<busy, signIns, deletions>> /\ \E new : NextSync(d, t, new)
    BY <1>2 DEF PushVault, PushHost, PullHosts, PullVault, SyncFails
  <2> QED BY <2>1, NextRuns
<1>3. CASE OnPulled(d, t) \/ OnSyncFailed(d, t)
  <2>1. /\ busy' = [busy EXCEPT ![d] = FALSE] /\ UNCHANGED <<signIns, deletions>>
        /\ syncs' = [syncs EXCEPT ![d] = @ \ {t}]
    BY <1>3 DEF OnPulled, OnSyncFailed
  <2> QED BY <2>1 DEF TypeOK
<1> QED BY <1>1, <1>2, <1>3

LEMMA BusyDeletion ==
  ASSUME TypeOK, NEW d \in Devices, DeletionStep(d), NEW e \in Devices,
         busy[e] => Running(e)
  PROVE  busy'[e] => Running(e)'
<1> USE DEF serverVars, uiVars, taskVars, countVars, Running
<1>1. PICK t \in deletions[d] :
        \/ DeleteHostServed(d, t) \/ DeleteVaultServed(d, t)
        \/ DeletionFails(d, t) \/ OnDeleted(d, t)
  BY DEF DeletionStep
<1>2. CASE DeleteHostServed(d, t) \/ DeleteVaultServed(d, t) \/ DeletionFails(d, t)
  <2>1. UNCHANGED <<busy, signIns, syncs>> /\ \E pc : NextDeletion(d, t, pc)
    BY <1>2 DEF DeleteHostServed, DeleteVaultServed, DeletionFails
  <2> QED BY <2>1, NextRuns
<1>3. CASE OnDeleted(d, t)
  <2>1. /\ busy' = [busy EXCEPT ![d] = FALSE] /\ UNCHANGED <<signIns, syncs>>
        /\ deletions' = [deletions EXCEPT ![d] = @ \ {t}]
    BY <1>3 DEF OnDeleted
  <2> QED BY <2>1 DEF TypeOK
<1> QED BY <1>1, <1>2, <1>3

LEMMA BusyUser ==
  ASSUME TypeOK, NEW d \in Devices, UserStep(d), NEW e \in Devices,
         busy[e] => Running(e)
  PROVE  busy'[e] => Running(e)'
<1> USE DEF serverVars, uiVars, taskVars, countVars, Running
<1>1. ASSUME NEW u \in Users, NEW op \in {"login", "register"}, ClickSignIn(d, u, op)
      PROVE  busy'[e] => Running(e)'
  <2>1. /\ busy' = [busy EXCEPT ![d] = TRUE] /\ UNCHANGED <<syncs, deletions>>
        /\ \E x : signIns' = [signIns EXCEPT ![d] = @ \cup {x}]
    BY <1>1 DEF ClickSignIn
  <2> QED BY <2>1 DEF TypeOK
<1>2. CASE ClickSync(d)
  <2>1. UNCHANGED <<signIns, deletions>> /\ \E u : SpawnSync(d, u)
    BY <1>2 DEF ClickSync
  <2> QED BY <2>1, SpawnRuns
<1>3. ASSUME NEW id \in shown[d], ClickDelete(d, id)
      PROVE  busy'[e] => Running(e)'
  <2>1. /\ busy' = [busy EXCEPT ![d] = TRUE] /\ UNCHANGED <<signIns, syncs>>
        /\ \E x : deletions' = [deletions EXCEPT ![d] = @ \cup {x}]
    BY <1>3 DEF ClickDelete
  <2> QED BY <2>1 DEF TypeOK
<1>4. CASE Restart(d)
  <2>1. /\ busy' = [busy EXCEPT ![d] = FALSE]
        /\ signIns' = [signIns EXCEPT ![d] = {}]
        /\ syncs' = [syncs EXCEPT ![d] = {}]
        /\ deletions' = [deletions EXCEPT ![d] = {}]
    BY <1>4 DEF Restart
  <2> QED BY <2>1 DEF TypeOK
<1>5. CASE \/ ClickLogout(d) \/ ClickSearch(d) \/ ClickNewHost(d)
           \/ \E id \in shown[d] : ClickEdit(d, id)
           \/ \E form \in Forms, now \in Times : SaveHost(d, form, now)
           \/ SavePreferences(d)
  <2>1. UNCHANGED <<busy, signIns, syncs, deletions>>
    BY <1>5 DEF ClickLogout, ClickSearch, ClickNewHost, ClickEdit, SaveHost, SavePreferences
  <2> QED BY <2>1
<1> QED BY <1>1, <1>2, <1>3, <1>4, <1>5 DEF UserStep

LEMMA BusyNext ==
  ASSUME TypeOK, BusyHasCause, [Next]_vars
  PROVE  BusyHasCause'
<1> SUFFICES ASSUME NEW e \in Devices
             PROVE  busy'[e] => Running(e)'
  BY DEF BusyHasCause, Running
<1>1. busy[e] => Running(e)
  BY DEF BusyHasCause, Running
<1>2. ASSUME NEW d \in Devices,
             SignInStep(d) \/ SyncStep(d) \/ DeletionStep(d) \/ UserStep(d)
      PROVE  busy'[e] => Running(e)'
  BY <1>1, <1>2, BusySignIn, BusySync, BusyDeletion, BusyUser
<1>3. ASSUME NEW q \in late, LateServed(q)
      PROVE  busy'[e] => Running(e)'
  BY <1>1, <1>3 DEF LateServed, uiVars, taskVars, Running
<1>4. CASE UNCHANGED vars
  BY <1>1, <1>4 DEF vars, uiVars, taskVars, Running
<1> QED BY <1>2, <1>3, <1>4 DEF Next

(* The buttons are disabled only while a task is still going to enable     *)
(* them, on every device and whatever the others do.                       *)
THEOREM BusyIsJustified == Spec => []BusyHasCause
<1>1. Init => TypeOK /\ KeysInv /\ BusyHasCause
  BY TypeInit, KeysInit DEF Init, BusyHasCause
<1>2. TypeOK /\ KeysInv /\ BusyHasCause /\ [Next]_vars => TypeOK' /\ KeysInv' /\ BusyHasCause'
  BY TypeNext, KeysNext, BusyNext DEF KeysInv
<1> QED BY <1>1, <1>2, PTL DEF Spec
-----------------------------------------------------------------------------
(* Hosts only travel as they were saved: every copy, opened, is a version  *)
(* that some user saved.                                                   *)

Saved == {w.host : w \in written}

(* Only a password host has a password to lose on the way; a version is    *)
(* named by the change that saved it, so a later one differs.              *)
SavedWell ==
  \A h \in Saved : (h.auth_method = "key" => h.password = {}) /\ h.name <= changes

DeviceOrigin ==
  \A d \in Devices :
    local[d].hosts \subseteq Saved /\ \A st \in disk[d] : st.hosts \subseteq Saved

TaskOrigin(t) ==
  /\ t.hosts \subseteq Saved /\ t.todoHosts \subseteq Saved /\ t.gotHosts \subseteq Saved
  /\ \A r \in t.rows : OpenHost(r) \in Saved

SyncOrigin == \A d \in Devices : \A t \in syncs[d] : TaskOrigin(t)

ServerOrigin == \A u \in Users : \A r \in hostTable[u] : OpenHost(r) \in Saved

LateOrigin == \A q \in late : q.op = "putHost" => OpenHost(q.row) \in Saved

OriginInv == SavedWell /\ DeviceOrigin /\ SyncOrigin /\ ServerOrigin /\ LateOrigin

(* The steps that touch a device's hosts or its file.                      *)
DeviceSteps(d) ==
  \/ \E form \in Forms, now \in Times : SaveHost(d, form, now)
  \/ \E id \in shown[d] : ClickDelete(d, id)
  \/ SavePreferences(d) \/ Restart(d)
  \/ \E t \in signIns[d] : OnSignedIn(d, t)
  \/ \E t \in syncs[d] : OnPulled(d, t)

LEMMA DeviceNext ==
  ASSUME TypeOK, [Next]_vars
  PROVE  \/ UNCHANGED <<local, disk, written, changes>>
         \/ \E d \in Devices : DeviceSteps(d) /\ UNCHANGED hostTable
<1> USE DEF serverVars, uiVars, taskVars, countVars
<1>1. ASSUME NEW d \in Devices, SignInStep(d)
      PROVE  \/ UNCHANGED <<local, disk, written, changes>>
             \/ DeviceSteps(d) /\ UNCHANGED hostTable
  BY <1>1 DEF SignInStep, RegisterServed, LoginServed, SignInFails, OnSignedIn,
     OnSignInFailed, DeviceSteps
<1>2. ASSUME NEW d \in Devices, SyncStep(d)
      PROVE  \/ UNCHANGED <<local, disk, written, changes>>
             \/ DeviceSteps(d) /\ UNCHANGED hostTable
  BY <1>2 DEF SyncStep, PushVault, PushHost, PullHosts, PullVault, SyncFails, OnPulled,
     OnSyncFailed, DeviceSteps
<1>3. ASSUME NEW d \in Devices, DeletionStep(d)
      PROVE  UNCHANGED <<local, disk, written, changes>>
  BY <1>3 DEF DeletionStep, DeleteHostServed, DeleteVaultServed, DeletionFails, OnDeleted
<1>4. ASSUME NEW d \in Devices, UserStep(d)
      PROVE  \/ UNCHANGED <<local, disk, written, changes>>
             \/ DeviceSteps(d) /\ UNCHANGED hostTable
  <2>1. CASE DeviceSteps(d)
    <3>1. UNCHANGED hostTable
      BY <2>1 DEF DeviceSteps, SaveHost, ClickDelete, SavePreferences, Restart, OnSignedIn, OnPulled
    <3> QED BY <2>1, <3>1
  <2>2. CASE ~DeviceSteps(d)
    BY <1>4, <2>2 DEF UserStep, DeviceSteps, ClickSignIn, ClickSync, ClickLogout,
       ClickSearch, ClickNewHost, ClickEdit
  <2> QED BY <2>1, <2>2
<1>5. ASSUME NEW q \in late, LateServed(q)
      PROVE  UNCHANGED <<local, disk, written, changes>>
  BY <1>5 DEF LateServed
<1>6. CASE UNCHANGED vars
  BY <1>6 DEF vars
<1> QED BY <1>1, <1>2, <1>3, <1>4, <1>5, <1>6 DEF Next

(* What a save adds to the saved versions.                                 *)
LEMMA SaveHostSaves ==
  ASSUME NEW d \in Devices, NEW form, NEW now, SaveHost(d, form, now)
  PROVE  Saved' = Saved \cup {SavedHost(d, form, now)}
<1> PICK host : host = SavedHost(d, form, now)
  OBVIOUS
<1> DEFINE new == {[user |-> u, host |-> host] : u \in account[d]}
<1>1. account[d] # {} /\ written' = written \cup new
  BY DEF SaveHost
<1>2. new # {} /\ \A w \in new : w.host = host
  <2>1. PICK u : u \in account[d]
    BY <1>1
  <2>2. [user |-> u, host |-> host] \in new
    BY <2>1
  <2>3. \A w \in new : w.host = host
    OBVIOUS
  <2> QED BY <2>2, <2>3
<1> HIDE DEF new
<1>3. {w.host : w \in new} = {host}
  BY <1>2
<1> QED BY <1>1, <1>3 DEF Saved

LEMMA SavedGrows ==
  ASSUME TypeOK, [Next]_vars
  PROVE  Saved \subseteq Saved'
<1>1. CASE UNCHANGED <<local, disk, written, changes>>
  BY <1>1 DEF Saved
<1>2. ASSUME NEW d \in Devices, DeviceSteps(d)
      PROVE  Saved \subseteq Saved'
  <2>1. CASE \E form \in Forms, now \in Times : SaveHost(d, form, now)
    BY <2>1, SaveHostSaves
  <2>2. CASE ~ \E form \in Forms, now \in Times : SaveHost(d, form, now)
    <3>1. UNCHANGED written
      BY <1>2, <2>2 DEF DeviceSteps, ClickDelete, SavePreferences, Restart, OnSignedIn, OnPulled
    <3> QED BY <3>1 DEF Saved
  <2> QED BY <2>1, <2>2
<1> QED BY <1>1, <1>2, DeviceNext

(* Encryption and decryption give back what was saved.                     *)
LEMMA OpenSeal ==
  ASSUME NEW u \in Users, NEW h \in HostConfig, h.auth_method = "key" => h.password = {}
  PROVE  OpenHost(SealHost(u, h)) = h
<1> DEFINE pw == {encrypt_secret(u, p, h.id) : p \in {q \in h.password : h.auth_method = "password"}}
<1> PICK row : row = SealHost(u, h)
  OBVIOUS
<1>1. row = [h EXCEPT !.password = pw]
  BY DEF SealHost
<1>2. {s.text : s \in {q \in pw : h.auth_method = "password"}} = h.password
  <2>1. CASE h.auth_method = "password"
    <3>1. pw = {encrypt_secret(u, p, h.id) : p \in h.password}
      BY <2>1
    <3>2. \A p : encrypt_secret(u, p, h.id).text = p
      BY DEF encrypt_secret
    <3>3. {s.text : s \in pw} = h.password
      BY <3>1, <3>2
    <3> QED BY <2>1, <3>3
  <2>2. CASE h.auth_method # "password"
    <3>1. h.auth_method = "key"
      BY <2>2 DEF HostConfig, AuthMethod
    <3> QED BY <2>2, <3>1
  <2> QED BY <2>1, <2>2
<1> HIDE DEF pw
<1>3. row.password = pw /\ row.auth_method = h.auth_method
  BY <1>1 DEF HostConfig
<1>4. OpenHost(row) = [row EXCEPT !.password = h.password]
  BY <1>2, <1>3 DEF OpenHost
<1>5. OpenHost(row) = h
  BY <1>1, <1>4 DEF HostConfig
<1> QED BY <1>5

LEMMA OriginInit == Init => OriginInv
BY DEF Init, ServerInit, DefaultState, OriginInv, Saved, SavedWell, DeviceOrigin, SyncOrigin,
       ServerOrigin, LateOrigin

LEMMA TypedHosts ==
  ASSUME TypeOK
  PROVE  /\ \A d \in Devices : local[d] \in LocalState /\ local[d].hosts \in SUBSET HostConfig
         /\ \A d \in Devices : \A t \in syncs[d] :
              /\ t \in SyncTask /\ t.user \in Users
              /\ t.hosts \subseteq HostConfig /\ t.todoHosts \subseteq HostConfig
              /\ t.rows \subseteq SealedHost /\ t.gotHosts \in SUBSET HostConfig
BY DEF TypeOK, LocalState, SyncTask

(* What a device holds after a step, and what it saved, was saved before.  *)
LEMMA DeviceOriginNext ==
  ASSUME TypeOK, OriginInv, [Next]_vars
  PROVE  DeviceOrigin'
<1>0. DeviceOrigin /\ Saved \subseteq Saved'
  BY SavedGrows DEF OriginInv
<1>1. ASSUME NEW d \in Devices, NEW st, Save(d, st), st.hosts \subseteq Saved',
             local' = [local EXCEPT ![d] = st] \/ UNCHANGED local
      PROVE  DeviceOrigin'
  <2>1. \A e \in Devices : local'[e] = st \/ local'[e] = local[e]
    BY <1>1 DEF TypeOK
  <2>2. \A e \in Devices : \A x \in disk'[e] : x = st \/ x \in disk[e]
    BY <1>1 DEF TypeOK, Save
  <2> QED BY <1>0, <1>1, <2>1, <2>2 DEF DeviceOrigin
<1>2. CASE UNCHANGED <<local, disk, written, changes>>
  BY <1>0, <1>2 DEF DeviceOrigin
<1>3. ASSUME NEW d \in Devices, DeviceSteps(d)
      PROVE  DeviceOrigin'
  <2>0. local[d] \in LocalState /\ local[d].hosts \subseteq Saved
    BY <1>0, TypedHosts DEF DeviceOrigin
  <2>1. ASSUME NEW form \in Forms, NEW now \in Times, SaveHost(d, form, now)
        PROVE  DeviceOrigin'
    <3> DEFINE host == SavedHost(d, form, now)
               vault == MergeVault(local[d].vault, SavedEntries(d, form, now))
               st == upsert_host([local[d] EXCEPT !.vault = vault], host)
    <3>1. st.hosts = Upsert(local[d].hosts, host)
      BY <2>0 DEF upsert_host, LocalState
    <3>2. local' = [local EXCEPT ![d] = st] /\ Save(d, st)
      BY <2>1 DEF SaveHost
    <3>3. Saved' = Saved \cup {host}
      BY <2>1, SaveHostSaves
    <3> HIDE DEF st, host
    <3>4. st.hosts \subseteq Saved'
      BY <2>0, <3>1, <3>3 DEF Upsert
    <3> QED BY <1>1, <3>2, <3>4
  <2>2. ASSUME NEW id \in shown[d], ClickDelete(d, id)
        PROVE  DeviceOrigin'
    <3> PICK st : st = delete_host(local[d], id)
      OBVIOUS
    <3>1. st.hosts \subseteq Saved'
      BY <1>0, <2>0 DEF delete_host, Remove
    <3> QED BY <1>1, <2>2, <3>1 DEF ClickDelete
  <2>3. CASE SavePreferences(d) \/ \E t \in signIns[d] : OnSignedIn(d, t)
    <3>1. Save(d, local[d]) /\ UNCHANGED local
      BY <2>3 DEF SavePreferences, OnSignedIn
    <3> QED BY <1>0, <1>1, <2>0, <3>1
  <2>4. CASE Restart(d)
    <3>1. Load(disk[d]).hosts \subseteq Saved
      BY <1>0 DEF Load, DefaultState, DeviceOrigin
    <3>2. local' = [local EXCEPT ![d] = Load(disk[d])] /\ UNCHANGED disk
      BY <2>4 DEF Restart
    <3>3. \A e \in Devices : local'[e] = Load(disk[d]) \/ local'[e] = local[e]
      BY <3>2 DEF TypeOK
    <3> QED BY <1>0, <3>1, <3>2, <3>3 DEF DeviceOrigin
  <2>5. ASSUME NEW t \in syncs[d], OnPulled(d, t)
        PROVE  DeviceOrigin'
    <3> PICK st : st = merge_remote(local[d], t.gotHosts, t.gotVault)
      OBVIOUS
    <3>1. t.gotHosts \subseteq Saved
      BY DEF OriginInv, SyncOrigin, TaskOrigin
    <3>2. st.hosts \subseteq Saved'
      BY <1>0, <2>0, <3>1 DEF merge_remote, MergeHosts
    <3> QED BY <1>1, <2>5, <3>2 DEF OnPulled
  <2> QED BY <1>3, <2>1, <2>2, <2>3, <2>4, <2>5 DEF DeviceSteps
<1> QED BY <1>2, <1>3, DeviceNext

LEMMA SavedWellNext ==
  ASSUME TypeOK, OriginInv, [Next]_vars
  PROVE  SavedWell'
<1>0. SavedWell /\ changes \in Int /\ Saved \subseteq HostConfig
  BY DEF OriginInv, TypeOK, Saved
<1>1. \A h \in Saved : h.name \in Int
  BY <1>0 DEF HostConfig, Stamps
<1>2. ASSUME Saved' = Saved, changes' \in {changes, changes + 1}
      PROVE  SavedWell'
  BY <1>0, <1>1, <1>2 DEF SavedWell
<1>3. CASE UNCHANGED <<local, disk, written, changes>>
  BY <1>2, <1>3 DEF Saved
<1>4. ASSUME NEW d \in Devices, DeviceSteps(d)
      PROVE  SavedWell'
  <2>1. ASSUME NEW form \in Forms, NEW now \in Times, SaveHost(d, form, now)
        PROVE  SavedWell'
    <3> PICK host : host = SavedHost(d, form, now)
      OBVIOUS
    <3>1. Saved' = Saved \cup {host} /\ changes' = changes + 1
      BY <2>1, SaveHostSaves DEF SaveHost, Change
    <3>2. host.name = changes + 1 /\ (host.auth_method = "key" => host.password = {})
      BY DEF SavedHost, NewStamp
    <3>3. \A h \in Saved : h.name <= changes + 1
      BY <1>0, <1>1 DEF SavedWell
    <3> QED BY <1>0, <3>1, <3>2, <3>3 DEF SavedWell
  <2>2. CASE ~ \E form \in Forms, now \in Times : SaveHost(d, form, now)
    <3>1. UNCHANGED written /\ changes' \in {changes, changes + 1}
      BY <1>4, <2>2 DEF DeviceSteps, ClickDelete, SavePreferences, Restart, OnSignedIn,
         OnPulled, Change, countVars
    <3> QED BY <1>2, <3>1 DEF Saved
  <2> QED BY <2>1, <2>2
<1> QED BY <1>3, <1>4, DeviceNext

LEMMA SyncOriginNext ==
  ASSUME TypeOK, OriginInv, [Next]_vars
  PROVE  SyncOrigin'
<1> SUFFICES ASSUME NEW d \in Devices, NEW new \in syncs'[d]
             PROVE  TaskOrigin(new)'
  BY DEF SyncOrigin
<1>0. Saved \subseteq Saved' /\ SyncOrigin /\ DeviceOrigin /\ ServerOrigin
  BY SavedGrows DEF OriginInv
<1>1. SUFFICES TaskOrigin(new)
  BY <1>0 DEF TaskOrigin
<1>2. CASE new \in syncs[d]
  BY <1>0, <1>2 DEF SyncOrigin
<1>3. ASSUME NEW n \in Slots, NEW u \in Users, new = NewSync(n, u, local[d])
      PROVE  TaskOrigin(new)
  BY <1>0, <1>3 DEF NewSync, TaskOrigin, DeviceOrigin
<1>4. ASSUME NEW t \in syncs[d], Stepped(d, t, new)
      PROVE  TaskOrigin(new)
  <2>0. t \in SyncTask /\ t.user \in Users /\ TaskOrigin(t)
    BY <1>0, TypedHosts DEF SyncOrigin
  <2>1. ASSUME NEW v \in t.todoVault, new = [t EXCEPT !.todoVault = @ \ {v}]
        PROVE  TaskOrigin(new)
    <3>1. /\ new.hosts = t.hosts /\ new.todoHosts = t.todoHosts
          /\ new.gotHosts = t.gotHosts /\ new.rows = t.rows
      BY <2>0, <2>1 DEF SyncTask
    <3> QED BY <2>0, <3>1 DEF TaskOrigin
  <2>2. ASSUME NEW h \in t.todoHosts, new = [t EXCEPT !.todoHosts = @ \ {h}]
        PROVE  TaskOrigin(new)
    <3>1. /\ new.hosts = t.hosts /\ new.todoHosts \subseteq t.todoHosts
          /\ new.gotHosts = t.gotHosts /\ new.rows = t.rows
      BY <2>0, <2>2 DEF SyncTask
    <3> QED BY <2>0, <3>1 DEF TaskOrigin
  <2>3. CASE new = [t EXCEPT !.pc = "pullVault", !.rows = hostTable[t.user]]
    <3>1. /\ new.hosts = t.hosts /\ new.todoHosts = t.todoHosts
          /\ new.gotHosts = t.gotHosts /\ new.rows = hostTable[t.user]
      BY <2>0, <2>3 DEF SyncTask
    <3> QED BY <1>0, <2>0, <3>1 DEF TaskOrigin, ServerOrigin
  <2>4. CASE new = Pulled(t, vaultTable[t.user])
    <3>1. /\ new.hosts = t.hosts /\ new.todoHosts = t.todoHosts
          /\ new.gotHosts = {OpenHost(r) : r \in t.rows} /\ new.rows = {}
      BY <2>0, <2>4 DEF SyncTask, Pulled
    <3> QED BY <2>0, <3>1 DEF TaskOrigin
  <2>5. CASE new = [t EXCEPT !.pc = "err", !.rows = {}]
    <3>1. /\ new.hosts = t.hosts /\ new.todoHosts = t.todoHosts
          /\ new.gotHosts = t.gotHosts /\ new.rows = {}
      BY <2>0, <2>5 DEF SyncTask
    <3> QED BY <2>0, <3>1 DEF TaskOrigin
  <2> QED BY <1>4, <2>1, <2>2, <2>3, <2>4, <2>5 DEF Stepped
<1> QED BY <1>2, <1>3, <1>4, SyncsNext

LEMMA ServerOriginNext ==
  ASSUME TypeOK, OriginInv, [Next]_vars
  PROVE  ServerOrigin'
<1> SUFFICES ASSUME NEW u \in Users, NEW r \in hostTable'[u]
             PROVE  OpenHost(r) \in Saved'
  BY DEF ServerOrigin
<1>0. Saved \subseteq Saved' /\ hostTable \in [Users -> SUBSET SealedHost]
  BY SavedGrows DEF TypeOK, ServerTypeOK
<1>1. CASE r \in hostTable[u]
  BY <1>0, <1>1 DEF OriginInv, ServerOrigin
<1>2. CASE r \notin hostTable[u]
  <2>1. ASSUME NEW o \in Users, NEW row, UpsertHost(o, row), OpenHost(row) \in Saved
        PROVE  OpenHost(r) \in Saved'
    <3>1. hostTable' = [hostTable EXCEPT ![o] = PutNewer(hostTable[o], row)]
      BY <2>1 DEF UpsertHost
    <3>2. \A s \in PutNewer(hostTable[o], row) : s \in hostTable[o] \/ s = row
      BY DEF PutNewer, Upsert
    <3> QED BY <1>0, <1>2, <2>1, <3>1, <3>2
  <2>2. CASE Pushes
    <3>1. \A d \in Devices : \A t \in syncs[d] : \A h \in t.todoHosts :
            t.user \in Users /\ OpenHost(SealHost(t.user, h)) \in Saved
      BY TypedHosts, OpenSeal DEF OriginInv, SyncOrigin, TaskOrigin, SavedWell
    <3> QED BY <2>1, <2>2, <3>1 DEF Pushes, PushHost
  <2>3. CASE LatePut
    <3>1. \A q \in late : q.user \in Users
      BY RequestKinds DEF TypeOK
    <3> QED BY <2>1, <2>3, <3>1 DEF LatePut, OriginInv, LateOrigin
  <2>4. CASE Deletes
    BY <1>0, <1>2, <2>4 DEF Deletes, DeleteHostRow, Remove
  <2>5. CASE UNCHANGED hostTable
    BY <1>2, <2>5
  <2> QED BY <2>2, <2>3, <2>4, <2>5, HostTableNext
<1> QED BY <1>1, <1>2

LEMMA LateOriginNext ==
  ASSUME TypeOK, OriginInv, [Next]_vars
  PROVE  LateOrigin'
<1> SUFFICES ASSUME NEW q \in late', q.op = "putHost"
             PROVE  OpenHost(q.row) \in Saved
  BY SavedGrows DEF LateOrigin
<1>1. CASE q \in late
  BY <1>1 DEF OriginInv, LateOrigin
<1>2. ASSUME NEW d \in Devices, LateHost(d, q)
      PROVE  OpenHost(q.row) \in Saved
  <2>1. \A t \in syncs[d] : \A h \in t.todoHosts : OpenHost(SealHost(t.user, h)) \in Saved
    BY TypedHosts, OpenSeal DEF OriginInv, SyncOrigin, TaskOrigin, SavedWell
  <2> QED BY <1>2, <2>1 DEF LateHost
<1>3. ASSUME NEW d \in Devices, LateVault(d, q)
      PROVE  FALSE
  BY <1>3 DEF LateVault
<1> QED BY <1>1, <1>2, <1>3, LateNext

LEMMA OriginNext ==
  ASSUME TypeOK, OriginInv, [Next]_vars
  PROVE  OriginInv'
BY DeviceOriginNext, SavedWellNext, SyncOriginNext, ServerOriginNext, LateOriginNext
   DEF OriginInv
-----------------------------------------------------------------------------
(* The refinement.  A save is a Write, a row stored on the server a        *)
(* Publish, a merged sync an Adopt, a deletion a DeviceForgets or a        *)
(* ServerForgets, a restart a Restart; every other step changes nothing    *)
(* that SyncReplicas sees, but perhaps a file.                             *)

DeviceHosts == [d \in Devices |-> local[d].hosts]
FileHosts == [d \in Devices |-> UNION {st.hosts : st \in disk[d]}]
ServerHosts == [u \in Users |-> {OpenHost(r) : r \in hostTable[u]}]

LEMMA Stutters ==
  ASSUME UNCHANGED <<local, disk, written, hostTable>>
  PROVE  UNCHANGED Replicas!vars
BY DEF Replicas!vars

(* What Save does to the file is what SyncReplicas allows.                 *)
LEMMA SaveRefines ==
  ASSUME TypeOK, NEW d \in Devices, NEW st, Save(d, st), local'[d] = st
  PROVE  Replicas!Save(d)
<1> DEFINE F == [e \in Devices |-> UNION {x.hosts : x \in disk[e]}]
           G == [e \in Devices |-> UNION {x.hosts : x \in disk'[e]}]
<1>0. disk \in [Devices -> Option(LocalState)]
  BY DEF TypeOK
<1>1. \E f \in {st.hosts, F[d], {}} : G = [F EXCEPT ![d] = f]
  <2>1. CASE disk' = [disk EXCEPT ![d] = {st}]
    <3>1. disk'[d] = {st} /\ \A e \in Devices \ {d} : disk'[e] = disk[e]
      BY <1>0, <2>1
    <3>2. UNION {x.hosts : x \in {st}} = st.hosts
      OBVIOUS
    <3>3. G[d] = st.hosts /\ \A e \in Devices \ {d} : G[e] = F[e]
      BY <3>1, <3>2
    <3>4. G = [F EXCEPT ![d] = st.hosts]
      BY <3>3
    <3> QED BY <3>4
  <2>2. CASE UNCHANGED disk
    <3>1. G = [F EXCEPT ![d] = F[d]]
      BY <2>2
    <3> QED BY <3>1
  <2>3. CASE disk' = [disk EXCEPT ![d] = {}]
    <3>1. disk'[d] = {} /\ \A e \in Devices \ {d} : disk'[e] = disk[e]
      BY <1>0, <2>3
    <3>2. G[d] = {} /\ \A e \in Devices \ {d} : G[e] = F[e]
      BY <3>1
    <3>3. G = [F EXCEPT ![d] = {}]
      BY <3>2
    <3> QED BY <3>3
  <2> QED BY <2>1, <2>2, <2>3 DEF Save
<1> QED BY <1>1 DEF Replicas!Save

LEMMA SameData ==
  /\ Replicas!HostConfig = HostConfig /\ Replicas!Ids = Ids
  /\ \A rows, r : Replicas!Upsert(rows, r) = Upsert(rows, r)
  /\ \A rows, id : Replicas!Remove(rows, id) = Remove(rows, id)
  /\ \A rows : Replicas!IdsOf(rows) = IdsOf(rows)
  /\ \A rows : Replicas!UniqueIds(rows) <=> UniqueIds(rows)
BY DEF Replicas!HostConfig, HostConfig, Replicas!Ids, Ids, Replicas!Stamps, Stamps,
       Replicas!AuthMethod, AuthMethod, Replicas!Option, Option, Replicas!Times, Times,
       Replicas!Upsert, Upsert, Replicas!Remove, Remove, Replicas!IdsOf, IdsOf,
       Replicas!UniqueIds, UniqueIds

(* A device's hosts after a step that sets its state.                      *)
LEMMA DeviceHostsNext ==
  ASSUME TypeOK, NEW d \in Devices, NEW st, local' = [local EXCEPT ![d] = st]
  PROVE  DeviceHosts' = [DeviceHosts EXCEPT ![d] = st.hosts] /\ local'[d] = st
<1>1. local'[d] = st /\ \A e \in Devices \ {d} : local'[e] = local[e]
  BY DEF TypeOK
<1>2. DeviceHosts' = [e \in Devices |-> local'[e].hosts]
  BY DEF DeviceHosts
<1>3. \A e \in Devices : DeviceHosts[e] = local[e].hosts
  BY DEF DeviceHosts
<1>4. DeviceHosts' = [e \in Devices |-> IF e = d THEN st.hosts ELSE DeviceHosts[e]]
  BY <1>1, <1>2, <1>3
<1>5. DeviceHosts' = [DeviceHosts EXCEPT ![d] = st.hosts]
  BY <1>4 DEF DeviceHosts
<1> QED BY <1>1, <1>5

LEMMA WriteRefines ==
  ASSUME TypeOK, SavedWell, NEW d \in Devices, NEW form \in Forms, NEW now \in Times,
         SaveHost(d, form, now), UNCHANGED hostTable,
         NEW host, host = SavedHost(d, form, now)
  PROVE  Replicas!Write(d, host)
<1> DEFINE vault == MergeVault(local[d].vault, SavedEntries(d, form, now))
<1> PICK st : st = upsert_host([local[d] EXCEPT !.vault = vault], host)
  OBVIOUS
<1>1. st.hosts = Upsert(local[d].hosts, host)
  BY TypedHosts DEF upsert_host, LocalState
<1>2. local' = [local EXCEPT ![d] = st] /\ Save(d, st)
  BY DEF SaveHost
<1>3. Saved' = Saved \cup {host}
  BY SaveHostSaves
<1>4. host \notin Saved
  <2>1. host.name = changes + 1
    BY DEF SavedHost, NewStamp
  <2>2. changes \in Int
    BY DEF TypeOK
  <2> QED BY <2>1, <2>2 DEF SavedWell
<1>5. Replicas!Save(d)
  BY <1>2, DeviceHostsNext, SaveRefines
<1>6. DeviceHosts' = [DeviceHosts EXCEPT ![d] = Replicas!Upsert(DeviceHosts[d], host)]
  <2>1. DeviceHosts[d] = local[d].hosts
    BY DEF DeviceHosts
  <2>2. DeviceHosts' = [DeviceHosts EXCEPT ![d] = st.hosts]
    BY <1>2, DeviceHostsNext
  <2> QED BY <1>1, <2>1, <2>2, SameData
<1>7. UNCHANGED ServerHosts
  BY DEF ServerHosts
<1> QED BY <1>3, <1>4, <1>5, <1>6, <1>7
        DEF Replicas!Write, Saved, DeviceHosts, ServerHosts

LEMMA ForgetsRefines ==
  ASSUME TypeOK, NEW d \in Devices, NEW id, ClickDelete(d, id), UNCHANGED hostTable
  PROVE  Replicas!DeviceForgets(d, id)
<1> PICK st : st = delete_host(local[d], id)
  OBVIOUS
<1>1. local' = [local EXCEPT ![d] = st] /\ Save(d, st) /\ UNCHANGED written
  BY DEF ClickDelete
<1>2. st.hosts = Remove(local[d].hosts, id)
  BY DEF delete_host
<1>3. Replicas!Save(d)
  BY <1>1, DeviceHostsNext, SaveRefines
<1>4. DeviceHosts' = [DeviceHosts EXCEPT ![d] = Replicas!Remove(DeviceHosts[d], id)]
  BY <1>1, <1>2, DeviceHostsNext, SameData DEF DeviceHosts
<1>5. UNCHANGED <<Saved, ServerHosts>>
  BY <1>1 DEF Saved, ServerHosts
<1> QED BY <1>3, <1>4, <1>5 DEF Replicas!DeviceForgets, Saved, DeviceHosts, ServerHosts

LEMMA RestartRefines ==
  ASSUME TypeOK, NEW d \in Devices, Restart(d), UNCHANGED hostTable
  PROVE  Replicas!Restart(d)
<1>1. local' = [local EXCEPT ![d] = Load(disk[d])] /\ UNCHANGED <<disk, written>>
  BY DEF Restart
<1>2. Load(disk[d]).hosts = FileHosts[d]
  <2>1. CASE disk[d] = {}
    BY <2>1 DEF Load, DefaultState, FileHosts
  <2>2. CASE disk[d] # {}
    <3>1. disk[d] \in Option(LocalState)
      BY DEF TypeOK
    <3>2. PICK st : disk[d] = {st}
      BY <2>2, <3>1 DEF Option
    <3>3. Load(disk[d]) = st
      BY <3>2 DEF Load
    <3>4. FileHosts[d] = UNION {x.hosts : x \in {st}}
      BY <3>2 DEF FileHosts
    <3> QED BY <3>3, <3>4
  <2> QED BY <2>1, <2>2
<1>3. DeviceHosts' = [DeviceHosts EXCEPT ![d] = FileHosts[d]]
  BY <1>1, <1>2, DeviceHostsNext
<1>4. UNCHANGED <<Saved, FileHosts, ServerHosts>>
  BY <1>1 DEF Saved, FileHosts, ServerHosts
<1> QED BY <1>3, <1>4 DEF Replicas!Restart, Saved, DeviceHosts, FileHosts, ServerHosts

(* The versions that a merge takes.                                        *)
Taken(ours, pulled) ==
  {r \in pulled : \A l \in ours : l.id = r.id => r.updated_at > l.updated_at}

LEMMA MergeTakes ==
  ASSUME NEW ours \in SUBSET HostConfig, NEW pulled \in SUBSET HostConfig, UniqueIds(ours)
  PROVE  MergeHosts(ours, pulled) =
           {h \in ours : h.id \notin IdsOf(Taken(ours, pulled))} \cup Taken(ours, pulled)
<1>0. \A h \in HostConfig : h.updated_at \in Int
  BY DEF HostConfig, Times
<1>1. ASSUME NEW l \in ours
      PROVE  (\A r \in pulled : r.id = l.id => r.updated_at <= l.updated_at)
               <=> l.id \notin IdsOf(Taken(ours, pulled))
  <2>1. ASSUME \A r \in pulled : r.id = l.id => r.updated_at <= l.updated_at,
               l.id \in IdsOf(Taken(ours, pulled))
        PROVE  FALSE
    <3>1. PICK r \in pulled : r.id = l.id /\ r.updated_at > l.updated_at
      BY <2>1 DEF IdsOf, Taken
    <3> QED BY <1>0, <2>1, <3>1
  <2>2. ASSUME l.id \notin IdsOf(Taken(ours, pulled)),
               NEW r \in pulled, r.id = l.id
        PROVE  r.updated_at <= l.updated_at
    <3>1. r \notin Taken(ours, pulled)
      BY <2>2 DEF IdsOf
    <3>2. PICK g \in ours : g.id = r.id /\ ~(r.updated_at > g.updated_at)
      BY <3>1 DEF Taken
    <3>3. g = l
      BY <2>2, <3>2 DEF UniqueIds
    <3> QED BY <1>0, <3>2, <3>3
  <2> QED BY <2>1, <2>2
<1> QED BY <1>1 DEF MergeHosts, Taken

LEMMA AdoptRefines ==
  ASSUME TypeOK, KeysInv, OriginInv, NEW d \in Devices, NEW t \in syncs[d],
         OnPulled(d, t), UNCHANGED hostTable
  PROVE  \E versions \in SUBSET Saved : Replicas!Adopt(d, versions)
<1> PICK st : st = merge_remote(local[d], t.gotHosts, t.gotVault)
  OBVIOUS
<1> PICK new : new = Taken(local[d].hosts, t.gotHosts)
  OBVIOUS
<1>0. /\ local[d].hosts \in SUBSET HostConfig /\ t.gotHosts \in SUBSET HostConfig
      /\ UniqueIds(local[d].hosts) /\ UniqueIds(t.gotHosts) /\ t.gotHosts \subseteq Saved
  BY TypedHosts DEF KeysInv, KeysUnique, OriginInv, SyncOrigin, TaskOrigin
<1>1. local' = [local EXCEPT ![d] = st] /\ Save(d, st) /\ UNCHANGED written
  BY DEF OnPulled
<1>2. st.hosts = {h \in local[d].hosts : h.id \notin IdsOf(new)} \cup new
  BY <1>0, MergeTakes DEF merge_remote
<1>3. new \subseteq Saved /\ UniqueIds(new)
  BY <1>0 DEF Taken, UniqueIds
<1>4. \A h \in local[d].hosts, v \in new : h.id = v.id => h.updated_at < v.updated_at
  <2>1. \A h \in HostConfig : h.updated_at \in Int
    BY DEF HostConfig, Times
  <2> QED BY <1>0, <2>1 DEF Taken
<1>5. Replicas!Save(d)
  BY <1>1, DeviceHostsNext, SaveRefines
<1>6. DeviceHosts' = [DeviceHosts EXCEPT ![d] =
        {h \in DeviceHosts[d] : h.id \notin Replicas!IdsOf(new)} \cup new]
  <2>1. DeviceHosts[d] = local[d].hosts /\ Replicas!IdsOf(new) = IdsOf(new)
    BY SameData DEF DeviceHosts
  <2>2. DeviceHosts' = [DeviceHosts EXCEPT ![d] = st.hosts]
    BY <1>1, DeviceHostsNext
  <2> QED BY <1>2, <2>1, <2>2
<1>7. UNCHANGED <<Saved, ServerHosts>>
  BY <1>1 DEF Saved, ServerHosts
<1>8. Replicas!UniqueIds(new)
  BY <1>3, SameData
<1>9. \A h \in DeviceHosts[d], v \in new : h.id = v.id => h.updated_at < v.updated_at
  BY <1>4 DEF DeviceHosts
<1>10. Replicas!Adopt(d, new)
  BY <1>3, <1>5, <1>6, <1>7, <1>8, <1>9 DEF Replicas!Adopt, Saved, DeviceHosts, ServerHosts
<1> QED BY <1>3, <1>10

(* A save of what is there takes no version.                               *)
LEMMA SaveAloneRefines ==
  ASSUME TypeOK, NEW d \in Devices, Save(d, local[d]),
         UNCHANGED <<local, written, hostTable>>
  PROVE  Replicas!Adopt(d, {})
<1>1. Replicas!Save(d)
  BY SaveRefines
<1>2. Replicas!UniqueIds({}) /\ Replicas!IdsOf({}) = {}
  BY DEF Replicas!UniqueIds, Replicas!IdsOf
<1>3. DeviceHosts' = [DeviceHosts EXCEPT ![d] =
        {h \in DeviceHosts[d] : h.id \notin Replicas!IdsOf({})} \cup {}]
  BY <1>2 DEF DeviceHosts
<1>4. UNCHANGED <<Saved, ServerHosts>>
  BY DEF Saved, ServerHosts
<1> QED BY <1>1, <1>2, <1>3, <1>4 DEF Replicas!Adopt, Saved, DeviceHosts, ServerHosts

(* The server's hosts after a step that sets one account's rows.           *)
LEMMA ServerHostsNext ==
  ASSUME TypeOK, NEW u \in Users, NEW rows, hostTable' = [hostTable EXCEPT ![u] = rows]
  PROVE  ServerHosts' = [ServerHosts EXCEPT ![u] = {OpenHost(r) : r \in rows}]
<1>1. hostTable'[u] = rows /\ \A o \in Users \ {u} : hostTable'[o] = hostTable[o]
  BY DEF TypeOK, ServerTypeOK
<1>2. ServerHosts' = [o \in Users |-> {OpenHost(r) : r \in hostTable'[o]}]
  BY DEF ServerHosts
<1>3. \A o \in Users : ServerHosts[o] = {OpenHost(r) : r \in hostTable[o]}
  BY DEF ServerHosts
<1>4. ServerHosts' = [o \in Users |-> IF o = u THEN {OpenHost(r) : r \in rows} ELSE ServerHosts[o]]
  BY <1>1, <1>2, <1>3
<1> QED BY <1>4 DEF ServerHosts

LEMMA OpenUpsert ==
  ASSUME NEW rows \in SUBSET SealedHost, NEW row \in SealedHost
  PROVE  {OpenHost(r) : r \in Upsert(rows, row)} =
           Upsert({OpenHost(r) : r \in rows}, OpenHost(row))
BY OpenKeeps DEF Upsert

LEMMA OpenRemove ==
  ASSUME NEW rows \in SUBSET SealedHost, NEW id
  PROVE  {OpenHost(r) : r \in Remove(rows, id)} = Remove({OpenHost(r) : r \in rows}, id)
BY OpenKeeps DEF Remove

LEMMA PublishRefines ==
  ASSUME TypeOK, NEW u \in Users, NEW row \in SealedHost, UpsertHost(u, row),
         OpenHost(row) \in Saved, UNCHANGED <<local, disk, written>>
  PROVE  UNCHANGED hostTable \/ Replicas!Publish(u, OpenHost(row))
<1>0. hostTable \in [Users -> SUBSET SealedHost] /\ hostTable[u] \in SUBSET SealedHost
  BY DEF TypeOK, ServerTypeOK
<1>1. hostTable' = [hostTable EXCEPT ![u] = PutNewer(hostTable[u], row)]
  BY DEF UpsertHost
<1>2. CASE \E s \in hostTable[u] : s.id = row.id /\ s.updated_at > row.updated_at
  BY <1>0, <1>1, <1>2 DEF PutNewer
<1>3. CASE ~ \E s \in hostTable[u] : s.id = row.id /\ s.updated_at > row.updated_at
  <2>1. hostTable' = [hostTable EXCEPT ![u] = Upsert(hostTable[u], row)]
    BY <1>1, <1>3 DEF PutNewer
  <2>2. ServerHosts[u] = {OpenHost(r) : r \in hostTable[u]}
    BY DEF ServerHosts
  <2>3. ServerHosts' = [ServerHosts EXCEPT ![u] =
          Replicas!Upsert(ServerHosts[u], OpenHost(row))]
    <3>1. ServerHosts' = [ServerHosts EXCEPT ![u] = {OpenHost(r) : r \in Upsert(hostTable[u], row)}]
      BY <2>1, ServerHostsNext
    <3>2. {OpenHost(r) : r \in Upsert(hostTable[u], row)} = Upsert(ServerHosts[u], OpenHost(row))
      BY <1>0, <2>2, OpenUpsert, Zenon
    <3>3. Replicas!Upsert(ServerHosts[u], OpenHost(row)) = Upsert(ServerHosts[u], OpenHost(row))
      BY SameData
    <3> QED BY <3>1, <3>2, <3>3, Zenon
  <2>4. \A r \in ServerHosts[u] :
          r.id = OpenHost(row).id => r.updated_at <= OpenHost(row).updated_at
    <3>1. \A s \in SealedHost : s.updated_at \in Int
      BY DEF SealedHost, Times
    <3>2. \A s \in hostTable[u] : s.id = row.id => s.updated_at <= row.updated_at
      BY <1>0, <1>3, <3>1
    <3> QED BY <1>0, <2>2, <3>2, OpenKeeps
  <2>5. UNCHANGED <<Saved, DeviceHosts, FileHosts>>
    BY DEF Saved, DeviceHosts, FileHosts
  <2> QED BY <2>3, <2>4, <2>5
          DEF Replicas!Publish, Saved, DeviceHosts, FileHosts, ServerHosts
<1> QED BY <1>2, <1>3

LEMMA ServerForgetsRefines ==
  ASSUME TypeOK, NEW u \in Users, NEW id, DeleteHostRow(u, id),
         UNCHANGED <<local, disk, written>>
  PROVE  Replicas!ServerForgets(u, id)
<1>0. hostTable[u] \in SUBSET SealedHost
  BY DEF TypeOK, ServerTypeOK
<1>1. hostTable' = [hostTable EXCEPT ![u] = Remove(hostTable[u], id)]
  BY DEF DeleteHostRow
<1>2. ServerHosts[u] = {OpenHost(r) : r \in hostTable[u]}
  BY DEF ServerHosts
<1>3. ServerHosts' = [ServerHosts EXCEPT ![u] = Replicas!Remove(ServerHosts[u], id)]
  <2>1. ServerHosts' = [ServerHosts EXCEPT ![u] = {OpenHost(r) : r \in Remove(hostTable[u], id)}]
    BY <1>1, ServerHostsNext
  <2>2. {OpenHost(r) : r \in Remove(hostTable[u], id)} = Remove(ServerHosts[u], id)
    BY <1>0, <1>2, OpenRemove, Zenon
  <2>3. Replicas!Remove(ServerHosts[u], id) = Remove(ServerHosts[u], id)
    BY SameData
  <2> QED BY <2>1, <2>2, <2>3, Zenon
<1>4. UNCHANGED <<Saved, DeviceHosts, FileHosts>>
  BY DEF Saved, DeviceHosts, FileHosts
<1> QED BY <1>3, <1>4
        DEF Replicas!ServerForgets, Saved, DeviceHosts, FileHosts, ServerHosts

(* A step that a replica's operation allows is a step of SyncReplicas.     *)
LEMMA ServerStepRefines ==
  ASSUME NEW u \in Users, NEW x \in Saved \cup Ids,
         \/ x \in Saved /\ Replicas!Publish(u, x)
         \/ x \in Ids /\ Replicas!ServerForgets(u, x)
  PROVE  [Replicas!Next]_(Replicas!vars)
<1>1. Replicas!ServerStep(u)
  BY SameData DEF Replicas!ServerStep, Saved
<1>2. UNCHANGED <<Saved, DeviceHosts, FileHosts>>
  BY DEF Replicas!Publish, Replicas!ServerForgets, Saved, DeviceHosts, FileHosts
<1>3. CASE UNCHANGED ServerHosts
  BY <1>2, <1>3 DEF Replicas!vars, Saved, DeviceHosts, FileHosts, ServerHosts
<1>4. CASE ServerHosts' # ServerHosts
  BY <1>1, <1>4 DEF Replicas!Next, ServerHosts
<1> QED BY <1>3, <1>4

LEMMA DeviceStepRefines ==
  ASSUME NEW d \in Devices, Replicas!DeviceStep(d)
  PROVE  [Replicas!Next]_(Replicas!vars)
<1>1. UNCHANGED <<Saved, ServerHosts>>
  BY DEF Replicas!DeviceStep, Replicas!Adopt, Replicas!DeviceForgets, Replicas!Restart,
         Saved, ServerHosts
<1>2. CASE UNCHANGED <<DeviceHosts, FileHosts>>
  BY <1>1, <1>2 DEF Replicas!vars, Saved, DeviceHosts, FileHosts, ServerHosts
<1>3. CASE <<DeviceHosts, FileHosts>>' # <<DeviceHosts, FileHosts>>
  BY <1>3 DEF Replicas!Next, DeviceHosts, FileHosts
<1> QED BY <1>2, <1>3

LEMMA StepRefines ==
  ASSUME TypeOK, KeysInv, OriginInv, [Next]_vars
  PROVE  [Replicas!Next]_(Replicas!vars)
<1>1. CASE UNCHANGED <<local, disk, written, hostTable>>
  BY <1>1, Stutters
<1>2. ASSUME NEW u \in Users, NEW row \in SealedHost, UpsertHost(u, row),
             OpenHost(row) \in Saved, UNCHANGED <<local, disk, written>>
      PROVE  [Replicas!Next]_(Replicas!vars)
  BY <1>1, <1>2, PublishRefines, ServerStepRefines
<1>3. CASE Pushes /\ UNCHANGED <<local, disk, written>>
  <2>1. PICK d \in Devices : \E t \in syncs[d] : \E h \in t.todoHosts : PushHost(d, t, h)
    BY <1>3 DEF Pushes
  <2>2. PICK t \in syncs[d] : \E h \in t.todoHosts : PushHost(d, t, h)
    BY <2>1
  <2>3. PICK h \in t.todoHosts : PushHost(d, t, h)
    BY <2>2
  <2>4. t.user \in Users /\ h \in HostConfig /\ h \in Saved
    BY TypedHosts DEF OriginInv, SyncOrigin, TaskOrigin
  <2>5. SealHost(t.user, h) \in SealedHost
    BY <2>4, SealType
  <2>6. OpenHost(SealHost(t.user, h)) \in Saved
    BY <2>4, OpenSeal DEF OriginInv, SavedWell
  <2> QED BY <1>2, <1>3, <2>3, <2>4, <2>5, <2>6 DEF PushHost
<1>4. CASE LatePut /\ UNCHANGED <<local, disk, written>>
  <2>1. PICK q \in late : q.op = "putHost" /\ UpsertHost(q.user, q.row)
    BY <1>4 DEF LatePut
  <2>2. q.user \in Users /\ q.row \in SealedHost
    BY <2>1, RequestKinds DEF TypeOK
  <2>3. OpenHost(q.row) \in Saved
    BY <2>1 DEF OriginInv, LateOrigin
  <2> QED BY <1>2, <1>4, <2>1, <2>2, <2>3
<1>5. CASE Deletes /\ UNCHANGED <<local, disk, written>>
  BY <1>5, ServerForgetsRefines, ServerStepRefines DEF Deletes
<1>6. ASSUME NEW d \in Devices, DeviceSteps(d), UNCHANGED hostTable
      PROVE  [Replicas!Next]_(Replicas!vars)
  <2>1. ASSUME NEW form \in Forms, NEW now \in Times, SaveHost(d, form, now)
        PROVE  [Replicas!Next]_(Replicas!vars)
    <3> PICK host : host = SavedHost(d, form, now)
      OBVIOUS
    <3>1. Replicas!Write(d, host)
      BY <1>6, <2>1, WriteRefines DEF OriginInv
    <3>2. host \in Replicas!HostConfig
      <4>1. NewStamp \in Stamps
        BY <2>1, BoundsAssumption DEF SaveHost, Change, NewStamp, Stamps, TypeOK
      <4> QED BY <4>1, SavedType, SameData DEF KeysInv
    <3>3. Saved' # Saved
      BY <3>1 DEF Replicas!Write, Saved
    <3> QED BY <3>1, <3>2, <3>3 DEF Replicas!Next, Saved
  <2>2. ASSUME NEW id \in shown[d], ClickDelete(d, id)
        PROVE  [Replicas!Next]_(Replicas!vars)
    <3>1. id \in Replicas!Ids
      BY SameData DEF TypeOK
    <3>2. Replicas!DeviceForgets(d, id)
      BY <1>6, <2>2, ForgetsRefines
    <3> QED BY <3>1, <3>2, DeviceStepRefines DEF Replicas!DeviceStep
  <2>3. CASE SavePreferences(d) \/ \E t \in signIns[d] : OnSignedIn(d, t)
    <3>1. Save(d, local[d]) /\ UNCHANGED <<local, written>>
      BY <2>3 DEF SavePreferences, OnSignedIn
    <3>2. Replicas!Adopt(d, {})
      BY <1>6, <3>1, SaveAloneRefines
    <3>3. Replicas!DeviceStep(d)
      BY <3>2 DEF Replicas!DeviceStep
    <3> QED BY <3>3, DeviceStepRefines
  <2>4. CASE Restart(d)
    BY <1>6, <2>4, RestartRefines, DeviceStepRefines DEF Replicas!DeviceStep
  <2>5. ASSUME NEW t \in syncs[d], OnPulled(d, t)
        PROVE  [Replicas!Next]_(Replicas!vars)
    <3>1. \E versions \in SUBSET Saved : Replicas!Adopt(d, versions)
      BY <1>6, <2>5, AdoptRefines
    <3>2. Replicas!DeviceStep(d)
      BY <3>1 DEF Replicas!DeviceStep, Saved
    <3> QED BY <3>2, DeviceStepRefines
  <2> QED BY <1>6, <2>1, <2>2, <2>3, <2>4, <2>5 DEF DeviceSteps
<1> QED BY <1>1, <1>3, <1>4, <1>5, <1>6, HostTableNext, DeviceNext

LEMMA InitRefines == Init => Replicas!Init
BY DEF Init, ServerInit, DefaultState, Replicas!Init

(* Any number of devices and accounts, however their saves, pushes, pulls, *)
(* deletions, restarts and late requests interleave, keep the promise of   *)
(* SyncReplicas: no host is held that was not saved, and an exchange never *)
(* makes one older or loses it.                                            *)
THEOREM HostsTravelAsSaved == Spec => ImplementsReplicas
<1>1. Init => TypeOK /\ KeysInv /\ OriginInv
  BY TypeInit, KeysInit, OriginInit
<1>2. TypeOK /\ KeysInv /\ OriginInv /\ [Next]_vars => TypeOK' /\ KeysInv' /\ OriginInv'
  BY TypeNext, KeysNext, OriginNext DEF KeysInv
<1>3. TypeOK /\ KeysInv /\ OriginInv /\ [Next]_vars => [Replicas!Next]_(Replicas!vars)
  BY StepRefines
<1>4. Init => Replicas!Init
  BY InitRefines
<1> QED BY <1>1, <1>2, <1>3, <1>4, PTL DEF Spec, ImplementsReplicas, Replicas!Spec
=============================================================================
