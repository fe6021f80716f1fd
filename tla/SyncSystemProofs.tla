--------------------------- MODULE SyncSystemProofs ---------------------------
(***************************************************************************)
(* Proofs about SyncSystem for all values of its constants.                *)
(***************************************************************************)
EXTENDS SyncSystem, TLAPS

-----------------------------------------------------------------------------
(* The operators keep rows within a set of rows.                           *)

LEMMA UpsertType ==
  ASSUME NEW S, NEW rows \in SUBSET S, NEW r \in S
  PROVE  Upsert(rows, r) \in SUBSET S /\ PutNewer(rows, r) \in SUBSET S
BY DEF Upsert, PutNewer

LEMMA RemoveType ==
  ASSUME NEW S, NEW rows \in SUBSET S, NEW id
  PROVE  Remove(rows, id) \in SUBSET S
BY DEF Remove

LEMMA MergeType ==
  ASSUME NEW S, NEW ours \in SUBSET S, NEW pulled \in SUBSET S
  PROVE  MergeHosts(ours, pulled) \in SUBSET S /\ MergeVault(ours, pulled) \in SUBSET S
BY DEF MergeHosts, MergeVault

(* Sealing and opening translate between local rows and server rows.       *)
LEMMA SealType ==
  ASSUME NEW u \in Users
  PROVE  /\ \A h \in HostConfig : SealHost(u, h) \in SealedHost
         /\ \A v \in LocalVaultEntry : SealVault(u, v) \in VaultEntry
<1>1. ASSUME NEW h \in HostConfig PROVE SealHost(u, h) \in SealedHost
  <2> DEFINE pw == {encrypt_secret(u, p, h.id) : p \in {q \in h.password : h.auth_method = "password"}}
  <2>1. pw \in Option(Sealed)
    BY <1>1 DEF Option, HostConfig, encrypt_secret, Sealed, Ids
  <2>2. SealHost(u, h) = [h EXCEPT !.password = pw]
    BY DEF SealHost
  <2> HIDE DEF pw
  <2> QED BY <1>1, <2>1, <2>2 DEF HostConfig, SealedHost
<1>2. ASSUME NEW v \in LocalVaultEntry PROVE SealVault(u, v) \in VaultEntry
  BY <1>2 DEF SealVault, encrypt_secret, LocalVaultEntry, VaultEntry, Sealed
<1> QED BY <1>1, <1>2

LEMMA OpenType ==
  /\ \A r \in SealedHost : OpenHost(r) \in HostConfig
  /\ \A v \in VaultEntry : OpenVault(v) \in LocalVaultEntry
<1>1. ASSUME NEW r \in SealedHost PROVE OpenHost(r) \in HostConfig
  <2> DEFINE pw == {s.text : s \in {q \in r.password : r.auth_method = "password"}}
  <2>1. pw \in Option(Stamps)
    BY <1>1 DEF Option, SealedHost, Sealed
  <2>2. OpenHost(r) = [r EXCEPT !.password = pw]
    BY DEF OpenHost
  <2> HIDE DEF pw
  <2> QED BY <1>1, <2>1, <2>2 DEF HostConfig, SealedHost
<1>2. ASSUME NEW v \in VaultEntry PROVE OpenVault(v) \in LocalVaultEntry
  BY <1>2 DEF OpenVault, LocalVaultEntry, VaultEntry, Sealed
<1> QED BY <1>1, <1>2

(* Setting one device's (or user's) entry of a function.                   *)
LEMMA ExceptType ==
  ASSUME NEW D, NEW S, NEW f \in [D -> S], NEW d \in D, NEW x \in S
  PROVE  [f EXCEPT ![d] = x] \in [D -> S]
OBVIOUS

LEMMA LoadType ==
  ASSUME NEW file \in Option(LocalState)
  PROVE  Load(file) \in LocalState
BY DEF Load, Option, LocalState, DefaultState

LEMMA SaveType ==
  ASSUME NEW d \in Devices, NEW st \in LocalState, TypeOK, Save(d, st)
  PROVE  disk' \in [Devices -> Option(LocalState)] /\ faults' \in 0..MaxFaults
<1>1. {st} \in Option(LocalState) /\ {} \in Option(LocalState)
  BY DEF Option
<1>2. disk' \in [Devices -> Option(LocalState)]
  BY <1>1 DEF TypeOK, Save
<1>3. faults' \in 0..MaxFaults
  BY CountsAssumption DEF TypeOK, Save, Fault
<1> QED BY <1>2, <1>3

LEMMA RefreshType ==
  ASSUME NEW d \in Devices, NEW st \in LocalState, TypeOK, Refresh(d, st)
  PROVE  shown' \in [Devices -> SUBSET Ids]
<1>1. IdsOf(st.hosts) \in SUBSET Ids
  BY DEF IdsOf, LocalState, HostConfig
<1> QED BY <1>1 DEF Refresh, TypeOK

LEMMA SpawnSyncType ==
  ASSUME NEW d \in Devices, NEW u \in Users, TypeOK, SpawnSync(d, u)
  PROVE  syncs' \in [Devices -> SUBSET SyncTask] /\ busy' \in [Devices -> BOOLEAN]
<1>1. PICK n \in Slots :
        /\ syncs' = [syncs EXCEPT ![d] = @ \cup {NewSync(n, u, local[d])}]
        /\ busy' = [busy EXCEPT ![d] = TRUE]
  BY DEF SpawnSync
<1>2. NewSync(n, u, local[d]) \in SyncTask
  BY DEF TypeOK, NewSync, SyncTask, LocalState
<1> QED BY <1>1, <1>2 DEF TypeOK

-----------------------------------------------------------------------------
(* Type correctness, one lemma per kind of step.                           *)

LEMMA TypeInit == Init => TypeOK
<1>1. {} \in Option(LocalState) /\ {} \in Option(Users) /\ {} \in Option(Ids)
  BY DEF Option
<1>2. DefaultState \in LocalState
  BY DEF DefaultState, LocalState
<1> QED BY <1>1, <1>2, BoundsAssumption, CountsAssumption
        DEF Init, ServerInit, TypeOK, ServerTypeOK, Times

(* Steps of a sign-in.                                                     *)
LEMMA TypeSignIn ==
  ASSUME TypeOK, NEW d \in Devices, SignInStep(d)
  PROVE  TypeOK'
<1> USE DEF serverVars, uiVars, taskVars, countVars
<1> PICK t \in signIns[d] :
      \/ RegisterServed(d, t) \/ LoginServed(d, t) \/ SignInFails(d, t)
      \/ OnSignedIn(d, t) \/ OnSignInFailed(d, t)
  BY DEF SignInStep
<1>1. t \in SignIn /\ t.user \in Users /\ t.slot \in Slots
  BY DEF TypeOK, SignIn
<1>2. ASSUME NEW pc \in {"ok", "err"}, NextSignIn(d, t, pc)
      PROVE  signIns' \in [Devices -> SUBSET SignIn]
  <2>1. [t EXCEPT !.pc = pc] \in SignIn
    BY <1>1 DEF SignIn
  <2> QED BY <1>2, <2>1 DEF TypeOK, NextSignIn, Replace
<1>3. CASE RegisterServed(d, t)
  BY <1>1, <1>2, <1>3 DEF RegisterServed, CreateUser, TypeOK, ServerTypeOK
<1>4. CASE LoginServed(d, t)
  BY <1>1, <1>2, <1>4 DEF LoginServed, TypeOK, ServerTypeOK
<1>5. CASE SignInFails(d, t)
  <2>1. signIns' \in [Devices -> SUBSET SignIn]
    BY <1>2, <1>5 DEF SignInFails
  <2>2. late' \subseteq Request
    BY <1>1, <1>5 DEF SignInFails, TypeOK, Request
  <2>3. faults' \in 0..MaxFaults
    BY <1>5, CountsAssumption DEF SignInFails, TypeOK, Fault
  <2> QED BY <1>5, <2>1, <2>2, <2>3 DEF SignInFails, TypeOK, ServerTypeOK
<1>6. CASE OnSignedIn(d, t)
  <2>1. local[d] \in LocalState
    BY DEF TypeOK
  <2>2. disk' \in [Devices -> Option(LocalState)] /\ faults' \in 0..MaxFaults
    BY <1>6, <2>1, SaveType DEF OnSignedIn
  <2>3. shown' \in [Devices -> SUBSET Ids]
    BY <1>6, <2>1, RefreshType DEF OnSignedIn
  <2>4. syncs' \in [Devices -> SUBSET SyncTask] /\ busy' \in [Devices -> BOOLEAN]
    BY <1>1, <1>6, SpawnSyncType DEF OnSignedIn
  <2>5. account' \in [Devices -> Option(Users)]
    <3>1. {t.user} \in Option(Users)
      BY <1>1 DEF Option
    <3> QED BY <1>6, <3>1 DEF OnSignedIn, TypeOK
  <2>6. signIns' \in [Devices -> SUBSET SignIn]
    BY <1>6 DEF OnSignedIn, TypeOK
  <2> QED BY <1>6, <2>2, <2>3, <2>4, <2>5, <2>6 DEF OnSignedIn, TypeOK, ServerTypeOK
<1>7. CASE OnSignInFailed(d, t)
  <2>1. signIns' \in [Devices -> SUBSET SignIn] /\ busy' \in [Devices -> BOOLEAN]
    BY <1>7 DEF OnSignInFailed, TypeOK
  <2> QED BY <1>7, <2>1 DEF OnSignInFailed, TypeOK, ServerTypeOK
<1> QED BY <1>3, <1>4, <1>5, <1>6, <1>7

(* The links of the hosts with one id are one link or none, as no two      *)
(* hosts of a device share an id.                                          *)
LEMMA OneLink ==
  ASSUME NEW st \in LocalState, UniqueIds(st.hosts), NEW id
  PROVE  Linked(WithId(st.hosts, id)) \in Option(Ids)
<1>1. \A h \in WithId(st.hosts, id) : h.key_password_id \in Option(Ids)
  BY DEF WithId, LocalState, HostConfig
<1>2. \A g, h \in WithId(st.hosts, id) : g = h
  BY DEF WithId, UniqueIds
<1>3. CASE WithId(st.hosts, id) = {}
  BY <1>3 DEF Linked, Option
<1>4. CASE WithId(st.hosts, id) # {}
  <2>1. PICK h : WithId(st.hosts, id) = {h}
    BY <1>2, <1>4
  <2>2. Linked(WithId(st.hosts, id)) = h.key_password_id
    BY <2>1 DEF Linked
  <2> QED BY <1>1, <2>1, <2>2
<1> QED BY <1>3, <1>4

LEMMA ExistingVidType ==
  ASSUME TypeOK, KeysUnique, NEW d \in Devices
  PROVE  ExistingVid(d) \in Option(Ids)
<1>1. local[d] \in LocalState /\ editing[d] \in Option(Ids) /\ UniqueIds(local[d].hosts)
  BY DEF TypeOK, KeysUnique
<1>2. CASE editing[d] = {}
  BY <1>2 DEF ExistingVid, Linked, Option
<1>3. CASE editing[d] # {}
  <2>1. PICK id : editing[d] = {id}
    BY <1>1, <1>3 DEF Option
  <2>2. ExistingVid(d) = Linked(WithId(local[d].hosts, id))
    BY <2>1 DEF ExistingVid, Linked, WithId
  <2> QED BY <1>1, <2>2, OneLink
<1> QED BY <1>2, <1>3

LEMMA SavedType ==
  ASSUME TypeOK, KeysUnique, NEW d \in Devices, NEW form, NEW now \in Times,
         NewStamp \in Stamps
  PROVE  /\ SavedHost(d, form, now) \in HostConfig
         /\ SavedEntries(d, form, now) \in SUBSET LocalVaultEntry
<1>1. ExistingVid(d) \in Option(Ids) /\ SavedVid(d) \in Option(Ids)
  BY ExistingVidType DEF SavedVid, Option, Ids
<1>2. SavedId(d) \in Ids
  BY DEF SavedId, TypeOK, Option, Ids
<1>3. SavedHost(d, form, now) \in HostConfig
  <2> DEFINE auth == IF form \in {"password", "no password"} THEN "password" ELSE "key"
             pw == {p \in {NewStamp} : form = "password"}
             link == CASE form = "passphrase"    -> SavedVid(d)
                       [] form = "no passphrase" -> ExistingVid(d)
                       [] OTHER                  -> {}
  <2>1. auth \in AuthMethod
    BY DEF AuthMethod
  <2>2. pw \in Option(Stamps)
    BY DEF Option
  <2>3. link \in Option(Ids)
    BY <1>1 DEF Option
  <2>4. SavedHost(d, form, now) =
          [id |-> SavedId(d), name |-> NewStamp, updated_at |-> now,
           auth_method |-> auth, password |-> pw, key_password_id |-> link]
    BY DEF SavedHost
  <2> HIDE DEF auth, pw, link
  <2> QED BY <1>2, <2>1, <2>2, <2>3, <2>4 DEF HostConfig
<1>4. SavedEntries(d, form, now) \in SUBSET LocalVaultEntry
  <2>1. \A v \in SavedVid(d) : v \in Ids
    BY <1>1 DEF Option
  <2> QED BY <2>1 DEF SavedEntries, LocalVaultEntry
<1> QED BY <1>3, <1>4

LEMMA TypeUser ==
  ASSUME TypeOK, KeysUnique, NEW d \in Devices, UserStep(d)
  PROVE  TypeOK'
<1> USE DEF serverVars, uiVars, taskVars, countVars
<1>0. /\ local[d] \in LocalState /\ account[d] \in Option(Users)
      /\ \A u \in account[d] : u \in Users
      /\ {} \in Option(Ids) /\ {} \in Option(Users)
  BY DEF TypeOK, Option
<1>1. ASSUME NEW u \in Users, NEW op \in {"login", "register"}, ClickSignIn(d, u, op)
      PROVE  TypeOK'
  <2>1. signIns' \in [Devices -> SUBSET SignIn]
    BY <1>1 DEF ClickSignIn, TypeOK, SignIn
  <2>2. attempts' \in 0..MaxSignIns /\ busy' \in [Devices -> BOOLEAN]
    BY <1>1, CountsAssumption DEF ClickSignIn, TypeOK
  <2> QED BY <1>1, <2>1, <2>2 DEF ClickSignIn, TypeOK, ServerTypeOK
<1>2. CASE ClickSync(d)
  <2>1. syncs' \in [Devices -> SUBSET SyncTask] /\ busy' \in [Devices -> BOOLEAN]
    BY <1>0, <1>2, SpawnSyncType DEF ClickSync
  <2> QED BY <1>2, <2>1 DEF ClickSync, TypeOK, ServerTypeOK
<1>3. CASE ClickLogout(d)
  <2>1. account' \in [Devices -> Option(Users)]
    BY <1>0, <1>3 DEF ClickLogout, TypeOK
  <2> QED BY <1>3, <2>1 DEF ClickLogout, TypeOK, ServerTypeOK
<1>4. CASE ClickSearch(d)
  <2>1. shown' \in [Devices -> SUBSET Ids]
    BY <1>0, <1>4, RefreshType DEF ClickSearch
  <2> QED BY <1>4, <2>1 DEF ClickSearch, TypeOK, ServerTypeOK
<1>5. CASE ClickNewHost(d)
  <2>1. editing' \in [Devices -> Option(Ids)]
    BY <1>0, <1>5 DEF ClickNewHost, TypeOK
  <2> QED BY <1>5, <2>1 DEF ClickNewHost, TypeOK, ServerTypeOK
<1>6. ASSUME NEW id \in shown[d], ClickEdit(d, id)
      PROVE  TypeOK'
  <2>1. {id} \in Option(Ids)
    BY <1>6 DEF TypeOK, Option
  <2>2. editing' \in [Devices -> Option(Ids)]
    BY <1>6, <2>1 DEF ClickEdit, TypeOK
  <2> QED BY <1>6, <2>2 DEF ClickEdit, TypeOK, ServerTypeOK
<1>7. ASSUME NEW id \in shown[d], ClickDelete(d, id)
      PROVE  TypeOK'
  <2> DEFINE st == delete_host(local[d], id)
             vid == Linked(WithId(local[d].hosts, id))
  <2>1. st \in LocalState
    BY <1>0 DEF delete_host, Remove, LocalState
  <2>2. disk' \in [Devices -> Option(LocalState)] /\ faults' \in 0..MaxFaults
    BY <1>7, <2>1, SaveType DEF ClickDelete
  <2>3. local' \in [Devices -> LocalState]
    BY <1>7, <2>1 DEF ClickDelete, TypeOK
  <2>4. deletions' \in [Devices -> SUBSET Deletion]
    <3>1. vid \in Option(Ids)
      BY <1>0, OneLink DEF KeysUnique
    <3>2. id \in Ids
      BY DEF TypeOK
    <3> HIDE DEF vid
    <3>3. PICK u \in account[d], n \in Slots :
            deletions' = [deletions EXCEPT ![d] =
                @ \cup {[slot |-> n, user |-> u, pc |-> "host",
                         id |-> id, vault_id |-> vid]}]
      BY <1>7 DEF ClickDelete, vid
    <3>4. [slot |-> n, user |-> u, pc |-> "host", id |-> id, vault_id |-> vid] \in Deletion
      BY <1>0, <3>1, <3>2 DEF Deletion
    <3> QED BY <3>3, <3>4 DEF TypeOK
  <2>5. busy' \in [Devices -> BOOLEAN] /\ changes' \in 0..MaxChanges
    BY <1>7, BoundsAssumption DEF ClickDelete, TypeOK, Change
  <2> QED BY <1>7, <2>2, <2>3, <2>4, <2>5 DEF ClickDelete, TypeOK, ServerTypeOK
<1>8. ASSUME NEW form \in Forms, NEW now \in Times, SaveHost(d, form, now)
      PROVE  TypeOK'
  <2> DEFINE host == SavedHost(d, form, now)
             entries == SavedEntries(d, form, now)
             vault == MergeVault(local[d].vault, entries)
             st == upsert_host([local[d] EXCEPT !.vault = vault], host)
  <2>1. NewStamp \in Stamps /\ changes' \in 0..MaxChanges
    <3>1. Change
      BY <1>8 DEF SaveHost
    <3>2. changes \in 0..MaxChanges
      BY DEF TypeOK
    <3> QED BY <3>1, <3>2, BoundsAssumption DEF Change, NewStamp, Stamps
  <2>2. host \in HostConfig /\ entries \in SUBSET LocalVaultEntry
    BY <2>1, SavedType
  <2>6. st \in LocalState
    <3> HIDE DEF host, entries
    <3>1. vault \in SUBSET LocalVaultEntry
      BY <1>0, <2>2, MergeType DEF LocalState
    <3>2. Upsert(local[d].hosts, host) \in SUBSET HostConfig
      BY <1>0, <2>2, UpsertType DEF LocalState
    <3> QED BY <1>0, <3>1, <3>2 DEF upsert_host, LocalState
  <2>7. /\ local' = [local EXCEPT ![d] = st] /\ Save(d, st) /\ Refresh(d, st)
        /\ written' = written \cup {[user |-> u, host |-> host] : u \in account[d]}
    BY <1>8 DEF SaveHost
  <2>8. disk' \in [Devices -> Option(LocalState)] /\ faults' \in 0..MaxFaults
    BY <2>6, <2>7, SaveType
  <2>9. shown' \in [Devices -> SUBSET Ids]
    BY <2>6, <2>7, RefreshType
  <2>10. written' \subseteq [user: Users, host: HostConfig]
    <3> HIDE DEF host
    <3>1. written \subseteq [user: Users, host: HostConfig]
      BY DEF TypeOK
    <3> QED BY <1>0, <2>2, <2>7, <3>1
  <2>11. local' \in [Devices -> LocalState]
    BY <2>6, <2>7 DEF TypeOK
  <2>12. editing' \in [Devices -> Option(Ids)] /\ clock' \in [Devices -> Times]
    BY <1>0, <1>8 DEF SaveHost, TypeOK
  <2> QED BY <1>8, <2>1, <2>8, <2>9, <2>10, <2>11, <2>12
          DEF SaveHost, TypeOK, ServerTypeOK
<1>9. CASE SavePreferences(d)
  <2>1. disk' \in [Devices -> Option(LocalState)] /\ faults' \in 0..MaxFaults
    BY <1>0, <1>9, SaveType DEF SavePreferences
  <2> QED BY <1>9, <2>1 DEF SavePreferences, TypeOK, ServerTypeOK
<1>10. CASE Restart(d)
  <2>1. Load(disk[d]) \in LocalState
    BY LoadType DEF TypeOK
  <2>2. local' \in [Devices -> LocalState] /\ local'[d] \in LocalState
    BY <1>10, <2>1 DEF Restart, TypeOK
  <2>3. shown' \in [Devices -> SUBSET Ids]
    BY <1>10, <2>2, RefreshType DEF Restart
  <2>4. faults' \in 0..MaxFaults
    BY <1>10, CountsAssumption DEF Restart, TypeOK, Fault
  <2>5. /\ account' \in [Devices -> Option(Users)] /\ editing' \in [Devices -> Option(Ids)]
        /\ busy' \in [Devices -> BOOLEAN] /\ signIns' \in [Devices -> SUBSET SignIn]
        /\ syncs' \in [Devices -> SUBSET SyncTask] /\ deletions' \in [Devices -> SUBSET Deletion]
    BY <1>0, <1>10 DEF Restart, TypeOK
  <2> QED BY <1>10, <2>2, <2>3, <2>4, <2>5 DEF Restart, TypeOK, ServerTypeOK
<1> QED BY <1>1, <1>2, <1>3, <1>4, <1>5, <1>6, <1>7, <1>8, <1>9, <1>10 DEF UserStep

(* The server's writes.                                                    *)
LEMMA UpsertHostType ==
  ASSUME TypeOK, NEW u \in Users, NEW row \in SealedHost, UpsertHost(u, row)
  PROVE  hostTable' \in [Users -> SUBSET SealedHost]
<1>1. hostTable \in [Users -> SUBSET SealedHost]
  BY DEF TypeOK, ServerTypeOK
<1>2. PutNewer(hostTable[u], row) \in SUBSET SealedHost
  BY <1>1, UpsertType
<1>3. hostTable' = [hostTable EXCEPT ![u] = PutNewer(hostTable[u], row)]
  BY DEF UpsertHost
<1> QED BY <1>1, <1>2, <1>3

LEMMA UpsertVaultType ==
  ASSUME TypeOK, NEW u \in Users, NEW row \in VaultEntry, UpsertVaultEntry(u, row)
  PROVE  vaultTable' \in [Users -> SUBSET VaultEntry]
<1>1. vaultTable \in [Users -> SUBSET VaultEntry]
  BY DEF TypeOK, ServerTypeOK
<1>2. PutNewer(vaultTable[u], row) \in SUBSET VaultEntry
  BY <1>1, UpsertType
<1>3. vaultTable' = [vaultTable EXCEPT ![u] = PutNewer(vaultTable[u], row)]
  BY DEF UpsertVaultEntry
<1> QED BY <1>1, <1>2, <1>3

LEMMA NextSyncType ==
  ASSUME TypeOK, NEW d \in Devices, NEW t \in syncs[d], NEW new \in SyncTask,
         NextSync(d, t, new)
  PROVE  syncs' \in [Devices -> SUBSET SyncTask]
BY DEF TypeOK, NextSync, Replace

(* Steps of a sync.                                                        *)
LEMMA TypeSync ==
  ASSUME TypeOK, NEW d \in Devices, SyncStep(d)
  PROVE  TypeOK'
<1> USE DEF serverVars, uiVars, taskVars, countVars
<1> PICK t \in syncs[d] :
      \/ \E v \in t.todoVault : PushVault(d, t, v)
      \/ \E h \in t.todoHosts : PushHost(d, t, h)
      \/ PullHosts(d, t) \/ PullVault(d, t) \/ SyncFails(d, t)
      \/ OnPulled(d, t) \/ OnSyncFailed(d, t)
  BY DEF SyncStep
<1>0. /\ t \in SyncTask /\ t.user \in Users
      /\ t.todoHosts \subseteq HostConfig /\ t.todoVault \subseteq LocalVaultEntry
      /\ t.rows \subseteq SealedHost
      /\ t.gotHosts \subseteq HostConfig /\ t.gotVault \subseteq LocalVaultEntry
  BY DEF TypeOK, SyncTask
<1>1. ASSUME NEW v \in t.todoVault, PushVault(d, t, v)
      PROVE  TypeOK'
  <2>1. [t EXCEPT !.todoVault = @ \ {v}] \in SyncTask
    BY <1>0 DEF SyncTask
  <2>2. syncs' \in [Devices -> SUBSET SyncTask]
    BY <1>1, <2>1, NextSyncType DEF PushVault
  <2>3. SealVault(t.user, v) \in VaultEntry
    BY <1>0, SealType
  <2>5. vaultTable' \in [Users -> SUBSET VaultEntry]
    BY <1>0, <1>1, <2>3, UpsertVaultType DEF PushVault
  <2> QED BY <1>1, <2>2, <2>5 DEF PushVault, UpsertVaultEntry, TypeOK, ServerTypeOK
<1>2. ASSUME NEW h \in t.todoHosts, PushHost(d, t, h)
      PROVE  TypeOK'
  <2>1. [t EXCEPT !.todoHosts = @ \ {h}] \in SyncTask
    BY <1>0 DEF SyncTask
  <2>2. syncs' \in [Devices -> SUBSET SyncTask]
    BY <1>2, <2>1, NextSyncType DEF PushHost
  <2>3. SealHost(t.user, h) \in SealedHost
    BY <1>0, SealType
  <2>5. hostTable' \in [Users -> SUBSET SealedHost]
    BY <1>0, <1>2, <2>3, UpsertHostType DEF PushHost
  <2> QED BY <1>2, <2>2, <2>5 DEF PushHost, UpsertHost, TypeOK, ServerTypeOK
<1>3. CASE PullHosts(d, t)
  <2>1. hostTable[t.user] \subseteq SealedHost
    BY <1>0 DEF TypeOK, ServerTypeOK
  <2>2. [t EXCEPT !.pc = "pullVault", !.rows = hostTable[t.user]] \in SyncTask
    BY <1>0, <2>1 DEF SyncTask
  <2>3. syncs' \in [Devices -> SUBSET SyncTask]
    BY <1>3, <2>2, NextSyncType DEF PullHosts
  <2> QED BY <1>3, <2>3 DEF PullHosts, TypeOK, ServerTypeOK
<1>4. CASE PullVault(d, t)
  <2>1. vaultTable[t.user] \subseteq VaultEntry
    BY <1>0 DEF TypeOK, ServerTypeOK
  <2>2. Pulled(t, vaultTable[t.user]) \in SyncTask
    <3>1. {OpenHost(r) : r \in t.rows} \in SUBSET HostConfig
      BY <1>0, OpenType
    <3>2. {OpenVault(v) : v \in vaultTable[t.user]} \in SUBSET LocalVaultEntry
      BY <2>1, OpenType
    <3> QED BY <1>0, <3>1, <3>2 DEF Pulled, SyncTask
  <2>3. [t EXCEPT !.pc = "err", !.rows = {}] \in SyncTask
    BY <1>0 DEF SyncTask
  <2>4. syncs' \in [Devices -> SUBSET SyncTask]
    BY <1>4, <2>2, <2>3, NextSyncType DEF PullVault
  <2> QED BY <1>4, <2>4 DEF PullVault, TypeOK, ServerTypeOK
<1>5. CASE SyncFails(d, t)
  <2>1. [t EXCEPT !.pc = "err", !.rows = {}] \in SyncTask
    BY <1>0 DEF SyncTask
  <2>2. syncs' \in [Devices -> SUBSET SyncTask]
    BY <1>5, <2>1, NextSyncType DEF SyncFails
  <2>3. late' \subseteq Request
    <3>1. \A v \in t.todoVault : SealVault(t.user, v) \in VaultEntry
      BY <1>0, SealType
    <3>2. \A h \in t.todoHosts : SealHost(t.user, h) \in SealedHost
      BY <1>0, SealType
    <3>3. \A v \in t.todoVault :
            [op |-> "putVault", user |-> t.user, row |-> SealVault(t.user, v)] \in Request
      BY <1>0, <3>1 DEF Request
    <3>4. \A h \in t.todoHosts :
            [op |-> "putHost", user |-> t.user, row |-> SealHost(t.user, h)] \in Request
      BY <1>0, <3>2 DEF Request
    <3>5. late \subseteq Request
      BY DEF TypeOK
    <3> QED BY <1>5, <3>3, <3>4, <3>5 DEF SyncFails
  <2>4. faults' \in 0..MaxFaults
    BY <1>5, CountsAssumption DEF SyncFails, TypeOK, Fault
  <2> QED BY <1>5, <2>2, <2>3, <2>4 DEF SyncFails, TypeOK, ServerTypeOK
<1>6. CASE OnPulled(d, t)
  <2> DEFINE st == merge_remote(local[d], t.gotHosts, t.gotVault)
  <2>1. st \in LocalState
    <3>1. /\ local[d].hosts \in SUBSET HostConfig
          /\ local[d].vault \in SUBSET LocalVaultEntry
          /\ t.gotHosts \in SUBSET HostConfig
          /\ t.gotVault \in SUBSET LocalVaultEntry
      BY <1>0 DEF TypeOK, LocalState
    <3>2. MergeHosts(local[d].hosts, t.gotHosts) \in SUBSET HostConfig
      BY <3>1 DEF MergeHosts
    <3>3. MergeVault(local[d].vault, t.gotVault) \in SUBSET LocalVaultEntry
      BY <3>1 DEF MergeVault
    <3> QED BY <3>2, <3>3 DEF merge_remote, LocalState
  <2>2. /\ local' = [local EXCEPT ![d] = st] /\ Save(d, st) /\ Refresh(d, st)
    BY <1>6 DEF OnPulled
  <2> HIDE DEF st
  <2>3. disk' \in [Devices -> Option(LocalState)] /\ faults' \in 0..MaxFaults
    BY <2>1, <2>2, SaveType
  <2>4. shown' \in [Devices -> SUBSET Ids]
    BY <2>1, <2>2, RefreshType
  <2>5. local' \in [Devices -> LocalState]
    BY <2>1, <2>2 DEF TypeOK
  <2>6. syncs' \in [Devices -> SUBSET SyncTask] /\ busy' \in [Devices -> BOOLEAN]
    BY <1>6 DEF OnPulled, TypeOK
  <2> QED BY <1>6, <2>3, <2>4, <2>5, <2>6 DEF OnPulled, TypeOK, ServerTypeOK
<1>7. CASE OnSyncFailed(d, t)
  <2>1. syncs' \in [Devices -> SUBSET SyncTask] /\ busy' \in [Devices -> BOOLEAN]
    BY <1>7 DEF OnSyncFailed, TypeOK
  <2> QED BY <1>7, <2>1 DEF OnSyncFailed, TypeOK, ServerTypeOK
<1> QED BY <1>1, <1>2, <1>3, <1>4, <1>5, <1>6, <1>7

(* Steps of a deletion.                                                    *)
LEMMA TypeDeletion ==
  ASSUME TypeOK, NEW d \in Devices, DeletionStep(d)
  PROVE  TypeOK'
<1> USE DEF serverVars, uiVars, taskVars, countVars
<1> PICK t \in deletions[d] :
      \/ DeleteHostServed(d, t) \/ DeleteVaultServed(d, t)
      \/ DeletionFails(d, t) \/ OnDeleted(d, t)
  BY DEF DeletionStep
<1>0. /\ t \in Deletion /\ t.user \in Users /\ t.id \in Ids
      /\ t.vault_id \subseteq Ids
  BY DEF TypeOK, Deletion, Option
<1>1. ASSUME NEW pc \in {"vault", "ok", "err"}, NextDeletion(d, t, pc)
      PROVE  deletions' \in [Devices -> SUBSET Deletion]
  <2>1. [t EXCEPT !.pc = pc] \in Deletion
    BY <1>0 DEF Deletion
  <2> QED BY <1>1, <2>1 DEF TypeOK, NextDeletion, Replace
<1>2. CASE DeleteHostServed(d, t)
  <2>1. deletions' \in [Devices -> SUBSET Deletion]
    BY <1>1, <1>2 DEF DeleteHostServed
  <2>2. hostTable' \in [Users -> SUBSET SealedHost] /\ removedHosts' \subseteq Ids
    BY <1>0, <1>2 DEF DeleteHostServed, DeleteHostRow, Remove, TypeOK, ServerTypeOK
  <2> QED BY <1>2, <2>1, <2>2 DEF DeleteHostServed, DeleteHostRow, TypeOK, ServerTypeOK
<1>3. CASE DeleteVaultServed(d, t)
  <2>1. deletions' \in [Devices -> SUBSET Deletion]
    BY <1>1, <1>3 DEF DeleteVaultServed
  <2>2. PICK v \in t.vault_id : DeleteVaultEntry(t.user, v)
    BY <1>3 DEF DeleteVaultServed
  <2>3. vaultTable' \in [Users -> SUBSET VaultEntry] /\ removedVault' \subseteq Ids
    BY <1>0, <2>2 DEF DeleteVaultEntry, Remove, TypeOK, ServerTypeOK
  <2> QED BY <1>3, <2>1, <2>2, <2>3 DEF DeleteVaultServed, DeleteVaultEntry, TypeOK, ServerTypeOK
<1>4. CASE DeletionFails(d, t)
  <2>1. deletions' \in [Devices -> SUBSET Deletion]
    BY <1>1, <1>4 DEF DeletionFails
  <2>2. late' \subseteq Request
    <3>1. [op |-> "deleteHost", user |-> t.user, id |-> t.id] \in Request
      BY <1>0 DEF Request
    <3>2. \A v \in t.vault_id : [op |-> "deleteVault", user |-> t.user, id |-> v] \in Request
      BY <1>0 DEF Request
    <3>3. late \subseteq Request
      BY DEF TypeOK
    <3> QED BY <1>4, <3>1, <3>2, <3>3 DEF DeletionFails
  <2>3. faults' \in 0..MaxFaults
    BY <1>4, CountsAssumption DEF DeletionFails, TypeOK, Fault
  <2> QED BY <1>4, <2>1, <2>2, <2>3 DEF DeletionFails, TypeOK, ServerTypeOK
<1>5. CASE OnDeleted(d, t)
  <2>1. local[d] \in LocalState
    BY DEF TypeOK
  <2>2. shown' \in [Devices -> SUBSET Ids]
    BY <1>5, <2>1, RefreshType DEF OnDeleted, TypeOK
  <2>3. deletions' \in [Devices -> SUBSET Deletion] /\ busy' \in [Devices -> BOOLEAN]
    BY <1>5 DEF OnDeleted, TypeOK
  <2> QED BY <1>5, <2>2, <2>3 DEF OnDeleted, TypeOK, ServerTypeOK
<1> QED BY <1>2, <1>3, <1>4, <1>5

(* What each kind of request is.                                           *)
LEMMA RequestKinds ==
  ASSUME NEW q \in Request
  PROVE  /\ q.user \in Users
         /\ q.op = "putHost" => q.row \in SealedHost
         /\ q.op = "putVault" => q.row \in VaultEntry
         /\ q.op \in {"deleteHost", "deleteVault"} => q.id \in Ids
BY DEF Request

LEMMA TypeLate ==
  ASSUME TypeOK, NEW q \in late, LateServed(q)
  PROVE  TypeOK'
<1> USE DEF serverVars, uiVars, taskVars, countVars
<1>0. q \in Request /\ late' \subseteq Request /\ Serve(q)
  BY DEF TypeOK, LateServed
<1>1. CASE q.op = "register" /\ CreateUser(q.user)
  BY <1>0, <1>1, RequestKinds DEF CreateUser, LateServed, TypeOK, ServerTypeOK
<1>2. CASE q.op = "putHost" /\ UpsertHost(q.user, q.row)
  <2>1. q.user \in Users /\ q.row \in SealedHost
    BY <1>0, <1>2, RequestKinds
  <2>3. hostTable' \in [Users -> SUBSET SealedHost]
    BY <1>2, <2>1, UpsertHostType
  <2> QED BY <1>0, <1>2, <2>3 DEF UpsertHost, LateServed, TypeOK, ServerTypeOK
<1>3. CASE q.op = "putVault" /\ UpsertVaultEntry(q.user, q.row)
  <2>1. q.user \in Users /\ q.row \in VaultEntry
    BY <1>0, <1>3, RequestKinds
  <2>3. vaultTable' \in [Users -> SUBSET VaultEntry]
    BY <1>3, <2>1, UpsertVaultType
  <2> QED BY <1>0, <1>3, <2>3 DEF UpsertVaultEntry, LateServed, TypeOK, ServerTypeOK
<1>4. CASE q.op = "deleteHost" /\ DeleteHostRow(q.user, q.id)
  <2>1. q.id \in Ids
    BY <1>0, <1>4, RequestKinds
  <2> QED BY <1>0, <1>4, <2>1 DEF DeleteHostRow, Remove, LateServed, TypeOK, ServerTypeOK
<1>5. CASE q.op = "deleteVault" /\ DeleteVaultEntry(q.user, q.id)
  <2>1. q.id \in Ids
    BY <1>0, <1>5, RequestKinds
  <2> QED BY <1>0, <1>5, <2>1 DEF DeleteVaultEntry, Remove, LateServed, TypeOK, ServerTypeOK
<1> QED BY <1>0, <1>1, <1>2, <1>3, <1>4, <1>5 DEF Serve

LEMMA TypeNext ==
  ASSUME TypeOK, KeysUnique, [Next]_vars
  PROVE  TypeOK'
<1>1. ASSUME NEW d \in Devices,
             SignInStep(d) \/ SyncStep(d) \/ DeletionStep(d) \/ UserStep(d)
      PROVE  TypeOK'
  BY <1>1, TypeSignIn, TypeSync, TypeDeletion, TypeUser
<1>2. ASSUME NEW q \in late, LateServed(q)
      PROVE  TypeOK'
  BY <1>2, TypeLate
<1>3. CASE UNCHANGED vars
  BY <1>3 DEF vars, serverVars, uiVars, taskVars, countVars, TypeOK, ServerTypeOK
<1> QED BY <1>1, <1>2, <1>3 DEF Next

-----------------------------------------------------------------------------
(* No two rows of a list share an id.                                      *)

LEMMA UniqueUpsert ==
  ASSUME NEW rows, UniqueIds(rows), NEW r
  PROVE  UniqueIds(Upsert(rows, r)) /\ UniqueIds(PutNewer(rows, r))
BY DEF UniqueIds, Upsert, PutNewer

LEMMA UniqueSubset ==
  ASSUME NEW rows, UniqueIds(rows), NEW some \in SUBSET rows
  PROVE  UniqueIds(some)
BY DEF UniqueIds

LEMMA UniqueMergeVault ==
  ASSUME NEW ours, NEW pulled, UniqueIds(ours), UniqueIds(pulled)
  PROVE  UniqueIds(MergeVault(ours, pulled))
BY DEF UniqueIds, MergeVault, IdsOf

LEMMA UniqueMergeHosts ==
  ASSUME NEW ours \in SUBSET HostConfig, NEW pulled \in SUBSET HostConfig,
         UniqueIds(ours), UniqueIds(pulled)
  PROVE  UniqueIds(MergeHosts(ours, pulled))
<1>1. \A h \in HostConfig : h.updated_at \in Int
  BY DEF HostConfig, Times
<1> QED BY <1>1 DEF UniqueIds, MergeHosts

KeysOf(st) == UniqueIds(st.hosts) /\ UniqueIds(st.vault)

(* KeysUnique with what a sync carries to a merge.                         *)
KeysInv ==
  /\ KeysUnique
  /\ \A d \in Devices : \A t \in syncs[d] :
       UniqueIds(t.rows) /\ UniqueIds(t.gotHosts) /\ UniqueIds(t.gotVault)

DeviceKeys ==
  \A d \in Devices : KeysOf(local[d]) /\ \A st \in disk[d] : KeysOf(st)
ServerKeys ==
  \A u \in Users : UniqueIds(hostTable[u]) /\ UniqueIds(vaultTable[u])
SyncKeys ==
  \A d \in Devices : \A t \in syncs[d] :
    UniqueIds(t.rows) /\ UniqueIds(t.gotHosts) /\ UniqueIds(t.gotVault)

LEMMA KeysParts ==
  /\ KeysInv <=> DeviceKeys /\ ServerKeys /\ SyncKeys
  /\ KeysInv' <=> DeviceKeys' /\ ServerKeys' /\ SyncKeys'
BY DEF KeysInv, KeysUnique, DeviceKeys, ServerKeys, SyncKeys, KeysOf

LEMMA SavedKeys ==
  ASSUME TypeOK, DeviceKeys, NEW d \in Devices, NEW st, KeysOf(st), Save(d, st),
         local' = [local EXCEPT ![d] = st] \/ UNCHANGED local
  PROVE  DeviceKeys'
<1>1. \A e \in Devices : KeysOf(local'[e])
  BY DEF TypeOK, DeviceKeys
<1>2. \A e \in Devices : \A x \in disk'[e] : KeysOf(x)
  BY DEF TypeOK, DeviceKeys, Save
<1> QED BY <1>1, <1>2 DEF DeviceKeys, KeysOf

LEMMA SpawnKeys ==
  ASSUME TypeOK, SyncKeys, NEW d \in Devices, NEW u \in Users, SpawnSync(d, u)
  PROVE  SyncKeys'
<1>1. UniqueIds({})
  BY DEF UniqueIds
<1>2. PICK n \in Slots : syncs' = [syncs EXCEPT ![d] = @ \cup {NewSync(n, u, local[d])}]
  BY DEF SpawnSync
<1> DEFINE new == NewSync(n, u, local[d])
<1>3. UniqueIds(new.rows) /\ UniqueIds(new.gotHosts) /\ UniqueIds(new.gotVault)
  BY <1>1 DEF NewSync
<1> HIDE DEF new
<1>4. syncs \in [Devices -> SUBSET SyncTask]
  BY DEF TypeOK
<1>5. ASSUME NEW e \in Devices, NEW t \in syncs'[e]
      PROVE  t \in syncs[e] \/ t = new
  BY <1>2, <1>4, <1>5 DEF new
<1> QED BY <1>3, <1>5 DEF SyncKeys

LEMMA NextSyncKeys ==
  ASSUME TypeOK, SyncKeys, NEW d \in Devices, NEW t \in syncs[d], NEW new,
         UniqueIds(new.rows), UniqueIds(new.gotHosts), UniqueIds(new.gotVault),
         NextSync(d, t, new)
  PROVE  SyncKeys'
BY DEF TypeOK, SyncKeys, NextSync, Replace

LEMMA KeysInit == Init => KeysInv
BY DEF Init, ServerInit, DefaultState, KeysInv, KeysUnique, UniqueIds

LEMMA KeysSignIn ==
  ASSUME TypeOK, KeysInv, NEW d \in Devices, SignInStep(d)
  PROVE  KeysInv'
<1> USE DEF serverVars, uiVars, taskVars, countVars
<1>0. DeviceKeys /\ ServerKeys /\ SyncKeys
  BY KeysParts
<1> PICK t \in signIns[d] :
      \/ RegisterServed(d, t) \/ LoginServed(d, t) \/ SignInFails(d, t)
      \/ OnSignedIn(d, t) \/ OnSignInFailed(d, t)
  BY DEF SignInStep
<1>1. CASE RegisterServed(d, t) \/ LoginServed(d, t) \/ SignInFails(d, t)
           \/ OnSignInFailed(d, t)
  <2>1. UNCHANGED <<local, disk, hostTable, vaultTable, syncs>>
    BY <1>1 DEF RegisterServed, LoginServed, SignInFails, OnSignInFailed, CreateUser
  <2> QED BY <2>1 DEF KeysInv, KeysUnique
<1>2. CASE OnSignedIn(d, t)
  <2>1. t.user \in Users
    BY DEF TypeOK, SignIn
  <2>2. SyncKeys'
    BY <1>0, <1>2, <2>1, SpawnKeys DEF OnSignedIn
  <2>3. DeviceKeys'
    BY <1>0, <1>2, SavedKeys DEF OnSignedIn, DeviceKeys
  <2>4. ServerKeys'
    BY <1>0, <1>2 DEF OnSignedIn, ServerKeys
  <2> QED BY <2>2, <2>3, <2>4, KeysParts
<1> QED BY <1>1, <1>2

LEMMA KeysUser ==
  ASSUME TypeOK, KeysInv, NEW d \in Devices, UserStep(d)
  PROVE  KeysInv'
<1> USE DEF serverVars, uiVars, taskVars, countVars
<1>0. DeviceKeys /\ ServerKeys /\ SyncKeys /\ KeysOf(local[d])
  BY KeysParts DEF DeviceKeys
<1>1. ASSUME UNCHANGED <<local, disk, hostTable, vaultTable, syncs>>
      PROVE  KeysInv'
  BY <1>1 DEF KeysInv, KeysUnique
<1>2. ASSUME UNCHANGED <<hostTable, vaultTable, syncs>>, DeviceKeys'
      PROVE  KeysInv'
  BY <1>0, <1>2, KeysParts DEF ServerKeys, SyncKeys
<1>3. ASSUME NEW u \in Users, NEW op \in {"login", "register"}, ClickSignIn(d, u, op)
      PROVE  KeysInv'
  BY <1>1, <1>3 DEF ClickSignIn
<1>4. CASE ClickSync(d)
  <2>1. PICK u \in account[d] : SpawnSync(d, u)
    BY <1>4 DEF ClickSync
  <2>2. SyncKeys'
    BY <1>0, <2>1, SpawnKeys DEF TypeOK, Option
  <2> QED BY <1>0, <1>4, <2>2, KeysParts DEF ClickSync, DeviceKeys, ServerKeys
<1>5. CASE ClickLogout(d) \/ ClickSearch(d) \/ ClickNewHost(d)
  BY <1>1, <1>5 DEF ClickLogout, ClickSearch, ClickNewHost
<1>6. ASSUME NEW id \in shown[d], ClickEdit(d, id)
      PROVE  KeysInv'
  BY <1>1, <1>6 DEF ClickEdit
<1>7. ASSUME NEW id \in shown[d], ClickDelete(d, id)
      PROVE  KeysInv'
  <2> DEFINE st == delete_host(local[d], id)
  <2>1. st.hosts \subseteq local[d].hosts /\ st.vault \subseteq local[d].vault
    BY DEF delete_host, Remove
  <2>2. KeysOf(st)
    BY <1>0, <2>1, UniqueSubset DEF KeysOf
  <2>3. local' = [local EXCEPT ![d] = st] /\ Save(d, st)
    BY <1>7 DEF ClickDelete
  <2> HIDE DEF st
  <2>4. DeviceKeys'
    BY <1>0, <2>2, <2>3, SavedKeys
  <2> QED BY <1>2, <1>7, <2>4 DEF ClickDelete
<1>8. ASSUME NEW form \in Forms, NEW now \in Times, SaveHost(d, form, now)
      PROVE  KeysInv'
  <2> DEFINE host == SavedHost(d, form, now)
             entries == SavedEntries(d, form, now)
             vault == MergeVault(local[d].vault, entries)
             st == upsert_host([local[d] EXCEPT !.vault = vault], host)
  <2>1. UniqueIds(entries)
    BY DEF SavedEntries, UniqueIds
  <2>2. local[d] \in LocalState
    BY DEF TypeOK
  <2>3. st.hosts = Upsert(local[d].hosts, host) /\ st.vault = MergeVault(local[d].vault, entries)
    BY <2>2 DEF upsert_host, LocalState
  <2>4. KeysOf(st)
    BY <1>0, <2>1, <2>3, UniqueUpsert, UniqueMergeVault DEF KeysOf
  <2>5. local' = [local EXCEPT ![d] = st] /\ Save(d, st)
    BY <1>8 DEF SaveHost
  <2> HIDE DEF st
  <2>6. DeviceKeys'
    BY <1>0, <2>4, <2>5, SavedKeys
  <2> QED BY <1>2, <1>8, <2>6 DEF SaveHost
<1>9. CASE SavePreferences(d)
  <2>1. DeviceKeys'
    BY <1>0, <1>9, SavedKeys DEF SavePreferences
  <2> QED BY <1>2, <1>9, <2>1 DEF SavePreferences
<1>10. CASE Restart(d)
  <2>1. KeysOf(Load(disk[d]))
    BY <1>0 DEF Load, DeviceKeys, KeysOf, UniqueIds, DefaultState
  <2>2. DeviceKeys'
    BY <1>0, <1>10, <2>1 DEF Restart, DeviceKeys, KeysOf, TypeOK
  <2>3. SyncKeys'
    BY <1>0, <1>10 DEF Restart, SyncKeys, TypeOK
  <2> QED BY <1>0, <1>10, <2>2, <2>3, KeysParts DEF Restart, ServerKeys
<1> QED BY <1>3, <1>4, <1>5, <1>6, <1>7, <1>8, <1>9, <1>10 DEF UserStep

(* The server's writes keep its keys unique.                               *)
LEMMA UpsertHostKeys ==
  ASSUME TypeOK, ServerKeys, NEW u \in Users, NEW row, UpsertHost(u, row)
  PROVE  ServerKeys'
<1>1. hostTable' = [hostTable EXCEPT ![u] = PutNewer(hostTable[u], row)]
      /\ UNCHANGED vaultTable
  BY DEF UpsertHost
<1>2. UniqueIds(PutNewer(hostTable[u], row))
  BY UniqueUpsert DEF ServerKeys
<1> QED BY <1>1, <1>2 DEF ServerKeys, TypeOK, ServerTypeOK

LEMMA UpsertVaultKeys ==
  ASSUME TypeOK, ServerKeys, NEW u \in Users, NEW row, UpsertVaultEntry(u, row)
  PROVE  ServerKeys'
<1>1. vaultTable' = [vaultTable EXCEPT ![u] = PutNewer(vaultTable[u], row)]
      /\ UNCHANGED hostTable
  BY DEF UpsertVaultEntry
<1>2. UniqueIds(PutNewer(vaultTable[u], row))
  BY UniqueUpsert DEF ServerKeys
<1> QED BY <1>1, <1>2 DEF ServerKeys, TypeOK, ServerTypeOK

LEMMA DeleteKeys ==
  ASSUME TypeOK, ServerKeys, NEW u \in Users, NEW id,
         DeleteHostRow(u, id) \/ DeleteVaultEntry(u, id)
  PROVE  ServerKeys'
BY DEF DeleteHostRow, DeleteVaultEntry, Remove, UniqueIds, ServerKeys, TypeOK, ServerTypeOK

LEMMA KeysSync ==
  ASSUME TypeOK, KeysInv, NEW d \in Devices, SyncStep(d)
  PROVE  KeysInv'
<1> USE DEF serverVars, uiVars, taskVars, countVars
<1>0. DeviceKeys /\ ServerKeys /\ SyncKeys
  BY KeysParts
<1> PICK t \in syncs[d] :
      \/ \E v \in t.todoVault : PushVault(d, t, v)
      \/ \E h \in t.todoHosts : PushHost(d, t, h)
      \/ PullHosts(d, t) \/ PullVault(d, t) \/ SyncFails(d, t)
      \/ OnPulled(d, t) \/ OnSyncFailed(d, t)
  BY DEF SyncStep
<1>1. /\ t \in SyncTask /\ t.user \in Users
      /\ UniqueIds(t.rows) /\ UniqueIds(t.gotHosts) /\ UniqueIds(t.gotVault)
      /\ UniqueIds({})
  BY <1>0 DEF SyncKeys, TypeOK, SyncTask, UniqueIds
<1>2. ASSUME UNCHANGED <<local, disk>>, ServerKeys', SyncKeys'
      PROVE  KeysInv'
  BY <1>0, <1>2, KeysParts DEF DeviceKeys
<1>3. ASSUME UNCHANGED <<hostTable, vaultTable>>
      PROVE  ServerKeys'
  BY <1>0, <1>3 DEF ServerKeys
<1>4. ASSUME NEW v \in t.todoVault, PushVault(d, t, v)
      PROVE  KeysInv'
  <2> DEFINE new == [t EXCEPT !.todoVault = @ \ {v}]
  <2>1. new.rows = t.rows /\ new.gotHosts = t.gotHosts /\ new.gotVault = t.gotVault
    BY <1>1 DEF SyncTask
  <2>2. NextSync(d, t, new)
    BY <1>4 DEF PushVault
  <2> HIDE DEF new
  <2>3. SyncKeys'
    BY <1>0, <1>1, <2>1, <2>2, NextSyncKeys
  <2>4. ServerKeys'
    BY <1>0, <1>1, <1>4, UpsertVaultKeys DEF PushVault
  <2> QED BY <1>2, <1>4, <2>3, <2>4 DEF PushVault
<1>5. ASSUME NEW h \in t.todoHosts, PushHost(d, t, h)
      PROVE  KeysInv'
  <2> DEFINE new == [t EXCEPT !.todoHosts = @ \ {h}]
  <2>1. new.rows = t.rows /\ new.gotHosts = t.gotHosts /\ new.gotVault = t.gotVault
    BY <1>1 DEF SyncTask
  <2>2. NextSync(d, t, new)
    BY <1>5 DEF PushHost
  <2> HIDE DEF new
  <2>3. SyncKeys'
    BY <1>0, <1>1, <2>1, <2>2, NextSyncKeys
  <2>4. ServerKeys'
    BY <1>0, <1>1, <1>5, UpsertHostKeys DEF PushHost
  <2> QED BY <1>2, <1>5, <2>3, <2>4 DEF PushHost
<1>6. CASE PullHosts(d, t)
  <2> DEFINE new == [t EXCEPT !.pc = "pullVault", !.rows = hostTable[t.user]]
  <2>1. new.rows = hostTable[t.user] /\ new.gotHosts = t.gotHosts /\ new.gotVault = t.gotVault
    BY <1>1 DEF SyncTask
  <2>2. NextSync(d, t, new)
    BY <1>6 DEF PullHosts
  <2> HIDE DEF new
  <2>3. UniqueIds(hostTable[t.user])
    BY <1>0, <1>1 DEF ServerKeys
  <2>4. SyncKeys'
    BY <1>0, <1>1, <2>1, <2>2, <2>3, NextSyncKeys
  <2> QED BY <1>2, <1>3, <1>6, <2>4 DEF PullHosts
<1>7. CASE PullVault(d, t)
  <2> DEFINE V == vaultTable[t.user]
             new == IF AllOpen(t, V) THEN Pulled(t, V) ELSE [t EXCEPT !.pc = "err", !.rows = {}]
  <2>1. UniqueIds(V) /\ V \subseteq VaultEntry /\ t.rows \subseteq SealedHost
    BY <1>0, <1>1 DEF ServerKeys, TypeOK, ServerTypeOK, SyncTask
  <2>2. UniqueIds({OpenHost(r) : r \in t.rows})
    <3>1. \A r \in t.rows : OpenHost(r).id = r.id
      BY <2>1 DEF OpenHost, SealedHost
    <3> QED BY <1>1, <3>1 DEF UniqueIds
  <2>3. UniqueIds({OpenVault(v) : v \in V})
    BY <2>1 DEF UniqueIds, OpenVault
  <2>4. UniqueIds(new.rows) /\ UniqueIds(new.gotHosts) /\ UniqueIds(new.gotVault)
    BY <1>1, <2>2, <2>3 DEF Pulled, SyncTask
  <2>5. NextSync(d, t, new)
    BY <1>7 DEF PullVault
  <2> HIDE DEF new
  <2>6. SyncKeys'
    BY <1>0, <2>4, <2>5, NextSyncKeys
  <2> QED BY <1>2, <1>3, <1>7, <2>6 DEF PullVault
<1>8. CASE SyncFails(d, t)
  <2> DEFINE new == [t EXCEPT !.pc = "err", !.rows = {}]
  <2>1. new.rows = {} /\ new.gotHosts = t.gotHosts /\ new.gotVault = t.gotVault
    BY <1>1 DEF SyncTask
  <2>2. NextSync(d, t, new)
    BY <1>8 DEF SyncFails
  <2> HIDE DEF new
  <2>3. SyncKeys'
    BY <1>0, <1>1, <2>1, <2>2, NextSyncKeys
  <2> QED BY <1>2, <1>3, <1>8, <2>3 DEF SyncFails
<1>9. CASE OnPulled(d, t)
  <2> DEFINE st == merge_remote(local[d], t.gotHosts, t.gotVault)
  <2>1. KeysOf(st)
    <3>1. local[d].hosts \in SUBSET HostConfig /\ t.gotHosts \in SUBSET HostConfig
      BY <1>1 DEF TypeOK, LocalState, SyncTask
    <3>2. UniqueIds(local[d].hosts) /\ UniqueIds(local[d].vault)
      BY <1>0 DEF DeviceKeys, KeysOf
    <3>3. UniqueIds(MergeHosts(local[d].hosts, t.gotHosts))
      BY <1>1, <3>1, <3>2, UniqueMergeHosts
    <3>4. UniqueIds(MergeVault(local[d].vault, t.gotVault))
      BY <1>1, <3>2, UniqueMergeVault
    <3> QED BY <3>3, <3>4 DEF KeysOf, merge_remote
  <2>2. local' = [local EXCEPT ![d] = st] /\ Save(d, st)
    BY <1>9 DEF OnPulled
  <2> HIDE DEF st
  <2>3. DeviceKeys'
    BY <1>0, <2>1, <2>2, SavedKeys
  <2>4. SyncKeys'
    BY <1>0, <1>9 DEF OnPulled, SyncKeys, TypeOK
  <2> QED BY <1>3, <1>9, <2>3, <2>4, KeysParts DEF OnPulled
<1>10. CASE OnSyncFailed(d, t)
  <2>1. SyncKeys'
    BY <1>0, <1>10 DEF OnSyncFailed, SyncKeys, TypeOK
  <2> QED BY <1>2, <1>3, <1>10, <2>1 DEF OnSyncFailed
<1> QED BY <1>4, <1>5, <1>6, <1>7, <1>8, <1>9, <1>10

LEMMA KeysDeletion ==
  ASSUME TypeOK, KeysInv, NEW d \in Devices, DeletionStep(d)
  PROVE  KeysInv'
<1> USE DEF serverVars, uiVars, taskVars, countVars
<1>0. DeviceKeys /\ ServerKeys /\ SyncKeys
  BY KeysParts
<1> PICK t \in deletions[d] :
      \/ DeleteHostServed(d, t) \/ DeleteVaultServed(d, t)
      \/ DeletionFails(d, t) \/ OnDeleted(d, t)
  BY DEF DeletionStep
<1>1. t.user \in Users
  BY DEF TypeOK, Deletion
<1>2. UNCHANGED <<local, disk, syncs>>
  BY DEF DeleteHostServed, DeleteVaultServed, DeletionFails, OnDeleted,
         DeleteHostRow, DeleteVaultEntry
<1>3. ServerKeys'
  <2>1. CASE DeleteHostServed(d, t)
    BY <1>0, <1>1, <2>1, DeleteKeys DEF DeleteHostServed
  <2>2. CASE DeleteVaultServed(d, t)
    BY <1>0, <1>1, <2>2, DeleteKeys DEF DeleteVaultServed
  <2>3. CASE DeletionFails(d, t) \/ OnDeleted(d, t)
    BY <1>0, <2>3 DEF DeletionFails, OnDeleted, ServerKeys
  <2> QED BY <2>1, <2>2, <2>3
<1> QED BY <1>0, <1>2, <1>3, KeysParts DEF DeviceKeys, SyncKeys

LEMMA KeysLate ==
  ASSUME TypeOK, KeysInv, NEW q \in late, LateServed(q)
  PROVE  KeysInv'
<1> USE DEF serverVars, uiVars, taskVars, countVars
<1>0. DeviceKeys /\ ServerKeys /\ SyncKeys
  BY KeysParts
<1>1. q.user \in Users
  BY RequestKinds DEF TypeOK
<1>2. UNCHANGED <<local, disk, syncs>> /\ Serve(q)
  BY DEF LateServed
<1>3. ServerKeys'
  BY <1>0, <1>1, <1>2, UpsertHostKeys, UpsertVaultKeys, DeleteKeys
     DEF Serve, CreateUser, ServerKeys
<1> QED BY <1>0, <1>2, <1>3, KeysParts DEF DeviceKeys, SyncKeys

LEMMA KeysNext ==
  ASSUME TypeOK, KeysInv, [Next]_vars
  PROVE  KeysInv'
<1>1. ASSUME NEW d \in Devices,
             SignInStep(d) \/ SyncStep(d) \/ DeletionStep(d) \/ UserStep(d)
      PROVE  KeysInv'
  BY <1>1, KeysSignIn, KeysSync, KeysDeletion, KeysUser
<1>2. ASSUME NEW q \in late, LateServed(q)
      PROVE  KeysInv'
  BY <1>2, KeysLate
<1>3. CASE UNCHANGED vars
  BY <1>3 DEF vars, serverVars, uiVars, taskVars, KeysInv, KeysUnique
<1> QED BY <1>1, <1>2, <1>3 DEF Next

-----------------------------------------------------------------------------
(* Every state of every behaviour is well typed.  SaveHost and ClickDelete *)
(* look a host up by its id, so this rests on the keys being unique.       *)
THEOREM TypeCorrect == Spec => []TypeOK
<1>1. Init => TypeOK /\ KeysInv
  BY TypeInit, KeysInit
<1>2. TypeOK /\ KeysInv /\ [Next]_vars => TypeOK' /\ KeysInv'
  BY TypeNext, KeysNext DEF KeysInv
<1> QED BY <1>1, <1>2, PTL DEF Spec

(* On every device, in every state file and on the server, ids stay unique *)
(* through any interleaving of saves, deletions, syncs and late requests.  *)
THEOREM KeysStayUnique == Spec => []KeysUnique
<1>1. Init => TypeOK /\ KeysInv
  BY TypeInit, KeysInit
<1>2. TypeOK /\ KeysInv /\ [Next]_vars => TypeOK' /\ KeysInv'
  BY TypeNext, KeysNext DEF KeysInv
<1>3. KeysInv => KeysUnique
  BY DEF KeysInv
<1> QED BY <1>1, <1>2, <1>3, PTL DEF Spec
-----------------------------------------------------------------------------
(* A host's link to its vault entry dangles only if the entry was deleted: *)
(* the inductive invariant follows the links through every copy, on a      *)
(* device, in a file, in a sync, in a late request and on the server.      *)

(* The entries an account has or had: a link into this set is in order.    *)
Covered(u) == IdsOf(vaultTable[u]) \cup removedVault

DeviceLinks ==
  \A d \in Devices :
    /\ Resolves(local[d].hosts, local[d].vault)
    /\ \A st \in disk[d] : Resolves(st.hosts, st.vault)

ServerLinks == \A u \in Users : Linked(hostTable[u]) \subseteq Covered(u)

(* While a sync pushes, each entry is still to be sent or has arrived.     *)
TaskLinks(t) ==
  /\ Resolves(t.hosts, t.vault)
  /\ t.todoHosts \subseteq t.hosts
  /\ t.pc = "push" => IdsOf(t.vault) \subseteq IdsOf(t.todoVault) \cup Covered(t.user)
  /\ t.pc = "pullVault" => Linked(t.rows) \subseteq Covered(t.user)
  /\ t.pc = "ok" => Resolves(t.gotHosts, t.gotVault)

SyncLinks == \A d \in Devices : \A t \in syncs[d] : TaskLinks(t)

LateLinks ==
  \A q \in late : q.op = "putHost" => q.row.key_password_id \subseteq Covered(q.user)

LinksInv == DeviceLinks /\ ServerLinks /\ SyncLinks /\ LateLinks

(* Covered only grows.                                                     *)
Grows ==
  /\ removedVault \subseteq removedVault'
  /\ \A u \in Users : Covered(u) \subseteq Covered(u)'

-----------------------------------------------------------------------------
LEMMA LinkedMember ==
  ASSUME NEW hosts, NEW x
  PROVE  x \in Linked(hosts) <=> \E h \in hosts : x \in h.key_password_id
BY DEF Linked

LEMMA LinkedSubset ==
  ASSUME NEW hosts, NEW S
  PROVE  Linked(hosts) \subseteq S <=> \A h \in hosts : h.key_password_id \subseteq S
BY DEF Linked

LEMMA SealLinks ==
  /\ \A u \in Users, h \in HostConfig : SealHost(u, h).key_password_id = h.key_password_id
  /\ \A r \in SealedHost : OpenHost(r).key_password_id = r.key_password_id
BY DEF SealHost, OpenHost, HostConfig, SealedHost

LEMMA GrowsNext ==
  ASSUME TypeOK, [Next]_vars
  PROVE  Grows
<1> USE DEF serverVars, uiVars, taskVars, countVars
<1>1. ASSUME UNCHANGED <<vaultTable, removedVault>>
      PROVE  Grows
  BY <1>1 DEF Grows, Covered
<1>2. ASSUME NEW u \in Users, NEW row, UpsertVaultEntry(u, row)
      PROVE  Grows
  <2>1. /\ vaultTable' = [vaultTable EXCEPT ![u] = PutNewer(vaultTable[u], row)]
        /\ UNCHANGED removedVault
    BY <1>2 DEF UpsertVaultEntry
  <2>2. IdsOf(vaultTable[u]) \subseteq IdsOf(PutNewer(vaultTable[u], row))
    BY DEF IdsOf, PutNewer, Upsert
  <2> QED BY <2>1, <2>2 DEF Grows, Covered, TypeOK, ServerTypeOK
<1>3. ASSUME NEW u \in Users, NEW id, DeleteVaultEntry(u, id)
      PROVE  Grows
  <2>1. /\ vaultTable' = [vaultTable EXCEPT ![u] = Remove(vaultTable[u], id)]
        /\ removedVault' = removedVault \cup {id}
    BY <1>3 DEF DeleteVaultEntry
  <2>2. IdsOf(vaultTable[u]) \subseteq IdsOf(Remove(vaultTable[u], id)) \cup {id}
    BY DEF IdsOf, Remove
  <2> QED BY <2>1, <2>2 DEF Grows, Covered, TypeOK, ServerTypeOK
<1>4. ASSUME NEW d \in Devices, SignInStep(d) \/ UserStep(d)
      PROVE  Grows
  <2>1. UNCHANGED <<vaultTable, removedVault>>
    BY <1>4 DEF SignInStep, UserStep, RegisterServed, LoginServed, SignInFails, OnSignedIn,
       OnSignInFailed, CreateUser, ClickSignIn, ClickSync, ClickLogout, ClickSearch,
       ClickNewHost, ClickEdit, ClickDelete, SaveHost, SavePreferences, Restart
  <2> QED BY <1>1, <2>1
<1>5. ASSUME NEW d \in Devices, SyncStep(d)
      PROVE  Grows
  <2>1. PICK t \in syncs[d] :
          \/ \E v \in t.todoVault : PushVault(d, t, v)
          \/ \E h \in t.todoHosts : PushHost(d, t, h)
          \/ PullHosts(d, t) \/ PullVault(d, t) \/ SyncFails(d, t)
          \/ OnPulled(d, t) \/ OnSyncFailed(d, t)
    BY <1>5 DEF SyncStep
  <2>2. t.user \in Users
    BY DEF TypeOK, SyncTask
  <2>3. CASE \E v \in t.todoVault : PushVault(d, t, v)
    BY <1>2, <2>2, <2>3 DEF PushVault
  <2>4. CASE \E h \in t.todoHosts : PushHost(d, t, h)
    BY <1>1, <2>4 DEF PushHost, UpsertHost
  <2>5. CASE PullHosts(d, t) \/ PullVault(d, t) \/ SyncFails(d, t)
             \/ OnPulled(d, t) \/ OnSyncFailed(d, t)
    BY <1>1, <2>5 DEF PullHosts, PullVault, SyncFails, OnPulled, OnSyncFailed
  <2> QED BY <2>1, <2>3, <2>4, <2>5
<1>6. ASSUME NEW d \in Devices, DeletionStep(d)
      PROVE  Grows
  <2>1. PICK t \in deletions[d] :
          \/ DeleteHostServed(d, t) \/ DeleteVaultServed(d, t)
          \/ DeletionFails(d, t) \/ OnDeleted(d, t)
    BY <1>6 DEF DeletionStep
  <2>2. t.user \in Users
    BY DEF TypeOK, Deletion
  <2>3. CASE DeleteVaultServed(d, t)
    BY <1>3, <2>2, <2>3 DEF DeleteVaultServed
  <2>4. CASE DeleteHostServed(d, t) \/ DeletionFails(d, t) \/ OnDeleted(d, t)
    BY <1>1, <2>4 DEF DeleteHostServed, DeleteHostRow, DeletionFails, OnDeleted
  <2> QED BY <2>1, <2>3, <2>4
<1>7. ASSUME NEW q \in late, LateServed(q)
      PROVE  Grows
  <2>1. q.user \in Users
    BY RequestKinds DEF TypeOK
  <2> QED BY <1>1, <1>2, <1>3, <1>7, <2>1
          DEF LateServed, Serve, CreateUser, UpsertHost, DeleteHostRow
<1>8. CASE UNCHANGED vars
  BY <1>1, <1>8 DEF vars
<1> QED BY <1>4, <1>5, <1>6, <1>7, <1>8 DEF Next

-----------------------------------------------------------------------------
(* What a step leaves alone stays in order.                                *)

LEMMA TaskLinksGrow ==
  ASSUME NEW t, t.user \in Users, TaskLinks(t), Grows
  PROVE  TaskLinks(t)'
BY DEF TaskLinks, Resolves, Grows

LEMMA DeviceLinksSame ==
  ASSUME DeviceLinks, Grows, UNCHANGED <<local, disk>>
  PROVE  DeviceLinks'
BY DEF DeviceLinks, Resolves, Grows

LEMMA DeviceLinksSaved ==
  ASSUME TypeOK, DeviceLinks, Grows, NEW d \in Devices, NEW st,
         Linked(st.hosts) \subseteq IdsOf(st.vault) \cup removedVault', Save(d, st),
         local' = [local EXCEPT ![d] = st] \/ UNCHANGED local
  PROVE  DeviceLinks'
<1>1. \A e \in Devices : local'[e] = st \/ local'[e] = local[e]
  BY DEF TypeOK
<1>2. \A e \in Devices :
        Linked(local'[e].hosts) \subseteq IdsOf(local'[e].vault) \cup removedVault'
  BY <1>1 DEF DeviceLinks, Resolves, Grows
<1>3. \A e \in Devices : \A x \in disk'[e] : x = st \/ x \in disk[e]
  BY DEF TypeOK, Save
<1>4. \A e \in Devices : \A x \in disk'[e] :
        Linked(x.hosts) \subseteq IdsOf(x.vault) \cup removedVault'
  BY <1>3 DEF DeviceLinks, Resolves, Grows
<1> QED BY <1>2, <1>4 DEF DeviceLinks, Resolves

LEMMA ServerLinksSame ==
  ASSUME ServerLinks, Grows, UNCHANGED hostTable
  PROVE  ServerLinks'
BY DEF ServerLinks, Grows

LEMMA ServerLinksPut ==
  ASSUME TypeOK, ServerLinks, Grows, NEW u \in Users, NEW row,
         row.key_password_id \subseteq Covered(u), UpsertHost(u, row)
  PROVE  ServerLinks'
<1>1. hostTable' = [hostTable EXCEPT ![u] = PutNewer(hostTable[u], row)]
  BY DEF UpsertHost
<1>2. Linked(PutNewer(hostTable[u], row)) \subseteq Covered(u)
  <2>1. \A h \in PutNewer(hostTable[u], row) : h \in hostTable[u] \/ h = row
    BY DEF PutNewer, Upsert
  <2> QED BY <2>1, LinkedSubset DEF ServerLinks
<1> QED BY <1>1, <1>2 DEF ServerLinks, Grows, TypeOK, ServerTypeOK

LEMMA SyncLinksSame ==
  ASSUME TypeOK, SyncLinks, Grows,
         \A d \in Devices : syncs'[d] \subseteq syncs[d]
  PROVE  SyncLinks'
<1>1. \A d \in Devices : \A t \in syncs[d] : t.user \in Users
  BY DEF TypeOK, SyncTask
<1> QED BY <1>1, TaskLinksGrow DEF SyncLinks

LEMMA SyncLinksReplaced ==
  ASSUME TypeOK, SyncLinks, Grows, NEW d \in Devices, NEW t \in syncs[d], NEW new,
         TaskLinks(new)', NextSync(d, t, new)
  PROVE  SyncLinks'
<1>1. \A e \in Devices : \A x \in syncs[e] : x.user \in Users
  BY DEF TypeOK, SyncTask
<1>2. \A e \in Devices : \A x \in syncs'[e] : x = new \/ x \in syncs[e]
  BY DEF TypeOK, NextSync, Replace
<1> QED BY <1>1, <1>2, TaskLinksGrow DEF SyncLinks

LEMMA SyncLinksSpawned ==
  ASSUME TypeOK, SyncLinks, DeviceLinks, Grows, NEW d \in Devices, NEW u \in Users,
         SpawnSync(d, u)
  PROVE  SyncLinks'
<1>1. PICK n \in Slots : syncs' = [syncs EXCEPT ![d] = @ \cup {NewSync(n, u, local[d])}]
  BY DEF SpawnSync
<1> PICK new : new = NewSync(n, u, local[d])
  OBVIOUS
<1>2. TaskLinks(new)
  BY DEF NewSync, TaskLinks, DeviceLinks
<1>3. new.user \in Users
  BY DEF NewSync
<1>4. TaskLinks(new)'
  BY <1>2, <1>3, TaskLinksGrow
<1>5. \A e \in Devices : \A x \in syncs[e] : x.user \in Users
  BY DEF TypeOK, SyncTask
<1>6. \A e \in Devices : \A x \in syncs'[e] : x = new \/ x \in syncs[e]
  BY <1>1 DEF TypeOK
<1> QED BY <1>4, <1>5, <1>6, TaskLinksGrow DEF SyncLinks

LEMMA LateLinksSame ==
  ASSUME TypeOK, LateLinks, Grows,
         \A q \in late' : q \in late \/ q.op # "putHost"
  PROVE  LateLinks'
<1>1. \A q \in late : q.user \in Users
  BY RequestKinds DEF TypeOK
<1> QED BY <1>1 DEF LateLinks, Grows

-----------------------------------------------------------------------------
(* One lemma per kind of step.                                             *)

LEMMA LinksInit == Init => LinksInv
BY DEF Init, ServerInit, DefaultState, LinksInv, DeviceLinks, ServerLinks, SyncLinks,
       LateLinks, Resolves, Linked

LEMMA LinksSignIn ==
  ASSUME TypeOK, LinksInv, Grows, NEW d \in Devices, SignInStep(d)
  PROVE  LinksInv'
<1> USE DEF serverVars, uiVars, taskVars, countVars
<1>0. DeviceLinks /\ ServerLinks /\ SyncLinks /\ LateLinks
  BY DEF LinksInv
<1> PICK t \in signIns[d] :
      \/ RegisterServed(d, t) \/ LoginServed(d, t) \/ SignInFails(d, t)
      \/ OnSignedIn(d, t) \/ OnSignInFailed(d, t)
  BY DEF SignInStep
<1>1. ServerLinks'
  <2>1. UNCHANGED hostTable
    BY DEF RegisterServed, LoginServed, SignInFails, OnSignedIn, OnSignInFailed, CreateUser
  <2> QED BY <1>0, <2>1, ServerLinksSame
<1>2. LateLinks'
  <2>1. \A q \in late' : q \in late \/ q.op # "putHost"
    BY DEF RegisterServed, LoginServed, SignInFails, OnSignedIn, OnSignInFailed
  <2> QED BY <1>0, <2>1, LateLinksSame
<1>3. CASE OnSignedIn(d, t)
  <2>1. t.user \in Users
    BY DEF TypeOK, SignIn
  <2>2. SyncLinks'
    BY <1>0, <1>3, <2>1, SyncLinksSpawned DEF OnSignedIn
  <2>3. Linked(local[d].hosts) \subseteq IdsOf(local[d].vault) \cup removedVault'
    BY <1>0 DEF DeviceLinks, Resolves, Grows
  <2>4. Save(d, local[d]) /\ UNCHANGED local
    BY <1>3 DEF OnSignedIn
  <2>5. DeviceLinks'
    BY <1>0, <2>3, <2>4, DeviceLinksSaved
  <2> QED BY <1>1, <1>2, <2>2, <2>5 DEF LinksInv
<1>4. CASE RegisterServed(d, t) \/ LoginServed(d, t) \/ SignInFails(d, t)
           \/ OnSignInFailed(d, t)
  <2>1. UNCHANGED <<local, disk, syncs>>
    BY <1>4 DEF RegisterServed, LoginServed, SignInFails, OnSignInFailed
  <2>2. DeviceLinks' /\ SyncLinks'
    BY <1>0, <2>1, DeviceLinksSame, SyncLinksSame
  <2> QED BY <1>1, <1>2, <2>2 DEF LinksInv
<1> QED BY <1>3, <1>4

(* A saved host links to the entry saved with it or to an entry that the   *)
(* host it replaces linked to.                                             *)
LEMMA SavedLinks ==
  ASSUME TypeOK, DeviceLinks, NEW d \in Devices, NEW form, NEW now
  PROVE  Linked(Upsert(local[d].hosts, SavedHost(d, form, now)))
           \subseteq IdsOf(MergeVault(local[d].vault, SavedEntries(d, form, now)))
                       \cup removedVault
<1> DEFINE host == SavedHost(d, form, now)
           entries == SavedEntries(d, form, now)
           after == IdsOf(MergeVault(local[d].vault, entries)) \cup removedVault
<1>1. IdsOf(local[d].vault) \cup IdsOf(entries) \subseteq after
  BY DEF MergeVault, IdsOf
<1>2. ExistingVid(d) \subseteq IdsOf(local[d].vault) \cup removedVault
  BY DEF ExistingVid, Linked, DeviceLinks, Resolves
<1>3. host.key_password_id \subseteq after
  <2>1. CASE form = "passphrase"
    <3>1. host.key_password_id = SavedVid(d)
      BY <2>1 DEF SavedHost
    <3>2. SavedVid(d) \subseteq IdsOf(entries)
      <4> SUFFICES ASSUME NEW v \in SavedVid(d) PROVE v \in IdsOf(entries)
        OBVIOUS
      <4> DEFINE e == [id |-> v, label |-> NewStamp, passphrase |-> NewStamp,
                       updated_at |-> now]
      <4>1. e \in entries /\ e.id = v
        BY <2>1 DEF SavedEntries
      <4> QED BY <4>1 DEF IdsOf
    <3> QED BY <1>1, <3>1, <3>2
  <2>2. CASE form # "passphrase"
    <3>1. host.key_password_id = ExistingVid(d) \/ host.key_password_id = {}
      BY <2>2 DEF SavedHost
    <3> QED BY <1>1, <1>2, <3>1
  <2> QED BY <2>1, <2>2
<1> HIDE DEF host, entries
<1>4. \A h \in Upsert(local[d].hosts, host) : h = host \/ h \in local[d].hosts
  BY DEF Upsert
<1>5. \A h \in local[d].hosts : h.key_password_id \subseteq after
  BY <1>1, LinkedSubset DEF DeviceLinks, Resolves
<1>6. \A h \in Upsert(local[d].hosts, host) : h.key_password_id \subseteq after
  BY <1>3, <1>4, <1>5
<1> HIDE DEF after
<1>7. Linked(Upsert(local[d].hosts, host)) \subseteq after
  BY <1>6, LinkedSubset
<1> QED BY <1>7 DEF after, host, entries

LEMMA LinksUser ==
  ASSUME TypeOK, LinksInv, Grows, NEW d \in Devices, UserStep(d)
  PROVE  LinksInv'
<1> USE DEF serverVars, uiVars, taskVars, countVars
<1>0. DeviceLinks /\ ServerLinks /\ SyncLinks /\ LateLinks
  BY DEF LinksInv
<1>1. ServerLinks' /\ LateLinks'
  <2>1. UNCHANGED <<hostTable, late>>
    BY DEF UserStep, ClickSignIn, ClickSync, ClickLogout, ClickSearch, ClickNewHost,
       ClickEdit, ClickDelete, SaveHost, SavePreferences, Restart
  <2> QED BY <1>0, <2>1, ServerLinksSame, LateLinksSame
<1>2. ASSUME UNCHANGED <<local, disk, syncs>>
      PROVE  LinksInv'
  BY <1>0, <1>1, <1>2, DeviceLinksSame, SyncLinksSame DEF LinksInv
<1>3. ASSUME UNCHANGED syncs, DeviceLinks'
      PROVE  LinksInv'
  BY <1>0, <1>1, <1>3, SyncLinksSame DEF LinksInv
<1>4. CASE \/ \E u \in Users, op \in {"login", "register"} : ClickSignIn(d, u, op)
           \/ ClickLogout(d) \/ ClickSearch(d) \/ ClickNewHost(d)
           \/ \E id \in shown[d] : ClickEdit(d, id)
  <2>1. UNCHANGED <<local, disk, syncs>>
    BY <1>4 DEF ClickSignIn, ClickLogout, ClickSearch, ClickNewHost, ClickEdit
  <2> QED BY <1>2, <2>1
<1>5. CASE ClickSync(d)
  <2>1. PICK u \in account[d] : SpawnSync(d, u)
    BY <1>5 DEF ClickSync
  <2>2. u \in Users
    BY DEF TypeOK, Option
  <2>3. SyncLinks'
    BY <1>0, <2>1, <2>2, SyncLinksSpawned
  <2>4. UNCHANGED <<local, disk>>
    BY <1>5 DEF ClickSync
  <2> QED BY <1>0, <1>1, <2>3, <2>4, DeviceLinksSame DEF LinksInv
<1>6. ASSUME NEW id \in shown[d], ClickDelete(d, id)
      PROVE  LinksInv'
  <2> DEFINE st == delete_host(local[d], id)
  <2>1. Linked(st.hosts) \subseteq IdsOf(st.vault) \cup removedVault'
    <3>1. st.hosts \subseteq local[d].hosts
      BY DEF delete_host, Remove
    <3>2. Linked(st.hosts) \subseteq Linked(local[d].hosts)
      BY <3>1 DEF Linked
    <3>3. Linked(st.hosts) \subseteq IdsOf(local[d].vault) \cup removedVault
      BY <1>0, <3>2 DEF DeviceLinks, Resolves
    <3>4. IdsOf(local[d].vault) \cap Linked(st.hosts) \subseteq IdsOf(st.vault)
      BY DEF delete_host, IdsOf
    <3> QED BY <3>3, <3>4 DEF Grows
  <2>2. local' = [local EXCEPT ![d] = st] /\ Save(d, st) /\ UNCHANGED syncs
    BY <1>6 DEF ClickDelete
  <2> HIDE DEF st
  <2>3. DeviceLinks'
    BY <1>0, <2>1, <2>2, DeviceLinksSaved
  <2> QED BY <1>3, <2>2, <2>3
<1>7. ASSUME NEW form \in Forms, NEW now \in Times, SaveHost(d, form, now)
      PROVE  LinksInv'
  <2> DEFINE host == SavedHost(d, form, now)
             vault == MergeVault(local[d].vault, SavedEntries(d, form, now))
             st == upsert_host([local[d] EXCEPT !.vault = vault], host)
  <2>1. st.hosts = Upsert(local[d].hosts, host) /\ st.vault = vault
    BY DEF upsert_host, TypeOK, LocalState
  <2>2. Linked(st.hosts) \subseteq IdsOf(st.vault) \cup removedVault'
    BY <1>0, <2>1, SavedLinks DEF Grows
  <2>3. local' = [local EXCEPT ![d] = st] /\ Save(d, st) /\ UNCHANGED syncs
    BY <1>7 DEF SaveHost
  <2> HIDE DEF st
  <2>4. DeviceLinks'
    BY <1>0, <2>2, <2>3, DeviceLinksSaved
  <2> QED BY <1>3, <2>3, <2>4
<1>8. CASE SavePreferences(d)
  <2>1. Linked(local[d].hosts) \subseteq IdsOf(local[d].vault) \cup removedVault'
    BY <1>0 DEF DeviceLinks, Resolves, Grows
  <2>2. Save(d, local[d]) /\ UNCHANGED local /\ UNCHANGED syncs
    BY <1>8 DEF SavePreferences
  <2>3. DeviceLinks'
    BY <1>0, <2>1, <2>2, DeviceLinksSaved
  <2> QED BY <1>3, <2>2, <2>3
<1>9. CASE Restart(d)
  <2>1. Resolves(Load(disk[d]).hosts, Load(disk[d]).vault)
    BY <1>0 DEF Load, DeviceLinks, Resolves, DefaultState, Linked
  <2>2. \A e \in Devices : local'[e] = local[e] \/ local'[e] = Load(disk[d])
    BY <1>9 DEF Restart, TypeOK
  <2>3. \A e \in Devices :
          Linked(local'[e].hosts) \subseteq IdsOf(local'[e].vault) \cup removedVault'
    BY <1>0, <2>1, <2>2 DEF DeviceLinks, Resolves, Grows
  <2>4. DeviceLinks'
    BY <1>0, <1>9, <2>3 DEF Restart, DeviceLinks, Resolves, Grows
  <2>5. \A e \in Devices : syncs'[e] \subseteq syncs[e]
    BY <1>9 DEF Restart, TypeOK
  <2> QED BY <1>0, <1>1, <2>4, <2>5, SyncLinksSame DEF LinksInv
<1> QED BY <1>4, <1>5, <1>6, <1>7, <1>8, <1>9 DEF UserStep

LEMMA LinksSync ==
  ASSUME TypeOK, LinksInv, Grows, NEW d \in Devices, SyncStep(d)
  PROVE  LinksInv'
<1> USE DEF serverVars, uiVars, taskVars, countVars
<1>0. DeviceLinks /\ ServerLinks /\ SyncLinks /\ LateLinks
  BY DEF LinksInv
<1> PICK t \in syncs[d] :
      \/ \E v \in t.todoVault : PushVault(d, t, v)
      \/ \E h \in t.todoHosts : PushHost(d, t, h)
      \/ PullHosts(d, t) \/ PullVault(d, t) \/ SyncFails(d, t)
      \/ OnPulled(d, t) \/ OnSyncFailed(d, t)
  BY DEF SyncStep
<1>1. t \in SyncTask /\ t.user \in Users /\ TaskLinks(t)
  BY <1>0 DEF SyncLinks, TypeOK, SyncTask
(* What a host still to be sent links to has arrived.                      *)
<1>2. ASSUME t.pc = "push", t.todoVault = {}
      PROVE  \A h \in t.todoHosts :
               SealHost(t.user, h).key_password_id \subseteq Covered(t.user)
  <2>1. \A h \in t.todoHosts : h \in HostConfig
    BY <1>1 DEF SyncTask
  <2>2. IdsOf(t.todoVault) = {}
    BY <1>2 DEF IdsOf
  <2>3. Linked(t.hosts) \subseteq Covered(t.user)
    BY <1>1, <1>2, <2>2 DEF TaskLinks, Resolves, Covered
  <2>4. \A h \in t.todoHosts : h.key_password_id \subseteq Covered(t.user)
    BY <1>1, <2>3, LinkedSubset DEF TaskLinks
  <2> QED BY <1>1, <2>1, <2>4, SealLinks
<1>3. ASSUME NEW v \in t.todoVault, PushVault(d, t, v)
      PROVE  LinksInv'
  <2> PICK new : new = [t EXCEPT !.todoVault = @ \ {v}]
    OBVIOUS
  <2>1. /\ new.hosts = t.hosts /\ new.vault = t.vault /\ new.todoHosts = t.todoHosts
        /\ new.todoVault = t.todoVault \ {v} /\ new.pc = t.pc /\ new.user = t.user
        /\ new.pc = "push"
    BY <1>1, <1>3 DEF SyncTask, PushVault
  <2>2. v.id \in Covered(t.user)'
    <3>1. v \in LocalVaultEntry
      BY <1>1 DEF SyncTask
    <3>2. SealVault(t.user, v).id = v.id
      BY DEF SealVault
    <3>3. vaultTable' = [vaultTable EXCEPT ![t.user] = PutNewer(@, SealVault(t.user, v))]
      BY <1>3 DEF PushVault, UpsertVaultEntry
    <3>4. v.id \in IdsOf(PutNewer(vaultTable[t.user], SealVault(t.user, v)))
      BY <3>2 DEF IdsOf, PutNewer, Upsert
    <3> QED BY <1>1, <3>3, <3>4 DEF Covered, TypeOK, ServerTypeOK
  <2>3. IdsOf(t.todoVault) \subseteq IdsOf(new.todoVault) \cup {v.id}
    BY <2>1 DEF IdsOf
  <2>4. IdsOf(new.vault) \subseteq IdsOf(new.todoVault) \cup Covered(new.user)'
    BY <1>1, <2>1, <2>2, <2>3 DEF TaskLinks, Grows
  <2>5. TaskLinks(new)'
    BY <1>1, <2>1, <2>4 DEF TaskLinks, Resolves, Grows
  <2>6. NextSync(d, t, new)
    BY <1>3 DEF PushVault
  <2>7. SyncLinks'
    BY <1>0, <2>5, <2>6, SyncLinksReplaced
  <2>8. UNCHANGED <<local, disk, hostTable, late>>
    BY <1>3 DEF PushVault, UpsertVaultEntry
  <2> QED BY <1>0, <2>7, <2>8, DeviceLinksSame, ServerLinksSame, LateLinksSame DEF LinksInv
<1>4. ASSUME NEW h \in t.todoHosts, PushHost(d, t, h)
      PROVE  LinksInv'
  <2> PICK new : new = [t EXCEPT !.todoHosts = @ \ {h}]
    OBVIOUS
  <2>1. /\ new.hosts = t.hosts /\ new.vault = t.vault /\ new.todoVault = t.todoVault
        /\ new.todoHosts \subseteq t.todoHosts /\ new.pc = t.pc /\ new.user = t.user
        /\ new.pc = "push"
    BY <1>1, <1>4 DEF SyncTask, PushHost
  <2>2. TaskLinks(new)'
    BY <1>1, <2>1 DEF TaskLinks, Resolves, Grows
  <2>3. NextSync(d, t, new)
    BY <1>4 DEF PushHost
  <2>4. SyncLinks'
    BY <1>0, <2>2, <2>3, SyncLinksReplaced
  <2>5. SealHost(t.user, h).key_password_id \subseteq Covered(t.user)
    BY <1>2, <1>4 DEF PushHost
  <2>6. ServerLinks'
    BY <1>0, <1>1, <1>4, <2>5, ServerLinksPut DEF PushHost
  <2>7. UNCHANGED <<local, disk, late>>
    BY <1>4 DEF PushHost, UpsertHost
  <2> QED BY <1>0, <2>4, <2>6, <2>7, DeviceLinksSame, LateLinksSame DEF LinksInv
<1>5. CASE PullHosts(d, t)
  <2> PICK new : new = [t EXCEPT !.pc = "pullVault", !.rows = hostTable[t.user]]
    OBVIOUS
  <2>1. /\ new.hosts = t.hosts /\ new.vault = t.vault /\ new.todoHosts = t.todoHosts
        /\ new.rows = hostTable[t.user] /\ new.pc = "pullVault" /\ new.user = t.user
    BY <1>1 DEF SyncTask
  <2>2. Linked(new.rows) \subseteq Covered(t.user)'
    BY <1>0, <1>1, <2>1 DEF ServerLinks, Grows
  <2>3. TaskLinks(new)'
    BY <1>1, <2>1, <2>2 DEF TaskLinks, Resolves, Grows
  <2>4. NextSync(d, t, new) /\ UNCHANGED <<local, disk, hostTable, late>>
    BY <1>5 DEF PullHosts
  <2>5. SyncLinks'
    BY <1>0, <2>3, <2>4, SyncLinksReplaced
  <2> QED BY <1>0, <2>4, <2>5, DeviceLinksSame, ServerLinksSame, LateLinksSame DEF LinksInv
<1>6. CASE PullVault(d, t)
  <2> DEFINE V == vaultTable[t.user]
  <2> PICK new : new = IF AllOpen(t, V) THEN Pulled(t, V)
                       ELSE [t EXCEPT !.pc = "err", !.rows = {}]
    OBVIOUS
  <2>1. /\ new.hosts = t.hosts /\ new.vault = t.vault /\ new.todoHosts = t.todoHosts
        /\ new.pc \in {"ok", "err"} /\ new.user = t.user
    BY <1>1 DEF SyncTask, Pulled
  <2>2. ASSUME new.pc = "ok"
        PROVE  Linked(new.gotHosts) \subseteq IdsOf(new.gotVault) \cup removedVault'
    <3>1. new = Pulled(t, V)
      BY <1>1, <2>2 DEF SyncTask
    <3>2. /\ new.gotHosts = {OpenHost(r) : r \in t.rows}
          /\ new.gotVault = {OpenVault(v) : v \in V}
      BY <1>1, <3>1 DEF Pulled, SyncTask
    <3>3. IdsOf(new.gotVault) = IdsOf(V)
      <4>1. \A v \in V : OpenVault(v).id = v.id
        BY DEF OpenVault
      <4> QED BY <3>2, <4>1 DEF IdsOf
    <3>4. Linked(t.rows) \subseteq IdsOf(V) \cup removedVault
      BY <1>1, <1>6 DEF TaskLinks, Covered, PullVault
    <3>5. \A r \in t.rows : OpenHost(r).key_password_id = r.key_password_id
      BY <1>1, SealLinks DEF SyncTask
    <3>6. \A r \in t.rows : r.key_password_id \subseteq IdsOf(V) \cup removedVault
      BY <3>4, LinkedSubset
    <3>7. \A g \in new.gotHosts : g.key_password_id \subseteq IdsOf(V) \cup removedVault
      BY <3>2, <3>5, <3>6
    <3>8. Linked(new.gotHosts) \subseteq IdsOf(V) \cup removedVault
      BY <3>7, LinkedSubset
    <3> QED BY <3>3, <3>8 DEF Grows
  <2>3. TaskLinks(new)'
    BY <1>1, <2>1, <2>2 DEF TaskLinks, Resolves, Grows
  <2>4. NextSync(d, t, new) /\ UNCHANGED <<local, disk, hostTable, late>>
    BY <1>6 DEF PullVault
  <2>5. SyncLinks'
    BY <1>0, <2>3, <2>4, SyncLinksReplaced
  <2> QED BY <1>0, <2>4, <2>5, DeviceLinksSame, ServerLinksSame, LateLinksSame DEF LinksInv
<1>7. CASE SyncFails(d, t)
  <2> PICK new : new = [t EXCEPT !.pc = "err", !.rows = {}]
    OBVIOUS
  <2>1. /\ new.hosts = t.hosts /\ new.vault = t.vault /\ new.todoHosts = t.todoHosts
        /\ new.pc = "err" /\ new.user = t.user
    BY <1>1 DEF SyncTask
  <2>2. TaskLinks(new)'
    BY <1>1, <2>1 DEF TaskLinks, Resolves, Grows
  <2>3. NextSync(d, t, new) /\ UNCHANGED <<local, disk, hostTable>>
    BY <1>7 DEF SyncFails
  <2>4. SyncLinks'
    BY <1>0, <2>2, <2>3, SyncLinksReplaced
  <2>5. \A q \in late' : q.op = "putHost" =>
          \/ q \in late
          \/ q.user = t.user /\ q.row.key_password_id \subseteq Covered(t.user)
    BY <1>2, <1>7 DEF SyncFails
  <2>6. \A q \in late : q.user \in Users
    BY RequestKinds DEF TypeOK
  <2>7. LateLinks'
    BY <1>0, <1>1, <2>5, <2>6 DEF LateLinks, Grows
  <2> QED BY <1>0, <2>3, <2>4, <2>7, DeviceLinksSame, ServerLinksSame DEF LinksInv
<1>8. CASE OnPulled(d, t)
  <2> DEFINE st == merge_remote(local[d], t.gotHosts, t.gotVault)
             after == IdsOf(st.vault) \cup removedVault'
  <2>1. IdsOf(local[d].vault) \cup IdsOf(t.gotVault) \cup removedVault \subseteq after
    BY DEF merge_remote, MergeVault, IdsOf, Grows
  <2>2. Linked(local[d].hosts) \subseteq after
    BY <1>0, <2>1 DEF DeviceLinks, Resolves
  <2>3. Linked(t.gotHosts) \subseteq after
    BY <1>1, <1>8, <2>1 DEF TaskLinks, Resolves, OnPulled
  <2>4. st.hosts \subseteq local[d].hosts \cup t.gotHosts
    BY DEF merge_remote, MergeHosts
  <2> HIDE DEF after
  <2>5. \A h \in st.hosts : h.key_password_id \subseteq after
    BY <2>2, <2>3, <2>4, LinkedSubset
  <2>6. Linked(st.hosts) \subseteq after
    BY <2>5, LinkedSubset
  <2>7. local' = [local EXCEPT ![d] = st] /\ Save(d, st) /\ UNCHANGED <<hostTable, late>>
    BY <1>8 DEF OnPulled
  <2>8. DeviceLinks'
    <3>1. Linked(st.hosts) \subseteq IdsOf(st.vault) \cup removedVault'
      BY <2>6 DEF after
    <3> HIDE DEF st
    <3> QED BY <1>0, <2>7, <3>1, DeviceLinksSaved
  <2>9. \A e \in Devices : syncs'[e] \subseteq syncs[e]
    BY <1>8 DEF OnPulled, TypeOK
  <2> QED BY <1>0, <2>7, <2>8, <2>9, SyncLinksSame, ServerLinksSame, LateLinksSame DEF LinksInv
<1>9. CASE OnSyncFailed(d, t)
  <2>1. \A e \in Devices : syncs'[e] \subseteq syncs[e]
    BY <1>9 DEF OnSyncFailed, TypeOK
  <2>2. UNCHANGED <<local, disk, hostTable, late>>
    BY <1>9 DEF OnSyncFailed
  <2> QED BY <1>0, <2>1, <2>2, DeviceLinksSame, SyncLinksSame, ServerLinksSame, LateLinksSame
          DEF LinksInv
<1> QED BY <1>3, <1>4, <1>5, <1>6, <1>7, <1>8, <1>9

LEMMA LinksDeletion ==
  ASSUME TypeOK, LinksInv, Grows, NEW d \in Devices, DeletionStep(d)
  PROVE  LinksInv'
<1> USE DEF serverVars, uiVars, taskVars, countVars
<1>0. DeviceLinks /\ ServerLinks /\ SyncLinks /\ LateLinks
  BY DEF LinksInv
<1> PICK t \in deletions[d] :
      \/ DeleteHostServed(d, t) \/ DeleteVaultServed(d, t)
      \/ DeletionFails(d, t) \/ OnDeleted(d, t)
  BY DEF DeletionStep
<1>1. UNCHANGED <<local, disk, syncs>>
  BY DEF DeleteHostServed, DeleteVaultServed, DeletionFails, OnDeleted
<1>2. DeviceLinks' /\ SyncLinks'
  BY <1>0, <1>1, DeviceLinksSame, SyncLinksSame
<1>3. LateLinks'
  <2>1. \A q \in late' : q \in late \/ q.op # "putHost"
    BY DEF DeleteHostServed, DeleteVaultServed, DeletionFails, OnDeleted
  <2> QED BY <1>0, <2>1, LateLinksSame
<1>4. ServerLinks'
  <2>1. CASE DeleteHostServed(d, t)
    <3>1. \A u \in Users : hostTable'[u] \subseteq hostTable[u]
      BY <2>1 DEF DeleteHostServed, DeleteHostRow, Remove, TypeOK, ServerTypeOK
    <3>2. \A u \in Users : Linked(hostTable'[u]) \subseteq Linked(hostTable[u])
      BY <3>1 DEF Linked
    <3> QED BY <1>0, <3>2 DEF ServerLinks, Grows
  <2>2. CASE DeleteVaultServed(d, t) \/ DeletionFails(d, t) \/ OnDeleted(d, t)
    <3>1. UNCHANGED hostTable
      BY <2>2 DEF DeleteVaultServed, DeleteVaultEntry, DeletionFails, OnDeleted
    <3> QED BY <1>0, <3>1, ServerLinksSame
  <2> QED BY <2>1, <2>2
<1> QED BY <1>2, <1>3, <1>4 DEF LinksInv

LEMMA LinksLate ==
  ASSUME TypeOK, LinksInv, Grows, NEW q \in late, LateServed(q)
  PROVE  LinksInv'
<1> USE DEF serverVars, uiVars, taskVars, countVars
<1>0. DeviceLinks /\ ServerLinks /\ SyncLinks /\ LateLinks
  BY DEF LinksInv
<1>1. UNCHANGED <<local, disk, syncs>> /\ Serve(q) /\ late' \subseteq late
  BY DEF LateServed
<1>2. DeviceLinks' /\ SyncLinks' /\ LateLinks'
  BY <1>0, <1>1, DeviceLinksSame, SyncLinksSame, LateLinksSame
<1>3. q.user \in Users
  BY RequestKinds DEF TypeOK
<1>4. ServerLinks'
  <2>1. CASE q.op = "putHost" /\ UpsertHost(q.user, q.row)
    BY <1>0, <1>3, <2>1, ServerLinksPut DEF LateLinks
  <2>2. CASE q.op = "deleteHost" /\ DeleteHostRow(q.user, q.id)
    <3>1. \A u \in Users : hostTable'[u] \subseteq hostTable[u]
      BY <2>2 DEF DeleteHostRow, Remove, TypeOK, ServerTypeOK
    <3>2. \A u \in Users : Linked(hostTable'[u]) \subseteq Linked(hostTable[u])
      BY <3>1 DEF Linked
    <3> QED BY <1>0, <3>2 DEF ServerLinks, Grows
  <2>3. CASE UNCHANGED hostTable
    BY <1>0, <2>3, ServerLinksSame
  <2> QED BY <1>1, <2>1, <2>2, <2>3 DEF Serve, CreateUser, UpsertVaultEntry, DeleteVaultEntry
<1> QED BY <1>2, <1>4 DEF LinksInv

LEMMA LinksNext ==
  ASSUME TypeOK, LinksInv, [Next]_vars
  PROVE  LinksInv'
<1>0. Grows
  BY GrowsNext
<1>1. ASSUME NEW d \in Devices,
             SignInStep(d) \/ SyncStep(d) \/ DeletionStep(d) \/ UserStep(d)
      PROVE  LinksInv'
  BY <1>0, <1>1, LinksSignIn, LinksSync, LinksDeletion, LinksUser
<1>2. ASSUME NEW q \in late, LateServed(q)
      PROVE  LinksInv'
  BY <1>0, <1>2, LinksLate
<1>3. CASE UNCHANGED vars
  <2>1. UNCHANGED <<local, disk, syncs, hostTable, late>>
    BY <1>3 DEF vars, serverVars, uiVars, taskVars
  <2> QED BY <1>0, <2>1, DeviceLinksSame, SyncLinksSame, ServerLinksSame, LateLinksSame
          DEF LinksInv
<1> QED BY <1>1, <1>2, <1>3 DEF Next

(* "Vault entries first (so host.key_password_id references resolve)": for *)
(* any number of devices, accounts, saves, faults and late requests, a     *)
(* link dangles only after somebody deleted the entry it names.            *)
THEOREM LinksAlwaysResolve == Spec => []LinksResolve
<1>1. Init => TypeOK /\ KeysInv /\ LinksInv
  BY TypeInit, KeysInit, LinksInit
<1>2. TypeOK /\ KeysInv /\ LinksInv /\ [Next]_vars => TypeOK' /\ KeysInv' /\ LinksInv'
  BY TypeNext, KeysNext, LinksNext DEF KeysInv
<1>3. LinksInv => LinksResolve
  BY DEF LinksInv, LinksResolve, DeviceLinks, ServerLinks, Resolves, Covered
<1> QED BY <1>1, <1>2, <1>3, PTL DEF Spec
=============================================================================
