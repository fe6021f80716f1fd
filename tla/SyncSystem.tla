------------------------------ MODULE SyncSystem ------------------------------
(***************************************************************************)
(* Clients (devices) and the server of shi together.  A client is its UI   *)
(* thread, crates/client/src/app.rs, which owns all state, and the tasks   *)
(* it spawns on the runtime: a sign-in, a sync (push, then pull) or a      *)
(* deletion.  A task works on copies taken when it was spawned, sends one  *)
(* request per step, and ends by queueing one UiEvent, which the UI        *)
(* handles at some later pump tick.  Between any two steps other devices,  *)
(* other tasks and the user may act.                                       *)
(*                                                                         *)
(* Requests fail or time out (20 s, sync.rs); a request that timed out may *)
(* still reach the server later, or never.  A device restarts at any time, *)
(* which loses everything but its state file.                              *)
(***************************************************************************)
EXTENDS SyncServer, LocalStore, FiniteSets

CONSTANTS
  Devices,      \* the users' machines
  Forms,        \* the ways users fill in the host form
  Slots,        \* bound: tasks of one kind that one device may have at a time
  MaxSignIns,   \* bound: clicks on Login and Register
  MaxFaults     \* bound: failures, timeouts, failed saves and restarts

(* The form's auth method and whether its secret field is empty.           *)
AllForms == {"password", "no password", "passphrase", "no passphrase"}

ASSUME FormsAssumption == Forms \subseteq AllForms

ASSUME CountsAssumption == MaxSignIns \in Nat /\ MaxFaults \in Nat

VARIABLES
  local,        \* [Devices -> LocalState]: UiState.local
  disk,         \* [Devices -> Option(LocalState)]: state.json, {} if unusable
  clock,        \* [Devices -> Times]: last reading of Utc::now()
  account,      \* [Devices -> Option(Users)]: UiState.sync; screen 1 iff not {}
  busy,         \* [Devices -> BOOLEAN]: the UI's busy property
  editing,      \* [Devices -> Option(Ids)]: the form's editing-id
  shown,        \* [Devices -> SUBSET Ids]: UiState.displayed_host_ids
  signIns,      \* [Devices -> SUBSET SignIn]: login and register tasks
  syncs,        \* [Devices -> SUBSET SyncTask]: tasks of spawn_pull
  deletions,    \* [Devices -> SUBSET Deletion]: tasks of handle_delete
  late,         \* requests given up by their client and not yet served
  changes,      \* number of saves and deletions so far: the next stamp
  attempts,     \* number of sign-ins so far
  faults,       \* number of faults so far
  written       \* history: every host saved, with the account signed in

uiVars == <<local, disk, clock, account, busy, editing, shown>>
taskVars == <<signIns, syncs, deletions>>
countVars == <<changes, attempts, faults, written>>
vars == <<serverVars, uiVars, taskVars, late, countVars>>

SignIn == [slot: Slots, user: Users, pc: {"login", "register", "ok", "err"}]

(* hosts and vault are the copies to push, todoHosts and todoVault the part *)
(* of them not yet sent, rows the answer to GET /hosts, gotHosts and        *)
(* gotVault the pulled state of the event Sync(Ok).                         *)
SyncTask ==
  [slot: Slots, user: Users, pc: {"push", "pullVault", "ok", "err"},
   hosts: SUBSET HostConfig, vault: SUBSET LocalVaultEntry,
   todoHosts: SUBSET HostConfig, todoVault: SUBSET LocalVaultEntry,
   rows: SUBSET SealedHost,
   gotHosts: SUBSET HostConfig, gotVault: SUBSET LocalVaultEntry]

Deletion ==
  [slot: Slots, user: Users, pc: {"host", "vault", "ok", "err"},
   id: Ids, vault_id: Option(Ids)]

TypeOK ==
  /\ ServerTypeOK
  /\ local \in [Devices -> LocalState]
  /\ disk \in [Devices -> Option(LocalState)]
  /\ clock \in [Devices -> Times]
  /\ account \in [Devices -> Option(Users)]
  /\ busy \in [Devices -> BOOLEAN]
  /\ editing \in [Devices -> Option(Ids)]
  /\ shown \in [Devices -> SUBSET Ids]
  /\ signIns \in [Devices -> SUBSET SignIn]
  /\ syncs \in [Devices -> SUBSET SyncTask]
  /\ deletions \in [Devices -> SUBSET Deletion]
  /\ late \subseteq Request
  /\ changes \in 0..MaxChanges
  /\ attempts \in 0..MaxSignIns
  /\ faults \in 0..MaxFaults
  /\ written \subseteq [user: Users, host: HostConfig]

Init ==
  /\ ServerInit
  /\ local = [d \in Devices |-> DefaultState]
  /\ disk = [d \in Devices |-> {}]
  /\ clock = [d \in Devices |-> 0]
  /\ account = [d \in Devices |-> {}]
  /\ busy = [d \in Devices |-> FALSE]
  /\ editing = [d \in Devices |-> {}]
  /\ shown = [d \in Devices |-> {}]
  /\ signIns = [d \in Devices |-> {}]
  /\ syncs = [d \in Devices |-> {}]
  /\ deletions = [d \in Devices |-> {}]
  /\ late = {}
  /\ changes = 0
  /\ attempts = 0
  /\ faults = 0
  /\ written = {}

-----------------------------------------------------------------------------
(* Parts of actions.                                                       *)

(* One of the failures the environment may cause.                          *)
Fault == faults < MaxFaults /\ faults' = faults + 1

(* The user makes change number changes + 1.                               *)
Change == changes < MaxChanges /\ changes' = changes + 1

(* LocalState::save is one fs::write over the old file.  It succeeds, or   *)
(* it fails and leaves the old file or a torn one; no caller stops for it. *)
Save(d, st) ==
  \/ disk' = [disk EXCEPT ![d] = {st}] /\ UNCHANGED faults
  \/ UNCHANGED disk /\ Fault
  \/ disk' = [disk EXCEPT ![d] = {}] /\ Fault

(* refresh_host_list_from with an empty search box; a filter hides rows    *)
(* the user then cannot click, which not clicking them covers.             *)
Refresh(d, st) == shown' = [shown EXCEPT ![d] = IdsOf(st.hosts)]

FreeSlot(tasks, n) == \A t \in tasks : t.slot # n

Replace(tasks, t, new) == (tasks \ {t}) \cup {new}

NewSync(n, u, st) ==
  [slot |-> n, user |-> u, pc |-> "push", hosts |-> st.hosts,
   vault |-> st.vault, todoHosts |-> st.hosts, todoVault |-> st.vault,
   rows |-> {}, gotHosts |-> {}, gotVault |-> {}]

(* spawn_pull copies the local state and hands it to a new task.           *)
SpawnSync(d, u) ==
  \E n \in Slots :
    /\ FreeSlot(syncs[d], n)
    /\ syncs' = [syncs EXCEPT ![d] = @ \cup {NewSync(n, u, local[d])}]
    /\ busy' = [busy EXCEPT ![d] = TRUE]

-----------------------------------------------------------------------------
(* The user.  The widgets of main.slint that fire these callbacks are on   *)
(* the sign-in screen (account = {}) or on the host screen.                *)

(* handle_auth: the Login and Register buttons are disabled while busy.    *)
ClickSignIn(d, u, op) ==
  /\ account[d] = {} /\ ~busy[d]
  /\ attempts < MaxSignIns /\ attempts' = attempts + 1
  /\ \E n \in Slots :
       /\ FreeSlot(signIns[d], n)
       /\ signIns' = [signIns EXCEPT ![d] =
                        @ \cup {[slot |-> n, user |-> u, pc |-> op]}]
  /\ busy' = [busy EXCEPT ![d] = TRUE]
  /\ UNCHANGED <<serverVars, local, disk, clock, account, editing, shown,
                 syncs, deletions, late, changes, faults, written>>

(* on_sync_clicked: the Sync button is disabled while busy.                *)
ClickSync(d) ==
  /\ ~busy[d]
  /\ \E u \in account[d] : SpawnSync(d, u)
  /\ UNCHANGED <<serverVars, local, disk, clock, account, editing, shown,
                 signIns, deletions, late, countVars>>

(* on_logout_clicked: hosts, vault, busy and running syncs are left alone. *)
ClickLogout(d) ==
  /\ account[d] # {}
  /\ account' = [account EXCEPT ![d] = {}]
  /\ UNCHANGED <<serverVars, local, disk, clock, busy, editing, shown,
                 taskVars, late, countVars>>

(* on_search_changed.                                                      *)
ClickSearch(d) ==
  /\ account[d] # {}
  /\ Refresh(d, local[d])
  /\ UNCHANGED <<serverVars, local, disk, clock, account, busy, editing,
                 taskVars, late, countVars>>

(* on_new_host empties the form.                                           *)
ClickNewHost(d) ==
  /\ account[d] # {}
  /\ editing' = [editing EXCEPT ![d] = {}]
  /\ UNCHANGED <<serverVars, local, disk, clock, account, busy, shown,
                 taskVars, late, countVars>>

(* handle_edit loads a shown host into the form, if it still exists.       *)
ClickEdit(d, id) ==
  /\ account[d] # {}
  /\ id \in shown[d] /\ WithId(local[d].hosts, id) # {}
  /\ editing' = [editing EXCEPT ![d] = {id}]
  /\ UNCHANGED <<serverVars, local, disk, clock, account, busy, shown,
                 taskVars, late, countVars>>

(* handle_add_host, for a new host (editing = {}) or the one being edited, *)
(* which a sync or a deletion may have changed or removed since.  An       *)
(* edited host keeps its link; a typed passphrase goes to the vault under  *)
(* that link or a new id.                                                  *)
NewStamp == changes + 1

SavedId(d) ==
  IF editing[d] = {} THEN NewStamp ELSE CHOOSE id \in editing[d] : TRUE

ExistingVid(d) == Linked({h \in local[d].hosts : h.id \in editing[d]})

SavedVid(d) == IF ExistingVid(d) = {} THEN {NewStamp} ELSE ExistingVid(d)

SavedEntries(d, form, now) ==
  {[id |-> v, label |-> NewStamp, passphrase |-> NewStamp, updated_at |-> now] :
     v \in {w \in SavedVid(d) : form = "passphrase"}}

SavedHost(d, form, now) ==
  [id |-> SavedId(d), name |-> NewStamp, updated_at |-> now,
   auth_method |->
     IF form \in {"password", "no password"} THEN "password" ELSE "key",
   password |-> {p \in {NewStamp} : form = "password"},
   key_password_id |->
     CASE form = "passphrase"    -> SavedVid(d)
       [] form = "no passphrase" -> ExistingVid(d)
       [] OTHER                  -> {}]

SaveHost(d, form, now) ==
  LET host == SavedHost(d, form, now)
      vault == MergeVault(local[d].vault, SavedEntries(d, form, now))
      st == upsert_host([local[d] EXCEPT !.vault = vault], host)
  IN  /\ account[d] # {}
      /\ now >= clock[d]
      /\ Change
      /\ clock' = [clock EXCEPT ![d] = now]
      /\ local' = [local EXCEPT ![d] = st]
      /\ Save(d, st)
      /\ editing' = [editing EXCEPT ![d] = {}]
      /\ Refresh(d, st)
      /\ written' = written \cup {[user |-> u, host |-> host] : u \in account[d]}
      /\ UNCHANGED <<serverVars, account, busy, taskVars, late, attempts>>

(* handle_delete of a shown host, which may be gone already: the local     *)
(* copy goes at once, the server's through a task; the list keeps the row. *)
ClickDelete(d, id) ==
  LET st == delete_host(local[d], id)
      vault_id == Linked(WithId(local[d].hosts, id))
  IN  /\ id \in shown[d]
      /\ Change
      /\ local' = [local EXCEPT ![d] = st]
      /\ Save(d, st)
      /\ \E u \in account[d], n \in Slots :
           /\ FreeSlot(deletions[d], n)
           /\ deletions' = [deletions EXCEPT ![d] =
                @ \cup {[slot |-> n, user |-> u, pc |-> "host",
                         id |-> id, vault_id |-> vault_id]}]
      /\ busy' = [busy EXCEPT ![d] = TRUE]
      /\ UNCHANGED <<serverVars, clock, account, editing, shown, signIns,
                     syncs, late, attempts, written>>

(* A font, theme or language handler: it saves the whole local state.      *)
SavePreferences(d) ==
  /\ Save(d, local[d])
  /\ UNCHANGED <<serverVars, local, clock, account, busy, editing, shown,
                 taskVars, late, changes, attempts,
                 written>>

(* The process ends at any moment and starts again from its file.          *)
Restart(d) ==
  /\ Fault
  /\ local' = [local EXCEPT ![d] = Load(disk[d])]
  /\ account' = [account EXCEPT ![d] = {}]
  /\ busy' = [busy EXCEPT ![d] = FALSE]
  /\ editing' = [editing EXCEPT ![d] = {}]
  /\ Refresh(d, local'[d])
  /\ signIns' = [signIns EXCEPT ![d] = {}]
  /\ syncs' = [syncs EXCEPT ![d] = {}]
  /\ deletions' = [deletions EXCEPT ![d] = {}]
  /\ UNCHANGED <<serverVars, disk, clock, late, changes, attempts, written>>

-----------------------------------------------------------------------------
(* Steps of a sign-in.                                                     *)

NextSignIn(d, t, pc) ==
  signIns' = [signIns EXCEPT ![d] = Replace(@, t, [t EXCEPT !.pc = pc])]

(* A name that is taken is answered with 409.                              *)
RegisterServed(d, t) ==
  /\ t.pc = "register"
  /\ \/ t.user \notin userTable /\ CreateUser(t.user) /\ NextSignIn(d, t, "ok")
     \/ t.user \in userTable /\ UNCHANGED serverVars /\ NextSignIn(d, t, "err")
  /\ UNCHANGED <<uiVars, syncs, deletions, late, countVars>>

LoginServed(d, t) ==
  /\ t.pc = "login"
  /\ NextSignIn(d, t, IF t.user \in userTable THEN "ok" ELSE "err")
  /\ UNCHANGED <<serverVars, uiVars, syncs, deletions, late, countVars>>

(* No answer: refused, an error status, a bad body, or a timeout, after    *)
(* which the server may still create the account.                          *)
SignInFails(d, t) ==
  /\ t.pc \in {"login", "register"}
  /\ Fault
  /\ NextSignIn(d, t, "err")
  /\ \/ UNCHANGED late
     \/ t.pc = "register"
        /\ late' = late \cup {[op |-> "register", user |-> t.user]}
  /\ UNCHANGED <<serverVars, uiVars, syncs, deletions, changes, attempts,
                 written>>

(* handle_event, Login(Ok) or Register(Ok): save, and start a sync.        *)
OnSignedIn(d, t) ==
  /\ t.pc = "ok"
  /\ signIns' = [signIns EXCEPT ![d] = @ \ {t}]
  /\ account' = [account EXCEPT ![d] = {t.user}]
  /\ Save(d, local[d])
  /\ Refresh(d, local[d])
  /\ SpawnSync(d, t.user)
  /\ UNCHANGED <<serverVars, local, clock, editing, deletions, late, changes,
                 attempts, written>>

(* handle_event, Login(Err) or Register(Err).                              *)
OnSignInFailed(d, t) ==
  /\ t.pc = "err"
  /\ signIns' = [signIns EXCEPT ![d] = @ \ {t}]
  /\ busy' = [busy EXCEPT ![d] = FALSE]
  /\ UNCHANGED <<serverVars, local, disk, clock, account, editing, shown,
                 syncs, deletions, late, countVars>>

-----------------------------------------------------------------------------
(* Steps of a sync.                                                        *)

NextSync(d, t, new) == syncs' = [syncs EXCEPT ![d] = Replace(@, t, new)]

(* push sends the vault entries first.                                     *)
PushVault(d, t, v) ==
  /\ t.pc = "push" /\ v \in t.todoVault
  /\ UpsertVaultEntry(t.user, SealVault(t.user, v))
  /\ NextSync(d, t, [t EXCEPT !.todoVault = @ \ {v}])
  /\ UNCHANGED <<uiVars, signIns, deletions, late, countVars>>

(* Mutant: hosts do not wait for the vault entries.                        *)
PushHostAnyTime(d, t, h) ==
  /\ t.pc = "push" /\ h \in t.todoHosts
  /\ UpsertHost(t.user, SealHost(t.user, h))
  /\ NextSync(d, t, [t EXCEPT !.todoHosts = @ \ {h}])
  /\ UNCHANGED <<uiVars, signIns, deletions, late, countVars>>

(* The answer's ok: false, for a stale host, is not looked at.             *)
PushHost(d, t, h) ==
  /\ t.pc = "push" /\ t.todoVault = {} /\ h \in t.todoHosts
  /\ UpsertHost(t.user, SealHost(t.user, h))
  /\ NextSync(d, t, [t EXCEPT !.todoHosts = @ \ {h}])
  /\ UNCHANGED <<uiVars, signIns, deletions, late, countVars>>

(* pull: GET /hosts.                                                       *)
PullHosts(d, t) ==
  /\ t.pc = "push" /\ t.todoVault = {} /\ t.todoHosts = {}
  /\ NextSync(d, t, [t EXCEPT !.pc = "pullVault", !.rows = hostTable[t.user]])
  /\ UNCHANGED <<serverVars, uiVars, signIns, deletions, late, countVars>>

(* pull: GET /vault, then every row of both answers is opened.             *)
AllOpen(t, entries) ==
  /\ \A r \in t.rows : HostOpens(t.user, r)
  /\ \A v \in entries : VaultOpens(t.user, v)

Pulled(t, entries) ==
  [t EXCEPT !.pc = "ok", !.rows = {},
            !.gotHosts = {OpenHost(r) : r \in t.rows},
            !.gotVault = {OpenVault(v) : v \in entries}]

PullVault(d, t) ==
  /\ t.pc = "pullVault"
  /\ NextSync(d, t, IF AllOpen(t, vaultTable[t.user])
                    THEN Pulled(t, vaultTable[t.user])
                    ELSE [t EXCEPT !.pc = "err", !.rows = {}])
  /\ UNCHANGED <<serverVars, uiVars, signIns, deletions, late, countVars>>

(* Mutant: a failed request is skipped and the push goes on.               *)
SyncFailsGoesOn(d, t) ==
  /\ t.pc = "push"
  /\ Fault
  /\ \/ \E v \in t.todoVault :
          NextSync(d, t, [t EXCEPT !.todoVault = @ \ {v}])
     \/ t.todoVault = {} /\ \E h \in t.todoHosts :
          NextSync(d, t, [t EXCEPT !.todoHosts = @ \ {h}])
  /\ UNCHANGED <<serverVars, uiVars, signIns, deletions, late, changes,
                 attempts, written>>

(* The first request that fails ends the sync; what was pushed stays.      *)
SyncFails(d, t) ==
  /\ t.pc \in {"push", "pullVault"}
  /\ Fault
  /\ NextSync(d, t, [t EXCEPT !.pc = "err", !.rows = {}])
  /\ \/ UNCHANGED late
     \/ t.pc = "push" /\ \E v \in t.todoVault :
          late' = late \cup {[op |-> "putVault", user |-> t.user,
                              row |-> SealVault(t.user, v)]}
     \/ t.pc = "push" /\ t.todoVault = {} /\ \E h \in t.todoHosts :
          late' = late \cup {[op |-> "putHost", user |-> t.user,
                              row |-> SealHost(t.user, h)]}
  /\ UNCHANGED <<serverVars, uiVars, signIns, deletions, changes,
                 attempts, written>>

(* handle_event, Sync(Ok): merge into what is local now, whoever is signed *)
(* in now.                                                                 *)
OnPulled(d, t) ==
  LET st == merge_remote(local[d], t.gotHosts, t.gotVault)
  IN  /\ t.pc = "ok"
      /\ syncs' = [syncs EXCEPT ![d] = @ \ {t}]
      /\ local' = [local EXCEPT ![d] = st]
      /\ Save(d, st)
      /\ busy' = [busy EXCEPT ![d] = FALSE]
      /\ Refresh(d, st)
      /\ UNCHANGED <<serverVars, clock, account, editing, signIns, deletions,
                     late, changes, attempts,
                 written>>

(* Mutant: a failed sync leaves the buttons disabled.                      *)
OnSyncFailedBusy(d, t) ==
  /\ t.pc = "err"
  /\ syncs' = [syncs EXCEPT ![d] = @ \ {t}]
  /\ UNCHANGED <<serverVars, uiVars, signIns, deletions, late, countVars>>

(* handle_event, Sync(Err).                                                *)
OnSyncFailed(d, t) ==
  /\ t.pc = "err"
  /\ syncs' = [syncs EXCEPT ![d] = @ \ {t}]
  /\ busy' = [busy EXCEPT ![d] = FALSE]
  /\ UNCHANGED <<serverVars, local, disk, clock, account, editing, shown,
                 signIns, deletions, late, countVars>>

-----------------------------------------------------------------------------
(* Steps of a deletion.                                                    *)

NextDeletion(d, t, pc) ==
  deletions' = [deletions EXCEPT ![d] = Replace(@, t, [t EXCEPT !.pc = pc])]

DeleteHostServed(d, t) ==
  /\ t.pc = "host"
  /\ DeleteHostRow(t.user, t.id)
  /\ NextDeletion(d, t, IF t.vault_id = {} THEN "ok" ELSE "vault")
  /\ UNCHANGED <<uiVars, signIns, syncs, late, countVars>>

DeleteVaultServed(d, t) ==
  /\ t.pc = "vault"
  /\ \E v \in t.vault_id : DeleteVaultEntry(t.user, v)
  /\ NextDeletion(d, t, "ok")
  /\ UNCHANGED <<uiVars, signIns, syncs, late, countVars>>

(* A failed deletion of the host ends the task; one of the vault entry is  *)
(* ignored (best-effort).                                                  *)
DeletionFails(d, t) ==
  /\ Fault
  /\ \/ /\ t.pc = "host"
        /\ NextDeletion(d, t, "err")
        /\ \/ UNCHANGED late
           \/ late' = late \cup {[op |-> "deleteHost", user |-> t.user,
                                  id |-> t.id]}
     \/ /\ t.pc = "vault"
        /\ NextDeletion(d, t, "ok")
        /\ \/ UNCHANGED late
           \/ \E v \in t.vault_id :
                late' = late \cup {[op |-> "deleteVault", user |-> t.user,
                                    id |-> v]}
  /\ UNCHANGED <<serverVars, uiVars, signIns, syncs, changes, attempts,
                 written>>

(* Mutant: a failed deletion leaves the buttons disabled.                  *)
OnDeletedBusy(d, t) ==
  /\ t.pc \in {"ok", "err"}
  /\ deletions' = [deletions EXCEPT ![d] = @ \ {t}]
  /\ busy' = [busy EXCEPT ![d] = @ /\ t.pc = "err"]
  /\ IF t.pc = "ok" THEN Refresh(d, local[d]) ELSE UNCHANGED shown
  /\ UNCHANGED <<serverVars, local, disk, clock, account, editing, signIns,
                 syncs, late, countVars>>

(* handle_event, Deleted(Ok): it refreshes the list, Deleted(Err) does not. *)
OnDeleted(d, t) ==
  /\ t.pc \in {"ok", "err"}
  /\ deletions' = [deletions EXCEPT ![d] = @ \ {t}]
  /\ busy' = [busy EXCEPT ![d] = FALSE]
  /\ IF t.pc = "ok" THEN Refresh(d, local[d]) ELSE UNCHANGED shown
  /\ UNCHANGED <<serverVars, local, disk, clock, account, editing, signIns,
                 syncs, late, countVars>>

-----------------------------------------------------------------------------
(* A request whose client gave up reaches the server after all.            *)
LateServed(q) ==
  /\ Serve(q)
  /\ late' = late \ {q}
  /\ UNCHANGED <<uiVars, taskVars, countVars>>

SignInStep(d) ==
  \E t \in signIns[d] :
    \/ RegisterServed(d, t) \/ LoginServed(d, t) \/ SignInFails(d, t)
    \/ OnSignedIn(d, t) \/ OnSignInFailed(d, t)

SyncStep(d) ==
  \E t \in syncs[d] :
    \/ \E v \in t.todoVault : PushVault(d, t, v)
    \/ \E h \in t.todoHosts : PushHost(d, t, h)
    \/ PullHosts(d, t) \/ PullVault(d, t) \/ SyncFails(d, t)
    \/ OnPulled(d, t) \/ OnSyncFailed(d, t)

DeletionStep(d) ==
  \E t \in deletions[d] :
    \/ DeleteHostServed(d, t) \/ DeleteVaultServed(d, t)
    \/ DeletionFails(d, t) \/ OnDeleted(d, t)

UserStep(d) ==
  \/ \E u \in Users, op \in {"login", "register"} : ClickSignIn(d, u, op)
  \/ ClickSync(d) \/ ClickLogout(d) \/ ClickSearch(d) \/ ClickNewHost(d)
  \/ \E id \in shown[d] : ClickEdit(d, id) \/ ClickDelete(d, id)
  \/ \E form \in Forms, now \in Times : SaveHost(d, form, now)
  \/ SavePreferences(d) \/ Restart(d)

Next ==
  \/ \E d \in Devices :
       SignInStep(d) \/ SyncStep(d) \/ DeletionStep(d) \/ UserStep(d)
  \/ \E q \in late : LateServed(q)

Spec == Init /\ [][Next]_vars
-----------------------------------------------------------------------------
(* Safety.                                                                 *)

(* Two rows of one list or table never share an id: the find-or-push of    *)
(* store.rs and merge_remote, and the server's primary keys, keep every    *)
(* list a map whatever order syncs, saves and deletions come in.           *)
KeysUnique ==
  /\ \A d \in Devices : UniqueIds(local[d].hosts) /\ UniqueIds(local[d].vault)
  /\ \A d \in Devices : \A st \in disk[d] :
       UniqueIds(st.hosts) /\ UniqueIds(st.vault)
  /\ \A u \in Users : UniqueIds(hostTable[u]) /\ UniqueIds(vaultTable[u])

(* Whatever is stored under an account opens with that account's key and   *)
(* the row's own associated data: no sign-in, logout, late request or edit *)
(* makes a row that would fail every later pull of the account.            *)
EveryRowOpens ==
  \A u \in Users :
    /\ \A r \in hostTable[u] : HostOpens(u, r)
    /\ \A v \in vaultTable[u] : VaultOpens(u, v)

(* A host's key_password_id finds its passphrase among the given entries,  *)
(* unless some device deleted that entry on the server.                    *)
Resolves(hosts, vault) == Linked(hosts) \subseteq IdsOf(vault) \cup removedVault

(* "Vault entries first (so host.key_password_id references resolve)",     *)
(* sync.rs: on every device, in every file and on the server a link can    *)
(* dangle only because the entry was deleted, never because a host arrived *)
(* before or without its entry.                                            *)
LinksResolve ==
  /\ \A d \in Devices : Resolves(local[d].hosts, local[d].vault)
  /\ \A d \in Devices : \A st \in disk[d] : Resolves(st.hosts, st.vault)
  /\ \A u \in Users : Resolves(hostTable[u], vaultTable[u])

(* A sync that succeeds brings back every host it pushed, at least as new, *)
(* unless somebody deleted that host: between its push and its pull other  *)
(* devices may overwrite rows, but not with older ones.                    *)
RoundTrip ==
  \A d \in Devices : \A t \in syncs[d] : t.pc = "ok" =>
    \A h \in t.hosts :
      \/ h.id \in removedHosts
      \/ \E g \in t.gotHosts : g.id = h.id /\ g.updated_at >= h.updated_at

(* The buttons are disabled only while a task is still going to enable     *)
(* them: no order of events, logouts and restarts leaves busy set with     *)
(* nothing running.                                                        *)
BusyHasCause ==
  \A d \in Devices :
    busy[d] => signIns[d] # {} \/ syncs[d] # {} \/ deletions[d] # {}

-----------------------------------------------------------------------------
(* The promise of SyncReplicas, and what implements it: a device's replica *)
(* is its host list, its file the hosts in state.json, and the server's    *)
(* are its rows, opened.                                                   *)
Replicas == INSTANCE SyncReplicas WITH
  written <- {w.host : w \in written},
  device <- [d \in Devices |-> local[d].hosts],
  file <- [d \in Devices |-> UNION {st.hosts : st \in disk[d]}],
  server <- [u \in Users |-> {OpenHost(r) : r \in hostTable[u]}]

(* Hosts only travel as they were saved (encryption and decryption give    *)
(* back what was typed), the server replaces a row only by one not older,  *)
(* and a sync replaces a device's host only by a strictly newer one,       *)
(* however saves, pushes, pulls, deletions and late requests interleave.   *)
ImplementsReplicas == Replicas!Spec

-----------------------------------------------------------------------------
(* Liveness.  A request is answered or times out, and the UI's timer runs  *)
(* pump, so every task goes on; users do nothing they do not want to.      *)
Fairness ==
  \A d \in Devices :
    /\ WF_vars(SignInStep(d))
    /\ WF_vars(SyncStep(d))
    /\ WF_vars(DeletionStep(d))

FairSpec == Spec /\ Fairness

(* The buttons come back: whatever fails, and whichever of several tasks   *)
(* ends first, busy is eventually reset.                                   *)
BusyClears == \A d \in Devices : busy[d] ~> ~busy[d]

SyncsForever ==
  \A d \in Devices : []<>(\E t \in syncs[d] : t.pc = "ok")

Versions(hosts) == {<<h.id, h.updated_at>> : h \in hosts}

(* If every device goes on completing syncs of one account, then after the *)
(* last save and deletion all devices and the server come to hold the same *)
(* hosts with the same updated_at: deletions and concurrent edits settle.  *)
TimestampsConverge ==
  SyncsForever =>
    <>[](\A u \in userTable, d \in Devices :
           Versions(local[d].hosts) = Versions(hostTable[u]))
=============================================================================
