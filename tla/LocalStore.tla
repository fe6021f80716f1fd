------------------------------ MODULE LocalStore ------------------------------
(***************************************************************************)
(* The state file of a client, crates/client/src/store.rs, and the merge   *)
(* of a pulled state into it (merge_remote in app.rs), as functions of the *)
(* in-memory LocalState.                                                   *)
(***************************************************************************)
EXTENDS SyncData

LocalState == [hosts: SUBSET HostConfig, vault: SUBSET LocalVaultEntry]

(* LocalState::default, also what a client starts with when the file is    *)
(* missing or does not parse.                                              *)
DefaultState == [hosts |-> {}, vault |-> {}]

upsert_host(st, h) == [st EXCEPT !.hosts = Upsert(@, h)]

(* delete_host also drops every vault entry no remaining host refers to.   *)
delete_host(st, id) ==
  LET hosts == Remove(st.hosts, id)
  IN  [hosts |-> hosts, vault |-> {v \in st.vault : v.id \in Linked(hosts)}]

(* passphrase_for, as the set of the passphrases the host resolves to.     *)
passphrase_for(st, h) ==
  {v.passphrase : v \in {w \in st.vault : w.id \in h.key_password_id}}

(* Mutants: a pulled host is always taken; it is only taken when new.      *)
MergeHostsAlways(ours, pulled) ==
  {l \in ours : l.id \notin IdsOf(pulled)} \cup pulled

MergeHostsNew(ours, pulled) ==
  ours \cup {r \in pulled : r.id \notin IdsOf(ours)}

(* merge_remote: a pulled host is taken when it is new or strictly newer.  *)
MergeHosts(ours, pulled) ==
       {l \in ours : \A r \in pulled :
                       r.id = l.id => r.updated_at <= l.updated_at}
  \cup {r \in pulled : \A l \in ours :
                         l.id = r.id => r.updated_at > l.updated_at}

(* upsert_vault for each entry: it is taken whatever its age.              *)
MergeVault(ours, pulled) ==
  {l \in ours : l.id \notin IdsOf(pulled)} \cup pulled

merge_remote(st, hosts, vault) ==
  [hosts |-> MergeHosts(st.hosts, hosts),
   vault |-> MergeVault(st.vault, vault)]

(* LocalState::load: the file's contents, or the default (main.rs).        *)
Load(file) == IF file = {} THEN DefaultState ELSE CHOOSE st \in file : TRUE
=============================================================================
