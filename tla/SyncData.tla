------------------------------- MODULE SyncData -------------------------------
(***************************************************************************)
(* The data that the client and the server of shi exchange: hosts, vault   *)
(* entries, their encrypted forms, and the row operations both sides use.  *)
(*                                                                         *)
(* Option<T> is a set of at most one element.  A Vec or a SQL table keyed  *)
(* by id is a set of rows; that no two rows share an id is an invariant to *)
(* be checked (KeysUnique in SyncSystem), not a matter of representation.  *)
(* What the user types is named by the number of the save that stored it   *)
(* (a stamp), and new_id() draws the same number: both are never reused.   *)
(***************************************************************************)
EXTENDS Integers

CONSTANTS
  Users,        \* account names
  MaxChanges,   \* bound: saves and deletions made by users
  MaxClock      \* bound: the last second a device's clock shows

ASSUME BoundsAssumption == MaxChanges \in Nat /\ MaxClock \in Nat

Stamps == 1..MaxChanges
Ids == Stamps
Times == 0..MaxClock

Option(S) == {o \in SUBSET S : \A x, y \in o : x = y}

AuthMethod == {"password", "key"}

(* The fields the properties tell apart: name stands for everything the    *)
(* user typed (host, port, user name, key path), password and              *)
(* key_password_id are the two ways a host holds a secret.                 *)
HostConfig ==
  [id: Ids, name: Stamps, auth_method: AuthMethod, password: Option(Stamps),
   key_password_id: Option(Ids), updated_at: Times]

LocalVaultEntry ==
  [id: Ids, label: Stamps, passphrase: Stamps, updated_at: Times]

-----------------------------------------------------------------------------
(* Encryption.  The vault key is derived from a user's password and salt,  *)
(* so it is named by the user.  AES-GCM opens a ciphertext only with the   *)
(* key and the associated data it was sealed with; the associated data is  *)
(* the host id for a password and the label for a passphrase.              *)
Sealed == [key: Users, aad: Stamps, text: Stamps]

(* Mutant: the secret is not bound to anything.                            *)
EncryptUnbound(key, text, aad) == [key |-> key, aad |-> 0, text |-> text]

encrypt_secret(key, text, aad) == [key |-> key, aad |-> aad, text |-> text]

Opens(key, sealed, aad) == sealed.key = key /\ sealed.aad = aad

SealedHost ==
  [id: Ids, name: Stamps, auth_method: AuthMethod, password: Option(Sealed),
   key_password_id: Option(Ids), updated_at: Times]

VaultEntry ==
  [id: Ids, label: Stamps, ciphertext: Sealed, updated_at: Times]

(* SyncClient::push: a key host carries no password.                       *)
SealHost(key, h) ==
  [h EXCEPT !.password =
     {encrypt_secret(key, p, h.id) :
        p \in {q \in h.password : h.auth_method = "password"}}]

SealVault(key, v) ==
  [id |-> v.id, label |-> v.label, updated_at |-> v.updated_at,
   ciphertext |-> encrypt_secret(key, v.passphrase, v.label)]

(* SyncClient::pull opens every row and fails as a whole if one does not.  *)
HostOpens(key, row) ==
  row.auth_method = "password" =>
    \A s \in row.password : Opens(key, s, row.id)

VaultOpens(key, row) == Opens(key, row.ciphertext, row.label)

OpenHost(row) ==
  [row EXCEPT !.password =
     {s.text : s \in {q \in row.password : row.auth_method = "password"}}]

OpenVault(row) ==
  [id |-> row.id, label |-> row.label, updated_at |-> row.updated_at,
   passphrase |-> row.ciphertext.text]

-----------------------------------------------------------------------------
IdsOf(rows) == {r.id : r \in rows}

UniqueIds(rows) == \A r, s \in rows : r.id = s.id => r = s

WithId(rows, id) == {r \in rows : r.id = id}

(* Mutant: a row is pushed without looking for its id.                     *)
Append1(rows, r) == rows \cup {r}

Upsert(rows, r) == {s \in rows : s.id # r.id} \cup {r}

(* Mutant: a write never loses.                                            *)
PutAlways(rows, r) == Upsert(rows, r)

(* Database::upsert_host and upsert_vault_entry: a write loses only        *)
(* against a stored row that is strictly newer.                            *)
PutNewer(rows, r) ==
  IF \E s \in rows : s.id = r.id /\ s.updated_at > r.updated_at
  THEN rows
  ELSE Upsert(rows, r)

Remove(rows, id) == {r \in rows : r.id # id}

(* The vault entries that some host in the list refers to.                 *)
Linked(hosts) == UNION {h.key_password_id : h \in hosts}
=============================================================================
