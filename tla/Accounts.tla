------------------------------- MODULE Accounts -------------------------------
(***************************************************************************)
(* Accounts, tokens and vault keys: crates/server/src/{auth,main}.rs, the  *)
(* account handlers of routes.rs, and the sign-in of the client's sync.rs. *)
(*                                                                         *)
(* A device registers a name or logs in to it, and holds a token and a     *)
(* vault key afterwards.  The token says for whom the server takes the     *)
(* device; the key is derived from the typed password and the salt of the  *)
(* account.  Requests are served late, or lost; a device gives up waiting; *)
(* the server restarts, with another secret if none was configured.        *)
(*                                                                         *)
(* A password stands for its hash, and a vault key for the password and    *)
(* the salt it is derived from: Argon2 maps no two of them to one key.     *)
(***************************************************************************)
EXTENDS Integers, Sequences

CONSTANTS
  Names, Passwords, Devices,
  Secrets,      \* what an operator may configure as --secret
  Ttls,         \* and as --token-ttl, an unsigned number of 64 bits
  I64Max,       \* the largest signed number of 64 bits
  MaxTtl,       \* the longest lifetime chrono can add to the time
  Leeway,       \* how long jsonwebtoken accepts a token that has expired
  MaxRequests,  \* bound: requests sent
  MaxStarts,    \* bound: starts of the server
  MaxTime       \* bound: the last second of the server's clock

ASSUME AccountBounds ==
  /\ MaxRequests \in Nat /\ MaxStarts \in Nat \ {0} /\ MaxTime \in Nat
  /\ Leeway \in Nat /\ I64Max \in Nat /\ MaxTtl \in 0..I64Max

ASSUME TtlsAssumption == Ttls \subseteq 0..(2 * I64Max + 1)

VARIABLES
  users,        \* the table users, a set of rows
  lastId,       \* the last id AUTOINCREMENT gave
  jwt,          \* JwtConfig of this start, with the lifetime as configured
  starts,       \* number of starts of the server
  now,          \* the server's clock
  clients,      \* [Devices -> Option(Client)]: SyncClient once signed in
  waiting,      \* [Devices -> Option(1..MaxRequests)]: the sign-in it awaits
  requests,     \* requests and answers on their way or being served
  sent,         \* number of requests sent
  proofs,       \* history: sign-ins that showed the account's password
  salts         \* history: [Names -> the salts the account has had]

serverVars == <<users, lastId, jwt, starts, now>>
deviceVars == <<clients, waiting>>
networkVars == <<requests, sent>>
historyVars == <<proofs, salts>>
vars == <<serverVars, deviceVars, networkVars, historyVars>>

Option(S) == {o \in SUBSET S : \A x, y \in o : x = y}

(* A salt is named by the request that uploaded it.  POST /vault/salt only *)
(* asks that it is not empty; a negative salt is one the client cannot     *)
(* decode, or that is too short for Argon2.  0 is none.                    *)
Salt == -MaxRequests..MaxRequests

Usable(salt) == salt > 0

UserRow == [id: 1..MaxRequests, name: Names, password: Passwords, salt: Salt]

(* A random secret is new with every start.                                *)
Secret == {[random |-> TRUE, no |-> s] : s \in 1..MaxStarts}
            \cup {[random |-> FALSE, no |-> s] : s \in Secrets}

JwtConfig == [secret: Secret, ttl: Ttls]

(* Claims, signed with a secret.                                           *)
Token ==
  [uid: 1..MaxRequests, sub: Names, exp: -MaxTtl..(MaxTime + MaxTtl), secret: Secret]

(* asked: how many salts the account had had when the request was sent.    *)
Client ==
  [name: Names, password: Passwords, salt: Salt, token: Token, asked: Nat]

(* row is what login found, token what a request bears or is answered with. *)
Request ==
  [no: 1..MaxRequests, op: {"register", "login", "salt"}, name: Names,
   password: Passwords, salt: Salt, asked: Nat,
   pc: {"sent", "verify", "answered", "refused"},
   row: Option(UserRow), token: Option(Token)]

Proof ==
  [uid: 1..MaxRequests, at: 0..MaxTime, start: 1..MaxStarts, ttl: Ttls]

TypeOK ==
  /\ users \subseteq UserRow
  /\ lastId \in 0..MaxRequests
  /\ jwt \in JwtConfig
  /\ starts \in 1..MaxStarts
  /\ now \in 0..MaxTime
  /\ clients \in [Devices -> Option(Client)]
  /\ waiting \in [Devices -> Option(1..MaxRequests)]
  /\ requests \subseteq Request
  /\ sent \in 0..MaxRequests
  /\ proofs \subseteq Proof
  /\ salts \in [Names -> Seq(Salt)]

-----------------------------------------------------------------------------
(* Tokens.                                                                 *)

(* JwtConfig::new: the lifetime is cast to i64.                            *)
ttl_seconds == IF jwt.ttl <= I64Max THEN jwt.ttl ELSE jwt.ttl - 2 * (I64Max + 1)

(* chrono panics if the time of expiry is out of its range.                *)
Issues == -MaxTtl <= ttl_seconds /\ ttl_seconds <= MaxTtl

(* Mutant: the lifetime is added as it was configured.                     *)
IssueUncast(uid, name) ==
  [uid |-> uid, sub |-> name, exp |-> now + jwt.ttl, secret |-> jwt.secret]

issue(uid, name) ==
  [uid |-> uid, sub |-> name, exp |-> now + ttl_seconds, secret |-> jwt.secret]

(* Mutant: only the signature is checked.                                  *)
VerifySignature(token) == token.secret = jwt.secret

(* jsonwebtoken's defaults: the signature, and exp with a leeway.          *)
verify(token) == token.secret = jwt.secret /\ token.exp + Leeway >= now

Configs(start) ==
  [secret: {[random |-> TRUE, no |-> start]}
             \cup {[random |-> FALSE, no |-> s] : s \in Secrets},
   ttl: Ttls]

Init ==
  /\ users = {} /\ lastId = 0
  /\ jwt \in Configs(1)
  /\ starts = 1 /\ now = 0
  /\ clients = [d \in Devices |-> {}]
  /\ waiting = [d \in Devices |-> {}]
  /\ requests = {} /\ sent = 0
  /\ proofs = {}
  /\ salts = [n \in Names |-> <<>>]

-----------------------------------------------------------------------------
(* The devices.                                                            *)

Send(r) == requests' = requests \cup {r} /\ sent' = sent + 1

(* handle_auth and the request of SyncClient::register, which draws a      *)
(* fresh salt, or of SyncClient::login.                                    *)
SignIn(d, op, n, p) ==
  /\ sent < MaxRequests
  /\ clients[d] = {} /\ waiting[d] = {}
  /\ Send([no |-> sent + 1, op |-> op, name |-> n, password |-> p,
           salt |-> IF op = "register" THEN sent + 1 ELSE 0,
           asked |-> Len(salts[n]), pc |-> "sent", row |-> {}, token |-> {}])
  /\ waiting' = [waiting EXCEPT ![d] = {sent + 1}]
  /\ UNCHANGED <<serverVars, clients, historyVars>>

(* The answer to the request arrives: the token is kept, and the key is    *)
(* derived, unless the salt is of no use.                                  *)
SignedIn(d, r) ==
  /\ r.pc = "answered" /\ waiting[d] = {r.no}
  /\ waiting' = [waiting EXCEPT ![d] = {}]
  /\ clients' = [clients EXCEPT ![d] =
       {[name |-> r.name, password |-> r.password, salt |-> r.salt,
         token |-> t, asked |-> r.asked] : t \in {u \in r.token : Usable(r.salt)}}]
  /\ requests' = requests \ {r}
  /\ UNCHANGED <<serverVars, sent, historyVars>>

SignInRefused(d, r) ==
  /\ r.pc = "refused" /\ waiting[d] = {r.no}
  /\ waiting' = [waiting EXCEPT ![d] = {}]
  /\ requests' = requests \ {r}
  /\ UNCHANGED <<serverVars, clients, sent, historyVars>>

(* After 20 s, or with the process: the request may still be served.       *)
GivesUp(d) ==
  /\ waiting[d] # {}
  /\ waiting' = [waiting EXCEPT ![d] = {}]
  /\ requests' =
       {r \in requests : waiting[d] = {r.no} => r.pc \in {"sent", "verify"}}
  /\ UNCHANGED <<serverVars, clients, sent, historyVars>>

(* on_logout_clicked, or the end of the process.                           *)
SignOut(d) ==
  /\ clients[d] # {}
  /\ clients' = [clients EXCEPT ![d] = {}]
  /\ UNCHANGED <<serverVars, waiting, networkVars, historyVars>>

(* Whoever holds the token of d replaces the salt; the client of the       *)
(* repository has no such request.                                         *)
PostSalt(d, salt) ==
  /\ sent < MaxRequests
  /\ \E c \in clients[d] :
       Send([no |-> sent + 1, op |-> "salt", name |-> c.name,
             password |-> c.password, salt |-> salt, asked |-> 0, pc |-> "sent",
             row |-> {}, token |-> {c.token}])
  /\ UNCHANGED <<serverVars, deviceVars, historyVars>>

-----------------------------------------------------------------------------
(* The server.                                                             *)

(* An answer nobody waits for any more is gone.                            *)
Answer(r, new) ==
  requests' = (requests \ {r}) \cup
    {m \in {new} : m.pc = "verify" \/ \E d \in Devices : waiting[d] = {m.no}}

WithName(n) == {u \in users : u.name = n}

SaltsNow(n, salt) == salts' = [salts EXCEPT ![n] = Append(@, salt)]

Proved(uid) ==
  proofs' = proofs \cup
    {[uid |-> uid, at |-> now, start |-> starts, ttl |-> jwt.ttl]}

(* Mutant: a row with this name is replaced.                               *)
CreateOrReplace(r) ==
  /\ lastId' = lastId + 1
  /\ users' = (users \ WithName(r.name)) \cup
       {[id |-> lastId + 1, name |-> r.name, password |-> r.password, salt |-> r.salt]}

(* Db::create_user, where username is UNIQUE.                              *)
create_user(r) ==
  /\ WithName(r.name) = {}
  /\ lastId' = lastId + 1
  /\ users' = users \cup
       {[id |-> lastId + 1, name |-> r.name, password |-> r.password, salt |-> r.salt]}

(* register: if no token can be issued the account exists all the same.    *)
RegisterServed(r) ==
  /\ r.op = "register" /\ r.pc = "sent"
  /\ create_user(r)
  /\ IF Issues
     THEN Answer(r, [r EXCEPT !.pc = "answered",
                              !.token = {issue(lastId + 1, r.name)}])
     ELSE requests' = requests \ {r}
  /\ Proved(lastId + 1)
  /\ SaltsNow(r.name, r.salt)
  /\ UNCHANGED <<jwt, starts, now, deviceVars, sent>>

(* Mutant: a registration that is tried again is answered as the first.    *)
RegisterAgain(r) ==
  /\ r.op = "register" /\ r.pc = "sent" /\ Issues
  /\ \E u \in WithName(r.name) :
       /\ u.password = r.password
       /\ Answer(r, [r EXCEPT !.pc = "answered", !.token = {issue(u.id, r.name)}])
  /\ UNCHANGED <<serverVars, deviceVars, sent, historyVars>>

(* register: "username already taken".                                     *)
RegisterConflict(r) ==
  /\ r.op = "register" /\ r.pc = "sent"
  /\ WithName(r.name) # {}
  /\ Answer(r, [r EXCEPT !.pc = "refused"])
  /\ UNCHANGED <<serverVars, deviceVars, sent, historyVars>>

(* login looks the name up and gives the mutex back...                     *)
LoginFinds(r) ==
  /\ r.op = "login" /\ r.pc = "sent"
  /\ \/ \E u \in WithName(r.name) :
          Answer(r, [r EXCEPT !.pc = "verify", !.row = {u}])
     \/ WithName(r.name) = {} /\ Answer(r, [r EXCEPT !.pc = "refused"])
  /\ UNCHANGED <<serverVars, deviceVars, sent, historyVars>>

(* verify_login_password: the hash has a salt of its own.                  *)
Matches(r, u) == u.password = r.password

(* Mutant: the hash is not compared.                                       *)
LoginAnyone(r) ==
  /\ r.pc = "verify" /\ Issues
  /\ \E u \in r.row :
       /\ Proved(u.id)
       /\ Answer(r, [r EXCEPT !.pc = "answered", !.salt = u.salt,
                              !.token = {issue(u.id, u.name)}])
  /\ UNCHANGED <<serverVars, deviceVars, sent, salts>>

(* ...then hashes the password, and answers with the salt it found.        *)
LoginVerifies(r) ==
  /\ r.pc = "verify" /\ Issues
  /\ \E u \in r.row :
       /\ Matches(r, u)
       /\ Proved(u.id)
       /\ Answer(r, [r EXCEPT !.pc = "answered", !.salt = u.salt,
                              !.token = {issue(u.id, u.name)}])
  /\ UNCHANGED <<serverVars, deviceVars, sent, salts>>

LoginRefuses(r) ==
  /\ r.pc = "verify"
  /\ \E u \in r.row : ~Matches(r, u)
  /\ Answer(r, [r EXCEPT !.pc = "refused"])
  /\ UNCHANGED <<serverVars, deviceVars, sent, historyVars>>

(* Db::set_vault_salt.                                                     *)
WithSalt(uid, salt) ==
  {IF u.id = uid THEN [u EXCEPT !.salt = salt] ELSE u : u \in users}

(* set_vault_salt: the row of the token's uid, if the token is accepted.   *)
SetVaultSalt(r) ==
  /\ r.op = "salt"
  /\ \E t \in r.token :
       /\ verify(t)
       /\ users' = WithSalt(t.uid, r.salt)
       /\ SaltsNow(t.sub, r.salt)
  /\ requests' = requests \ {r}
  /\ UNCHANGED <<lastId, jwt, starts, now, deviceVars, sent, proofs>>

(* AuthUser: 401.                                                          *)
SaltRefused(r) ==
  /\ r.op = "salt"
  /\ \A t \in r.token : ~verify(t)
  /\ requests' = requests \ {r}
  /\ UNCHANGED <<serverVars, deviceVars, sent, historyVars>>

(* Mutant: a secret that was drawn once is kept.                           *)
RestartKeeps(config) ==
  /\ starts < MaxStarts /\ starts' = starts + 1
  /\ jwt' = [jwt EXCEPT !.ttl = config.ttl]
  /\ requests' = {r \in requests : r.pc # "verify"}
  /\ UNCHANGED <<users, lastId, now, deviceVars, sent, historyVars>>

(* main: a new start, with whatever the operator configures now.           *)
Restart(config) ==
  /\ starts < MaxStarts /\ starts' = starts + 1
  /\ jwt' = config
  /\ requests' = {r \in requests : r.pc # "verify"}
  /\ UNCHANGED <<users, lastId, now, deviceVars, sent, historyVars>>

Tick ==
  /\ now < MaxTime /\ now' = now + 1
  /\ UNCHANGED <<users, lastId, jwt, starts, deviceVars, networkVars, historyVars>>

(* GET /health is answered at any time, also when every bound is reached.  *)
Health == UNCHANGED vars

-----------------------------------------------------------------------------
Served(r) ==
  \/ RegisterServed(r) \/ RegisterConflict(r)
  \/ LoginFinds(r) \/ LoginVerifies(r) \/ LoginRefuses(r)
  \/ SetVaultSalt(r) \/ SaltRefused(r)

DeviceStep(d) ==
  \/ \E op \in {"register", "login"}, n \in Names, p \in Passwords : SignIn(d, op, n, p)
  \/ \E r \in requests : SignedIn(d, r) \/ SignInRefused(d, r)
  \/ GivesUp(d) \/ SignOut(d)
  \/ \E salt \in {sent + 1, -(sent + 1)} : PostSalt(d, salt)

Next ==
  \/ \E d \in Devices : DeviceStep(d)
  \/ \E r \in requests : Served(r)
  \/ \E config \in Configs(starts + 1) : Restart(config)
  \/ Tick \/ Health

Spec == Init /\ [][Next]_vars
-----------------------------------------------------------------------------
(* Safety.                                                                 *)

(* A user name has one owner for good: however registrations of one name   *)
(* race, are retried after a timeout or are served late, the first one     *)
(* served decides whose password it is, and its id never changes.          *)
AccountsAreStable ==
  [][\A u \in users : \E v \in users' :
       /\ v.id = u.id /\ v.name = u.name /\ v.password = u.password
       /\ \A w \in users' : w.name = v.name => w = v]_vars

(* A token that is accepted makes its bearer the owner of the account the  *)
(* device signed in to: uid and sub name one row, and the device knows     *)
(* that row's password.                                                    *)
BearerIsOwner ==
  \A d \in Devices : \A c \in clients[d] :
    verify(c.token) =>
      \E u \in users :
        u.id = c.token.uid /\ u.name = c.token.sub
          /\ u.name = c.name /\ u.password = c.password

(* A token is accepted only within the configured lifetime and the leeway  *)
(* of a sign-in that showed the password, and, when the secret was not     *)
(* configured, only if that was in this start ("existing tokens become     *)
(* invalid on restart", main.rs): whatever sequence of secrets and         *)
(* lifetimes the starts had, and also if the lifetime overflows i64.       *)
AccessIsRecent ==
  \A d \in Devices : \A c \in clients[d] :
    verify(c.token) =>
      \E p \in proofs :
        /\ p.uid = c.token.uid
        /\ p.at + p.ttl + Leeway >= now
        /\ jwt.secret.random => p.start = starts

(* The key of a device is derived from the account's password and from a   *)
(* salt that the account had after the device asked, never an older one or *)
(* one that another registration made up.  So devices that sign in to one  *)
(* account hold one key as long as nobody replaces its salt, which is what *)
(* SyncSystem takes for granted when it names keys by user.                *)
KeyOfTheAccount ==
  \A d \in Devices : \A c \in clients[d] :
    /\ \E u \in users : u.name = c.name /\ u.password = c.password
    /\ \E i \in 1..Len(salts[c.name]) :
         i >= c.asked /\ salts[c.name][i] = c.salt
=============================================================================
