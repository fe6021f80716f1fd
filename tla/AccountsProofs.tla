---------------------------- MODULE AccountsProofs ----------------------------
(***************************************************************************)
(* The invariants of Accounts, and that accounts are stable, for any       *)
(* number of names, passwords, devices, secrets and lifetimes, any bounds  *)
(* and any number of restarts.                                             *)
(***************************************************************************)
EXTENDS Accounts, FiniteSetTheorems, TLAPS

(* Registrations that are still to be served.                              *)
Unserved(reqs) == {r \in reqs : r.op = "register" /\ r.pc = "sent"}

(* An id is given out for a registration only, so that ids do not run out. *)
IdsLeft ==
  /\ IsFiniteSet(requests)
  /\ lastId + Cardinality(Unserved(requests)) <= sent

TypeInv == TypeOK /\ IdsLeft

(* A name and an id each belong to one row, whose salt is the last one     *)
(* that the account has had.                                               *)
Rows ==
  /\ \A u, v \in users : u.id = v.id \/ u.name = v.name => u = v
  /\ \A u \in users :
       /\ u.id <= lastId
       /\ salts[u.name] # <<>> /\ salts[u.name][Len(salts[u.name])] = u.salt

Owned(uid, name, password) ==
  \E u \in users : u.id = uid /\ u.name = name /\ u.password = password

Had(name, asked, salt) ==
  \E i \in 1..Len(salts[name]) : i >= asked /\ salts[name][i] = salt

(* What can be said of a token wherever it is: whose it is, and the        *)
(* sign-in for which it was issued.                                        *)
Earned(t, name, password) ==
  /\ t.sub = name /\ Owned(t.uid, name, password)
  /\ \E p \in proofs :
       /\ p.uid = t.uid /\ p.at + p.ttl >= t.exp
       /\ t.secret.random => p.start = t.secret.no

Found(r) ==
  \A u \in r.row :
    /\ u.name = r.name /\ Owned(u.id, u.name, u.password)
    /\ Had(r.name, r.asked, u.salt)

GoodRequest(r) ==
  /\ r.op = "salt" => r.pc = "sent"
  /\ r.op # "salt" => r.asked <= Len(salts[r.name])
  /\ r.pc = "verify" => Found(r)
  /\ r.pc = "answered" => Had(r.name, r.asked, r.salt)
  /\ r.pc = "answered" \/ r.op = "salt" =>
       \A t \in r.token : Earned(t, r.name, r.password)

GoodClient(c) ==
  Earned(c.token, c.name, c.password) /\ Had(c.name, c.asked, c.salt)

Inv ==
  /\ TypeInv
  /\ Rows
  /\ jwt.secret.random => jwt.secret.no = starts
  /\ \A r \in requests : GoodRequest(r)
  /\ \A d \in Devices : \A c \in clients[d] : GoodClient(c)

-----------------------------------------------------------------------------
(* Types.                                                                  *)

LEMMA InitType == Init => TypeInv
  <1> SUFFICES ASSUME Init PROVE TypeInv
    OBVIOUS
  <1>1. jwt \in JwtConfig
    BY AccountBounds DEF Init, Configs, JwtConfig, Secret
  <1>2. /\ {} \in Option(Client) /\ {} \in Option(1..MaxRequests)
        /\ <<>> \in Seq(Salt)
    BY DEF Option
  <1>3. TypeOK
    BY <1>1, <1>2, AccountBounds DEF Init, TypeOK
  <1>4. IdsLeft
    <2>1. Unserved(requests) = {}
      BY DEF Init, Unserved
    <2>2. IsFiniteSet({}) /\ Cardinality({}) = 0
      BY FS_EmptySet
    <2>3. requests = {} /\ lastId = 0 /\ sent = 0
      BY DEF Init
    <2>4. Cardinality(Unserved(requests)) = 0 /\ IsFiniteSet(requests)
      BY <2>1, <2>2, <2>3
    <2> QED BY <2>3, <2>4 DEF IdsLeft
  <1> QED BY <1>3, <1>4 DEF TypeInv

LEMMA SomeInOption ==
  ASSUME NEW S, NEW x \in S
  PROVE  {x} \in Option(S)
  BY DEF Option

LEMMA OptionElement ==
  ASSUME NEW S, NEW o \in Option(S)
  PROVE  o = {} \/ \E x \in S : o = {x}
  BY DEF Option

(* Adding at most one element, or taking one away.                         *)
LEMMA CountAdded ==
  ASSUME NEW S, IsFiniteSet(S), NEW x, NEW T \in SUBSET (S \cup {x})
  PROVE  /\ IsFiniteSet(T)
         /\ Cardinality(T) \in Nat /\ Cardinality(S) \in Nat
         /\ Cardinality(T) <= Cardinality(S) + 1
         /\ x \in S => Cardinality(T) <= Cardinality(S)
  <1>1. /\ IsFiniteSet(S \cup {x})
        /\ Cardinality(S \cup {x}) =
             IF x \in S THEN Cardinality(S) ELSE Cardinality(S) + 1
    BY FS_AddElement
  <1>2. IsFiniteSet(T) /\ Cardinality(T) <= Cardinality(S \cup {x})
    BY <1>1, FS_Subset
  <1>3. Cardinality(T) \in Nat /\ Cardinality(S) \in Nat
    BY <1>2, FS_CardinalityType
  <1> QED BY <1>1, <1>2, <1>3

LEMMA CountRemoved ==
  ASSUME NEW S, IsFiniteSet(S), NEW x \in S, NEW T \in SUBSET (S \ {x})
  PROVE  /\ Cardinality(T) \in Nat /\ Cardinality(S) \in Nat
         /\ Cardinality(T) + 1 <= Cardinality(S)
  <1>1. IsFiniteSet(S \ {x}) /\ Cardinality(S \ {x}) = Cardinality(S) - 1
    BY FS_RemoveElement
  <1>2. IsFiniteSet(T) /\ Cardinality(T) <= Cardinality(S \ {x})
    BY <1>1, FS_Subset
  <1>3. Cardinality(T) \in Nat /\ Cardinality(S) \in Nat
    BY <1>2, FS_CardinalityType
  <1> QED BY <1>1, <1>2, <1>3

(* A new request leaves ids for all that are to be served.                 *)
LEMMA SentLeavesIds ==
  ASSUME TypeInv, NEW r, Send(r), lastId' = lastId
  PROVE  IdsLeft'
  <1> DEFINE before == Unserved(requests)
             after == Unserved(requests')
  <1>1. /\ IsFiniteSet(requests) /\ lastId + Cardinality(before) <= sent
        /\ lastId \in Int /\ sent \in Int
    BY DEF TypeInv, TypeOK, IdsLeft
  <1>2. requests' = requests \cup {r} /\ sent' = sent + 1
    BY DEF Send
  <1>3. IsFiniteSet(requests')
    BY <1>1, <1>2, FS_AddElement
  <1>4. IsFiniteSet(before)
    BY <1>1, FS_Subset DEF Unserved
  <1>5. after \in SUBSET (before \cup {r})
    BY <1>2 DEF Unserved
  <1>6. /\ Cardinality(after) \in Nat /\ Cardinality(before) \in Nat
        /\ Cardinality(after) <= Cardinality(before) + 1
    BY <1>4, <1>5, CountAdded
  <1>7. lastId + Cardinality(after) <= sent + 1
    BY <1>1, <1>6
  <1> QED BY <1>2, <1>3, <1>7 DEF IdsLeft

(* So does any step that sends and registers nothing.                      *)
LEMMA OthersLeaveIds ==
  ASSUME TypeInv, NEW new, requests' \subseteq requests \cup {new},
         ~(new.op = "register" /\ new.pc = "sent"),
         lastId' = lastId, sent' = sent
  PROVE  IdsLeft'
  <1> DEFINE before == Unserved(requests)
             after == Unserved(requests')
  <1>1. /\ IsFiniteSet(requests) /\ lastId + Cardinality(before) <= sent
        /\ lastId \in Int /\ sent \in Int
    BY DEF TypeInv, TypeOK, IdsLeft
  <1>2. IsFiniteSet(requests')
    BY <1>1, CountAdded
  <1>3. IsFiniteSet(before) /\ after \in SUBSET before
    BY <1>1, FS_Subset DEF Unserved
  <1>4. IsFiniteSet(after) /\ Cardinality(after) <= Cardinality(before)
    BY <1>3, FS_Subset
  <1>5. Cardinality(after) \in Nat /\ Cardinality(before) \in Nat
    BY <1>3, <1>4, FS_CardinalityType
  <1>6. lastId + Cardinality(after) <= sent
    BY <1>1, <1>4, <1>5
  <1> QED BY <1>2, <1>6 DEF IdsLeft

LEMMA FewerLeaveIds ==
  ASSUME TypeInv, requests' \subseteq requests, lastId' = lastId, sent' = sent
  PROVE  IdsLeft'
  <1> DEFINE none == [op |-> "none", pc |-> "none"]
  <1>1. ~(none.op = "register" /\ none.pc = "sent")
    OBVIOUS
  <1>2. requests' \subseteq requests \cup {none}
    OBVIOUS
  <1> HIDE DEF none
  <1> QED BY <1>1, <1>2, OthersLeaveIds

(* A registration that is served has an id left, and leaves the others.    *)
LEMMA ServedLeavesIds ==
  ASSUME TypeInv, NEW r \in requests, r.op = "register", r.pc = "sent",
         NEW new, ~(new.op = "register" /\ new.pc = "sent"),
         requests' \subseteq (requests \ {r}) \cup {new},
         lastId' = lastId + 1, sent' = sent
  PROVE  lastId + 1 \in 1..MaxRequests /\ IdsLeft'
  <1> DEFINE before == Unserved(requests)
             after == Unserved(requests')
  <1>1. /\ IsFiniteSet(requests) /\ lastId + Cardinality(before) <= sent
        /\ lastId \in Nat /\ sent \in 0..MaxRequests
    BY DEF TypeInv, TypeOK, IdsLeft
  <1>2. IsFiniteSet(requests')
    BY <1>1, CountAdded
  <1>3. IsFiniteSet(before) /\ r \in before /\ after \in SUBSET (before \ {r})
    BY <1>1, FS_Subset DEF Unserved
  <1>4. /\ Cardinality(after) \in Nat /\ Cardinality(before) \in Nat
        /\ Cardinality(after) + 1 <= Cardinality(before)
    BY <1>3, CountRemoved
  <1>5. lastId + 1 + Cardinality(after) <= sent
    BY <1>1, <1>4
  <1>6. lastId + 1 \in 1..MaxRequests
    BY <1>1, <1>4, <1>5, AccountBounds
  <1> QED BY <1>2, <1>5, <1>6 DEF IdsLeft

LEMMA SendType ==
  ASSUME TypeInv, NEW r \in Request, sent < MaxRequests, Send(r)
  PROVE  requests' \subseteq Request /\ sent' \in 0..MaxRequests
  BY AccountBounds DEF TypeInv, TypeOK, Send

LEMMA AnswerSubset ==
  ASSUME NEW r, NEW new, Answer(r, new)
  PROVE  requests' \subseteq (requests \ {r}) \cup {new}
  BY DEF Answer

(* A step of a device.                                                     *)
LEMMA DeviceType ==
  ASSUME TypeInv, NEW d \in Devices, DeviceStep(d)
  PROVE  TypeInv'
  <1> USE DEF serverVars, deviceVars, networkVars, historyVars
  <1>0. TypeOK /\ \A n \in 0..MaxRequests : n < MaxRequests => n + 1 \in 1..MaxRequests
    BY AccountBounds DEF TypeInv
  <1>1. ASSUME NEW op \in {"register", "login"}, NEW n \in Names,
               NEW p \in Passwords, SignIn(d, op, n, p)
        PROVE  TypeInv'
    <2> DEFINE new == [no |-> sent + 1, op |-> op, name |-> n, password |-> p,
                       salt |-> IF op = "register" THEN sent + 1 ELSE 0,
                       asked |-> Len(salts[n]), pc |-> "sent",
                       row |-> {}, token |-> {}]
    <2>1. sent + 1 \in 1..MaxRequests
      BY <1>0, <1>1 DEF SignIn, TypeOK
    <2>2. /\ new.salt \in Salt /\ Len(salts[n]) \in Nat
          /\ {} \in Option(UserRow) /\ {} \in Option(Token)
      BY <1>0, <2>1, AccountBounds DEF TypeOK, Salt, Option
    <2>3. new \in Request
      BY <2>1, <2>2 DEF Request
    <2>4. sent < MaxRequests /\ Send(new)
      BY <1>1 DEF SignIn
    <2>5. requests' \subseteq Request /\ sent' \in 0..MaxRequests
      BY <2>3, <2>4, SendType
    <2>6. waiting' \in [Devices -> Option(1..MaxRequests)]
      BY <1>0, <1>1, <2>1, SomeInOption DEF SignIn, TypeOK
    <2>7. TypeOK'
      BY <1>0, <1>1, <2>5, <2>6 DEF SignIn, TypeOK
    <2>8. IdsLeft'
      BY <1>1, <2>4, SentLeavesIds DEF SignIn
    <2> QED BY <2>7, <2>8 DEF TypeInv
  <1>2. ASSUME NEW r \in requests, SignedIn(d, r) PROVE TypeInv'
    <2> DEFINE new == {[name |-> r.name, password |-> r.password, salt |-> r.salt,
                        token |-> t, asked |-> r.asked]
                         : t \in {u \in r.token : Usable(r.salt)}}
    <2>1. r \in Request
      BY <1>0 DEF TypeOK
    <2>2. r.token = {} \/ \E t \in Token : r.token = {t}
      BY <2>1, OptionElement DEF Request
    <2>3. \A t \in Token : [name |-> r.name, password |-> r.password,
             salt |-> r.salt, token |-> t, asked |-> r.asked] \in Client
      BY <2>1 DEF Request, Client
    <2>4. new \in Option(Client)
      BY <2>2, <2>3 DEF Option
    <2>5. clients' = [clients EXCEPT ![d] = new]
      BY <1>2 DEF SignedIn
    <2>6. clients' \in [Devices -> Option(Client)]
      BY <1>0, <2>4, <2>5 DEF TypeOK
    <2>7. {} \in Option(1..MaxRequests)
      BY DEF Option
    <2>8. TypeOK'
      BY <1>0, <1>2, <2>6, <2>7 DEF SignedIn, TypeOK
    <2>9. IdsLeft'
      BY <1>2, FewerLeaveIds DEF SignedIn
    <2> QED BY <2>8, <2>9 DEF TypeInv
  <1>4. {} \in Option(1..MaxRequests) /\ {} \in Option(Client)
    BY DEF Option
  <1>5. ASSUME NEW r \in requests, SignInRefused(d, r) PROVE TypeInv'
    <2>1. TypeOK'
      BY <1>0, <1>4, <1>5 DEF SignInRefused, TypeOK
    <2> QED BY <1>5, <2>1, FewerLeaveIds DEF SignInRefused, TypeInv
  <1>6. CASE GivesUp(d)
    <2>1. TypeOK'
      BY <1>0, <1>4, <1>6 DEF GivesUp, TypeOK
    <2> QED BY <1>6, <2>1, FewerLeaveIds DEF GivesUp, TypeInv
  <1>7. CASE SignOut(d)
    <2>1. TypeOK'
      BY <1>0, <1>4, <1>7 DEF SignOut, TypeOK
    <2> QED BY <1>7, <2>1, FewerLeaveIds DEF SignOut, TypeInv
  <1>8. ASSUME NEW salt \in {sent + 1, -(sent + 1)}, PostSalt(d, salt)
        PROVE  TypeInv'
    <2>1. PICK c \in clients[d] :
            Send([no |-> sent + 1, op |-> "salt", name |-> c.name,
                  password |-> c.password, salt |-> salt, asked |-> 0,
                  pc |-> "sent", row |-> {}, token |-> {c.token}])
      BY <1>8 DEF PostSalt
    <2> DEFINE new == [no |-> sent + 1, op |-> "salt", name |-> c.name,
                       password |-> c.password, salt |-> salt, asked |-> 0,
                       pc |-> "sent", row |-> {}, token |-> {c.token}]
    <2>2. c \in Client
      BY <1>0, OptionElement DEF TypeOK
    <2>3. sent + 1 \in 1..MaxRequests /\ sent < MaxRequests
      BY <1>0, <1>8 DEF PostSalt, TypeOK
    <2>4. salt \in Salt
      BY <2>3, AccountBounds DEF Salt
    <2>5. {} \in Option(UserRow) /\ {c.token} \in Option(Token)
      BY <2>2 DEF Option, Client
    <2>6. new \in Request
      BY <2>2, <2>3, <2>4, <2>5 DEF Request, Client
    <2>7. requests' \subseteq Request /\ sent' \in 0..MaxRequests
      BY <2>1, <2>3, <2>6, SendType
    <2>8. TypeOK'
      BY <1>0, <1>8, <2>7 DEF PostSalt, TypeOK
    <2>9. IdsLeft'
      BY <1>8, <2>1, SentLeavesIds DEF PostSalt
    <2> QED BY <2>8, <2>9 DEF TypeInv
  <1> QED BY <1>1, <1>2, <1>5, <1>6, <1>7, <1>8 DEF DeviceStep

(* A token that is issued.                                                 *)
LEMMA IssueType ==
  ASSUME TypeOK, Issues, NEW uid \in 1..MaxRequests, NEW name \in Names
  PROVE  /\ issue(uid, name) \in Token
         /\ issue(uid, name).uid = uid /\ issue(uid, name).sub = name
         /\ issue(uid, name).secret = jwt.secret
         /\ issue(uid, name).exp = now + ttl_seconds
  <1>1. jwt.secret \in Secret /\ ttl_seconds \in Int
    <2>1. jwt.secret \in Secret /\ jwt.ttl \in Ttls
      BY DEF TypeOK, JwtConfig
    <2>2. I64Max \in Int
      BY AccountBounds
    <2>3. jwt.ttl \in 0..(2 * I64Max + 1)
      BY <2>1, TtlsAssumption
    <2> QED BY <2>1, <2>2, <2>3 DEF ttl_seconds
  <1>2. now + ttl_seconds \in -MaxTtl..(MaxTime + MaxTtl)
    BY <1>1, AccountBounds DEF TypeOK, Issues
  <1> QED BY <1>1, <1>2 DEF issue, Token

LEMMA RowElement ==
  ASSUME NEW r \in Request, NEW u \in r.row
  PROVE  u \in UserRow
  BY OptionElement DEF Request

(* A step of the server.                                                   *)
LEMMA ServerType ==
  ASSUME TypeInv, NEW r \in requests, Served(r)
  PROVE  TypeInv'
  <1> USE DEF serverVars, deviceVars, networkVars, historyVars
  <1>0. TypeOK /\ r \in Request
    BY DEF TypeInv, TypeOK
  <1>2. ASSUME NEW new, new = [r EXCEPT !.pc = "refused"]
        PROVE  new \in Request /\ new.pc = "refused"
    BY <1>0, <1>2 DEF Request
  <1>3. ASSUME NEW new \in Request, new.pc # "sent", Answer(r, new),
               UNCHANGED <<users, lastId, jwt, starts, now, clients, waiting,
                           sent, salts>>,
               proofs' \subseteq Proof
        PROVE  TypeInv'
    <2>1. requests' \subseteq requests \cup {new}
      BY <1>3, AnswerSubset
    <2>2. TypeOK'
      BY <1>0, <1>3, <2>1 DEF TypeOK
    <2>3. IdsLeft'
      BY <1>3, <2>1, OthersLeaveIds
    <2> QED BY <2>2, <2>3 DEF TypeInv
  <1>4. ASSUME NEW uid \in 1..MaxRequests, Proved(uid)
        PROVE  proofs' \subseteq Proof
    <2>1. [uid |-> uid, at |-> now, start |-> starts, ttl |-> jwt.ttl] \in Proof
      BY <1>0 DEF TypeOK, Proof, JwtConfig
    <2> QED BY <1>0, <1>4, <2>1 DEF TypeOK, Proved
  <1>5. CASE RegisterServed(r)
    <2> DEFINE row == [id |-> lastId + 1, name |-> r.name,
                       password |-> r.password, salt |-> r.salt]
               new == [r EXCEPT !.pc = "answered",
                                !.token = {issue(lastId + 1, r.name)}]
    <2>1. new.pc = "answered"
      BY <1>0 DEF Request
    <2>2. requests' \subseteq (requests \ {r}) \cup {new}
      BY <1>5, AnswerSubset DEF RegisterServed
    <2>3. /\ lastId' = lastId + 1 /\ sent' = sent
          /\ r.op = "register" /\ r.pc = "sent"
      BY <1>5 DEF RegisterServed, create_user
    <2>4. lastId + 1 \in 1..MaxRequests /\ IdsLeft'
      <3> HIDE DEF new
      <3> QED BY <2>1, <2>2, <2>3, ServedLeavesIds
    <2>5. row \in UserRow
      BY <1>0, <2>4 DEF Request, UserRow
    <2>6. users' \subseteq UserRow
      BY <1>0, <1>5, <2>5 DEF RegisterServed, create_user, TypeOK
    <2>7. requests' \subseteq Request
      <3>1. CASE ~Issues
        BY <1>0, <1>5, <3>1 DEF RegisterServed, TypeOK
      <3>2. CASE Issues
        <4>1. r.name \in Names
          BY <1>0 DEF Request
        <4>2. {issue(lastId + 1, r.name)} \in Option(Token)
          BY <1>0, <2>4, <3>2, <4>1, IssueType, SomeInOption
        <4>3. new \in Request
          BY <1>0, <4>2 DEF Request
        <4> QED BY <1>0, <2>2, <4>3 DEF TypeOK
      <3> QED BY <3>1, <3>2
    <2>8. proofs' \subseteq Proof
      BY <1>4, <1>5, <2>4 DEF RegisterServed
    <2>9. salts' \in [Names -> Seq(Salt)]
      BY <1>0, <1>5 DEF RegisterServed, SaltsNow, TypeOK, Request
    <2>10. lastId' \in 0..MaxRequests
      BY <2>3, <2>4
    <2>11. UNCHANGED <<jwt, starts, now, clients, waiting, sent>>
      BY <1>5 DEF RegisterServed
    <2>12. TypeOK'
      BY <1>0, <2>6, <2>7, <2>8, <2>9, <2>10, <2>11 DEF TypeOK
    <2> QED BY <2>4, <2>12 DEF TypeInv
  <1>6. CASE RegisterConflict(r)
    BY <1>0, <1>2, <1>3, <1>6 DEF RegisterConflict, TypeOK
  <1>7. CASE LoginFinds(r)
    <2>1. ASSUME NEW u \in WithName(r.name),
                 Answer(r, [r EXCEPT !.pc = "verify", !.row = {u}])
          PROVE  TypeInv'
      <3>1. {u} \in Option(UserRow)
        BY <1>0, SomeInOption DEF WithName, TypeOK
      <3>2. [r EXCEPT !.pc = "verify", !.row = {u}] \in Request
            /\ [r EXCEPT !.pc = "verify", !.row = {u}].pc = "verify"
        BY <1>0, <3>1 DEF Request
      <3> QED BY <1>0, <1>3, <1>7, <2>1, <3>2 DEF LoginFinds, TypeOK
    <2>2. ASSUME Answer(r, [r EXCEPT !.pc = "refused"]) PROVE TypeInv'
      BY <1>0, <1>2, <1>3, <1>7, <2>2 DEF LoginFinds, TypeOK
    <2> QED BY <1>7, <2>1, <2>2 DEF LoginFinds
  <1>8. CASE LoginVerifies(r)
    <2>1. PICK u \in r.row :
            /\ Proved(u.id)
            /\ Answer(r, [r EXCEPT !.pc = "answered", !.salt = u.salt,
                                   !.token = {issue(u.id, u.name)}])
      BY <1>8 DEF LoginVerifies
    <2>2. u \in UserRow
      BY <1>0, RowElement
    <2>3. u.id \in 1..MaxRequests /\ u.name \in Names /\ u.salt \in Salt
      BY <2>2 DEF UserRow
    <2>4. Issues
      BY <1>8 DEF LoginVerifies
    <2>5. {issue(u.id, u.name)} \in Option(Token)
      BY <1>0, <2>3, <2>4, IssueType, SomeInOption
    <2> DEFINE new == [r EXCEPT !.pc = "answered", !.salt = u.salt,
                                !.token = {issue(u.id, u.name)}]
    <2>6. new \in Request /\ new.pc = "answered"
      BY <1>0, <2>3, <2>5 DEF Request
    <2>7. proofs' \subseteq Proof
      BY <1>4, <2>1, <2>3
    <2>8. /\ UNCHANGED <<users, lastId, jwt, starts, now, clients, waiting, sent, salts>>
          /\ Answer(r, new)
      BY <1>8, <2>1 DEF LoginVerifies
    <2> HIDE DEF new
    <2> QED BY <1>3, <2>6, <2>7, <2>8
  <1>9. CASE LoginRefuses(r)
    BY <1>0, <1>2, <1>3, <1>9 DEF LoginRefuses, TypeOK
  <1>10. CASE SetVaultSalt(r)
    <2>1. PICK t \in r.token :
            users' = WithSalt(t.uid, r.salt) /\ SaltsNow(t.sub, r.salt)
      BY <1>10 DEF SetVaultSalt
    <2>2. r.salt \in Salt /\ t.sub \in Names
      <3>1. r.salt \in Salt /\ r.token \in Option(Token)
        BY <1>0 DEF Request
      <3>2. t \in Token
        BY <3>1, OptionElement
      <3> QED BY <3>1, <3>2 DEF Token
    <2>3. users' \subseteq UserRow
      <3>1. \A u \in users : u \in UserRow /\ [u EXCEPT !.salt = r.salt] \in UserRow
        BY <1>0, <2>2 DEF TypeOK, UserRow
      <3> QED BY <2>1, <3>1 DEF WithSalt
    <2>4. salts' \in [Names -> Seq(Salt)]
      BY <1>0, <2>1, <2>2 DEF SaltsNow, TypeOK
    <2>5. TypeOK'
      BY <1>0, <1>10, <2>3, <2>4 DEF SetVaultSalt, TypeOK
    <2> QED BY <1>10, <2>5, FewerLeaveIds DEF SetVaultSalt, TypeInv
  <1>11. CASE SaltRefused(r)
    <2>1. TypeOK'
      BY <1>0, <1>11 DEF SaltRefused, TypeOK
    <2> QED BY <1>11, <2>1, FewerLeaveIds DEF SaltRefused, TypeInv
  <1> QED BY <1>5, <1>6, <1>7, <1>8, <1>9, <1>10, <1>11 DEF Served

LEMMA NextType == TypeInv /\ [Next]_vars => TypeInv'
  <1> SUFFICES ASSUME TypeInv, [Next]_vars PROVE TypeInv'
    OBVIOUS
  <1> USE DEF vars, serverVars, deviceVars, networkVars, historyVars
  <1>1. ASSUME NEW config \in Configs(starts + 1), Restart(config)
        PROVE  TypeInv'
    <2>1. starts' \in 1..MaxStarts
      BY <1>1, AccountBounds DEF TypeInv, TypeOK, Restart
    <2>2. jwt' \in JwtConfig
      BY <1>1, <2>1 DEF Restart, Configs, JwtConfig, Secret
    <2>3. TypeOK'
      BY <1>1, <2>1, <2>2 DEF TypeInv, TypeOK, Restart
    <2> QED BY <1>1, <2>3, FewerLeaveIds DEF Restart, TypeInv
  <1>2. CASE Tick
    <2>1. TypeOK'
      BY <1>2, AccountBounds DEF TypeInv, TypeOK, Tick
    <2> QED BY <1>2, <2>1 DEF Tick, TypeInv, IdsLeft
  <1>3. CASE UNCHANGED vars
    BY <1>3 DEF TypeInv, TypeOK, IdsLeft
  <1> QED BY <1>1, <1>2, <1>3, DeviceType, ServerType DEF Next, Health

(* Every variable keeps its type; in particular ids never run out.         *)
THEOREM TypeCorrect == Spec => []TypeOK
  <1>1. TypeInv => TypeOK
    BY DEF TypeInv
  <1> QED BY <1>1, InitType, NextType, PTL DEF Spec

-----------------------------------------------------------------------------
(* The tables only grow.                                                   *)

LEMMA InitInv == Init => Inv
  <1> SUFFICES ASSUME Init PROVE Inv
    OBVIOUS
  <1>1. jwt.secret.random => jwt.secret.no = starts
    BY DEF Init, Configs
  <1>2. /\ users = {} /\ requests = {}
        /\ \A d \in Devices : clients[d] = {}
    BY DEF Init
  <1> QED BY <1>1, <1>2, InitType DEF Inv, Rows

(* Only two steps touch the rows and the salts.                            *)
LEMMA TableSteps ==
  ASSUME [Next]_vars
  PROVE  /\ \/ UNCHANGED <<users, lastId, salts>>
            \/ \E r \in requests : RegisterServed(r) \/ SetVaultSalt(r)
         /\ proofs \subseteq proofs'
  <1> USE DEF vars, serverVars, deviceVars, networkVars, historyVars
  <1>1. ASSUME NEW d \in Devices, DeviceStep(d)
        PROVE  UNCHANGED <<users, lastId, salts, proofs>>
    BY <1>1 DEF DeviceStep, SignIn, SignedIn, SignInRefused, GivesUp, SignOut,
                PostSalt
  <1>2. ASSUME NEW r \in requests, Served(r)
        PROVE  /\ \/ UNCHANGED <<users, lastId, salts>>
                  \/ RegisterServed(r) \/ SetVaultSalt(r)
               /\ proofs \subseteq proofs'
    BY <1>2 DEF Served, RegisterServed, RegisterConflict, LoginFinds,
                LoginVerifies, LoginRefuses, SetVaultSalt, SaltRefused, Proved
  <1>3. ASSUME NEW config \in Configs(starts + 1), Restart(config)
        PROVE  UNCHANGED <<users, lastId, salts, proofs>>
    BY <1>3 DEF Restart
  <1> QED BY <1>1, <1>2, <1>3 DEF Next, Tick, Health

(* A registration adds the row of a name that had none.                    *)
LEMMA RegisterAddsRow ==
  ASSUME Inv, NEW r \in requests, RegisterServed(r)
  PROVE  \E new \in UserRow :
           /\ users' = users \cup {new}
           /\ new.id = lastId + 1 /\ new.name = r.name
           /\ new.password = r.password /\ new.salt = r.salt
           /\ \A u \in users : u.id # new.id /\ u.name # new.name
  <1>1. lastId \in Int /\ users \subseteq UserRow /\ r \in Request
        /\ \A u \in users : u.id <= lastId
    BY DEF Inv, TypeInv, TypeOK, Rows
  <1> DEFINE new == [id |-> lastId + 1, name |-> r.name,
                     password |-> r.password, salt |-> r.salt]
  <1>2. users' = users \cup {new} /\ WithName(r.name) = {}
    BY DEF RegisterServed, create_user
  <1>3. users' \subseteq UserRow
    BY ServerType DEF Inv, Served, TypeInv, TypeOK
  <1>4. new \in UserRow
    BY <1>2, <1>3
  <1>5. \A u \in users : u.id \in Int /\ u.id # lastId + 1 /\ u.name # r.name
    BY <1>1, <1>2 DEF UserRow, WithName
  <1> QED BY <1>2, <1>4, <1>5

(* The token of a request for another salt names one row of its account.   *)
LEMMA SaltOfOneRow ==
  ASSUME Inv, NEW r \in requests, SetVaultSalt(r)
  PROVE  \E v \in users :
           /\ v.name \in Names /\ r.salt \in Salt
           /\ users' = {IF u = v THEN [u EXCEPT !.salt = r.salt] ELSE u : u \in users}
           /\ salts' = [salts EXCEPT ![v.name] = Append(@, r.salt)]
  <1>1. r.op = "salt" /\ r \in Request
    BY DEF Inv, TypeInv, TypeOK, SetVaultSalt
  <1>2. PICK t \in r.token :
          users' = WithSalt(t.uid, r.salt) /\ SaltsNow(t.sub, r.salt)
    BY DEF SetVaultSalt
  <1>3. Owned(t.uid, t.sub, r.password)
    BY <1>1 DEF Inv, GoodRequest, Earned
  <1>4. PICK v \in users : v.id = t.uid /\ v.name = t.sub
    BY <1>3 DEF Owned
  <1>5. \A u \in users : u.id = t.uid <=> u = v
    BY <1>4 DEF Inv, Rows
  <1>6. v.name \in Names /\ r.salt \in Salt
    BY <1>1 DEF Inv, TypeInv, TypeOK, UserRow, Request
  <1> QED BY <1>2, <1>4, <1>5, <1>6 DEF WithSalt, SaltsNow

(* No row changes but in its salt, and the salts that an account has had   *)
(* stay where they are.                                                    *)
Grown ==
  /\ \A u \in users : \E v \in users' :
       v.id = u.id /\ v.name = u.name /\ v.password = u.password
  /\ \A n \in Names :
       /\ Len(salts[n]) <= Len(salts'[n])
       /\ \A i \in 1..Len(salts[n]) : salts'[n][i] = salts[n][i]
  /\ proofs \subseteq proofs'

LEMMA Appended ==
  ASSUME NEW s \in Seq(Salt), NEW x \in Salt, NEW t, t = Append(s, x)
  PROVE  /\ Len(s) \in Nat /\ Len(t) = Len(s) + 1 /\ t # <<>>
         /\ t[Len(s) + 1] = x
         /\ \A i \in 1..Len(s) : t[i] = s[i]
  OBVIOUS

LEMMA NextRows ==
  ASSUME Inv, [Next]_vars
  PROVE  Rows' /\ Grown
  <1>1. /\ Rows /\ users \subseteq UserRow /\ lastId \in Int
        /\ salts \in [Names -> Seq(Salt)]
    BY DEF Inv, TypeInv, TypeOK
  <1>2. CASE UNCHANGED <<users, lastId, salts>>
    <2>1. Rows'
      BY <1>1, <1>2 DEF Rows
    <2>2. \A n \in Names : Len(salts[n]) \in Nat
      BY <1>1
    <2> QED BY <1>2, <2>1, <2>2, TableSteps DEF Grown
  <1>3. ASSUME NEW r \in requests, RegisterServed(r) PROVE Rows' /\ Grown
    <2>1. PICK new \in UserRow :
           /\ users' = users \cup {new}
           /\ new.id = lastId + 1 /\ new.name = r.name /\ new.salt = r.salt
           /\ \A u \in users : u.id # new.id /\ u.name # new.name
      BY <1>3, RegisterAddsRow
    <2>2. /\ salts' = [salts EXCEPT ![r.name] = Append(@, r.salt)]
          /\ lastId' = lastId + 1
      BY <1>3 DEF RegisterServed, SaltsNow, create_user
    <2>3. r.name \in Names /\ r.salt \in Salt
      BY DEF Inv, TypeInv, TypeOK, Request
    <2>4. /\ salts'[r.name] = Append(salts[r.name], r.salt)
          /\ \A n \in Names : n # r.name => salts'[n] = salts[n]
      BY <1>1, <2>2, <2>3
    <2>5. /\ Len(salts[r.name]) \in Nat /\ salts'[r.name] # <<>>
          /\ Len(salts'[r.name]) = Len(salts[r.name]) + 1
          /\ salts'[r.name][Len(salts[r.name]) + 1] = r.salt
          /\ \A i \in 1..Len(salts[r.name]) : salts'[r.name][i] = salts[r.name][i]
      <3>1. salts[r.name] \in Seq(Salt)
        BY <1>1, <2>3
      <3> QED BY <3>1, <2>3, <2>4, Appended
    <2>6. Rows'
      <3>1. \A u, v \in users' : u.id = v.id \/ u.name = v.name => u = v
        BY <1>1, <2>1 DEF Rows
      <3>2. ASSUME NEW u \in users'
            PROVE  /\ u.id <= lastId'
                   /\ salts'[u.name] # <<>>
                   /\ salts'[u.name][Len(salts'[u.name])] = u.salt
        <4>1. CASE u = new
          BY <1>1, <2>1, <2>2, <2>5, <4>1
        <4>2. CASE u # new
          <5>1. u \in users /\ u.name \in Names /\ u.id \in Int
            BY <1>1, <2>1, <4>2 DEF UserRow
          <5> QED BY <1>1, <2>1, <2>2, <2>4, <5>1 DEF Rows
        <4> QED BY <4>1, <4>2
      <3> QED BY <3>1, <3>2 DEF Rows
    <2>7. \A n \in Names :
            /\ Len(salts[n]) <= Len(salts'[n])
            /\ \A i \in 1..Len(salts[n]) : salts'[n][i] = salts[n][i]
      <3>1. \A n \in Names : Len(salts[n]) \in Nat
        BY <1>1
      <3> QED BY <3>1, <2>4, <2>5
    <2> QED BY <2>1, <2>6, <2>7, TableSteps DEF Grown
  <1>4. ASSUME NEW r \in requests, SetVaultSalt(r) PROVE Rows' /\ Grown
    <2>1. PICK v \in users :
           /\ v.name \in Names /\ r.salt \in Salt
           /\ users' = {IF u = v THEN [u EXCEPT !.salt = r.salt] ELSE u : u \in users}
           /\ salts' = [salts EXCEPT ![v.name] = Append(@, r.salt)]
      BY <1>4, SaltOfOneRow
    <2> DEFINE row == [v EXCEPT !.salt = r.salt]
    <2>2. /\ row.id = v.id /\ row.name = v.name /\ row.password = v.password
          /\ row.salt = r.salt
      BY <1>1 DEF UserRow
    <2>3. users' = (users \ {v}) \cup {row}
      BY <2>1
    <2> HIDE DEF row
    <2>4. /\ salts'[v.name] = Append(salts[v.name], r.salt)
          /\ \A n \in Names : n # v.name => salts'[n] = salts[n]
      BY <1>1, <2>1
    <2>5. /\ Len(salts[v.name]) \in Nat /\ salts'[v.name] # <<>>
          /\ Len(salts'[v.name]) = Len(salts[v.name]) + 1
          /\ salts'[v.name][Len(salts[v.name]) + 1] = r.salt
          /\ \A i \in 1..Len(salts[v.name]) : salts'[v.name][i] = salts[v.name][i]
      <3>1. salts[v.name] \in Seq(Salt) /\ r.salt \in Salt
        BY <1>1, <2>1
      <3> QED BY <3>1, <2>4, Appended
    <2>6. lastId' = lastId
      BY <1>4 DEF SetVaultSalt
    <2>7. Rows'
      <3>1. \A u, w \in users' : u.id = w.id \/ u.name = w.name => u = w
        BY <1>1, <2>2, <2>3 DEF Rows
      <3>2. ASSUME NEW u \in users'
            PROVE  /\ u.id <= lastId'
                   /\ salts'[u.name] # <<>>
                   /\ salts'[u.name][Len(salts'[u.name])] = u.salt
        <4>1. CASE u = row
          BY <1>1, <2>2, <2>5, <2>6, <4>1 DEF Rows
        <4>2. CASE u # row
          <5>1. u \in users /\ u # v /\ u.name \in Names
            BY <1>1, <2>3, <4>2 DEF UserRow
          <5>2. u.name # v.name
            BY <1>1, <5>1 DEF Rows
          <5> QED BY <1>1, <2>4, <2>6, <5>1, <5>2 DEF Rows
        <4> QED BY <4>1, <4>2
      <3> QED BY <3>1, <3>2 DEF Rows
    <2>8. \A n \in Names :
            /\ Len(salts[n]) <= Len(salts'[n])
            /\ \A i \in 1..Len(salts[n]) : salts'[n][i] = salts[n][i]
      <3>1. \A n \in Names : Len(salts[n]) \in Nat
        BY <1>1
      <3> QED BY <3>1, <2>4, <2>5
    <2>9. \A u \in users : \E w \in users' :
            w.id = u.id /\ w.name = u.name /\ w.password = u.password
      BY <2>2, <2>3
    <2> QED BY <2>7, <2>8, <2>9, TableSteps DEF Grown
  <1> QED BY <1>2, <1>3, <1>4, TableSteps

-----------------------------------------------------------------------------
(* What holds of a request or a client is not undone by later steps.       *)

LEMMA OwnedKept ==
  ASSUME Grown, NEW uid, NEW name, NEW password, Owned(uid, name, password)
  PROVE  Owned(uid, name, password)'
  <1>1. PICK u \in users : u.id = uid /\ u.name = name /\ u.password = password
    BY DEF Owned
  <1>2. PICK v \in users' : v.id = u.id /\ v.name = u.name /\ v.password = u.password
    BY DEF Grown
  <1> QED BY <1>1, <1>2 DEF Owned

LEMMA HadKept ==
  ASSUME Inv, Grown, TypeOK', NEW name \in Names, NEW asked, NEW salt,
         Had(name, asked, salt)
  PROVE  Had(name, asked, salt)'
  <1>1. PICK i \in 1..Len(salts[name]) : i >= asked /\ salts[name][i] = salt
    BY DEF Had
  <1>2. /\ Len(salts[name]) \in Nat /\ Len(salts'[name]) \in Nat
        /\ Len(salts[name]) <= Len(salts'[name])
        /\ salts'[name][i] = salts[name][i]
    BY DEF Grown, Inv, TypeInv, TypeOK
  <1>3. i \in 1..Len(salts'[name])
    BY <1>1, <1>2
  <1> QED BY <1>1, <1>2, <1>3 DEF Had

LEMMA EarnedKept ==
  ASSUME Grown, NEW t, NEW name, NEW password, Earned(t, name, password)
  PROVE  Earned(t, name, password)'
  <1>1. Owned(t.uid, name, password)'
    BY OwnedKept DEF Earned
  <1> QED BY <1>1 DEF Earned, Grown

LEMMA RequestKept ==
  ASSUME Inv, Grown, TypeOK', NEW r \in Request, GoodRequest(r)
  PROVE  GoodRequest(r)'
  <1>1. r.name \in Names /\ r.asked \in Nat
    BY DEF Request
  <1>2. r.asked <= Len(salts[r.name]) => r.asked <= Len(salts'[r.name])
    <2>1. /\ Len(salts[r.name]) \in Nat /\ Len(salts'[r.name]) \in Nat
          /\ Len(salts[r.name]) <= Len(salts'[r.name])
      BY <1>1 DEF Grown, Inv, TypeInv, TypeOK
    <2> QED BY <1>1, <2>1
  <1>3. Found(r) => Found(r)'
    <2> SUFFICES ASSUME Found(r), NEW u \in r.row
                 PROVE  /\ u.name = r.name /\ Owned(u.id, u.name, u.password)'
                        /\ Had(r.name, r.asked, u.salt)'
      BY DEF Found
    <2>1. /\ u.name = r.name /\ Owned(u.id, u.name, u.password)
          /\ Had(r.name, r.asked, u.salt)
      BY DEF Found
    <2> QED BY <1>1, <2>1, OwnedKept, HadKept
  <1>4. Had(r.name, r.asked, r.salt) => Had(r.name, r.asked, r.salt)'
    BY <1>1, HadKept
  <1>5. ASSUME NEW t \in r.token, Earned(t, r.name, r.password)
        PROVE  Earned(t, r.name, r.password)'
    BY <1>5, EarnedKept
  <1> QED BY <1>2, <1>3, <1>4, <1>5 DEF GoodRequest

LEMMA ClientKept ==
  ASSUME Inv, Grown, TypeOK', NEW c \in Client, GoodClient(c)
  PROVE  GoodClient(c)'
  <1>1. c.name \in Names
    BY DEF Client
  <1> QED BY <1>1, EarnedKept, HadKept DEF GoodClient

(* A token that is issued to the owner of a row is earned by this sign-in.  *)
LEMMA IssuedIsEarned ==
  ASSUME Inv, Issues, NEW uid \in 1..MaxRequests, NEW name \in Names,
         NEW password, Proved(uid), Owned(uid, name, password)',
         NEW t, t = issue(uid, name)
  PROVE  Earned(t, name, password)'
  <1> DEFINE p == [uid |-> uid, at |-> now, start |-> starts, ttl |-> jwt.ttl]
  <1>1. /\ t.uid = uid /\ t.sub = name /\ t.secret = jwt.secret
        /\ t.exp = now + ttl_seconds
    BY IssueType DEF Inv, TypeInv
  <1>2. p \in proofs' /\ p.uid = uid
    BY DEF Proved
  <1>3. p.at + p.ttl >= t.exp
    <2>1. /\ now \in Int /\ jwt.ttl \in Ttls
      BY DEF Inv, TypeInv, TypeOK, JwtConfig
    <2>2. I64Max \in Nat
      BY AccountBounds
    <2>3. jwt.ttl \in 0..(2 * I64Max + 1)
      BY <2>1, TtlsAssumption
    <2>4. ttl_seconds <= jwt.ttl /\ ttl_seconds \in Int
      BY <2>2, <2>3 DEF ttl_seconds
    <2> QED BY <1>1, <2>1, <2>3, <2>4
  <1>4. t.secret.random => p.start = t.secret.no
    BY <1>1 DEF Inv
  <1> HIDE DEF p
  <1>5. t.sub = name /\ Owned(t.uid, name, password)'
    BY <1>1
  <1> QED BY <1>1, <1>2, <1>3, <1>4, <1>5 DEF Earned

-----------------------------------------------------------------------------
(* The invariant is inductive.                                             *)

(* A request stays as it is, is made, or is answered.                      *)
LEMMA ServerRequests ==
  ASSUME Inv, [Next]_vars, Grown, TypeOK', Rows', NEW r \in requests, Served(r)
  PROVE  \A q \in requests' : GoodRequest(q)'
  <1>0. r \in Request /\ GoodRequest(r) /\ requests \subseteq Request
    BY DEF Inv, TypeInv, TypeOK
  <1>1. \A q \in requests : GoodRequest(q)'
    BY <1>0, RequestKept DEF Inv
  <1>2. ASSUME NEW new, GoodRequest(new)', Answer(r, new)
        PROVE  \A q \in requests' : GoodRequest(q)'
    BY <1>1, <1>2, AnswerSubset
  <1>3. ASSUME NEW new, new = [r EXCEPT !.pc = "refused"], r.op # "salt"
        PROVE  GoodRequest(new)'
    <2>1. /\ new.op = r.op /\ new.pc = "refused" /\ new.asked = r.asked
          /\ new.name = r.name
      BY <1>0, <1>3 DEF Request
    <2>2. r.asked <= Len(salts'[r.name])
      BY <1>1, <1>3 DEF GoodRequest
    <2> QED BY <1>3, <2>1, <2>2 DEF GoodRequest
  <1>4. CASE RegisterServed(r)
    <2>1. CASE ~Issues
      BY <1>1, <1>4, <2>1 DEF RegisterServed
    <2>2. CASE Issues
      <3>1. PICK row \in UserRow :
              /\ row \in users' /\ row.id = lastId + 1 /\ row.name = r.name
              /\ row.password = r.password /\ row.salt = r.salt
        BY <1>4, RegisterAddsRow
      <3>2. /\ r.op = "register" /\ r.pc = "sent" /\ Proved(lastId + 1)
            /\ Answer(r, [r EXCEPT !.pc = "answered",
                                   !.token = {issue(lastId + 1, r.name)}])
        BY <1>4, <2>2 DEF RegisterServed
      <3>3. PICK t : t = issue(row.id, r.name)
        OBVIOUS
      <3>4. PICK new : new = [r EXCEPT !.pc = "answered", !.token = {t}]
        OBVIOUS
      <3>5. /\ new.op = "register" /\ new.pc = "answered" /\ new.name = r.name
            /\ new.password = r.password /\ new.salt = r.salt
            /\ new.asked = r.asked /\ new.token = {t}
        BY <1>0, <3>2, <3>4 DEF Request
      <3>6. Owned(row.id, r.name, r.password)'
        BY <3>1 DEF Owned
      <3>7. row.id \in 1..MaxRequests /\ r.name \in Names
        BY <1>0, <3>1 DEF UserRow, Request
      <3>8. Earned(t, r.name, r.password)'
        BY <2>2, <3>1, <3>2, <3>3, <3>6, <3>7, IssuedIsEarned
      <3>9. Had(r.name, r.asked, r.salt)' /\ r.asked <= Len(salts'[r.name])
        <4>1. salts' = [salts EXCEPT ![r.name] = Append(@, r.salt)]
          BY <1>4 DEF RegisterServed, SaltsNow
        <4>2. salts[r.name] \in Seq(Salt) /\ r.salt \in Salt /\ r.asked \in Nat
          BY <1>0 DEF Inv, TypeInv, TypeOK, Request
        <4>3. salts'[r.name] = Append(salts[r.name], r.salt)
          BY <4>1, <3>7 DEF Inv, TypeInv, TypeOK
        <4>4. /\ Len(salts[r.name]) \in Nat
              /\ Len(salts'[r.name]) = Len(salts[r.name]) + 1
              /\ salts'[r.name][Len(salts[r.name]) + 1] = r.salt
          BY <4>2, <4>3, Appended
        <4>5. r.asked <= Len(salts[r.name])
          BY <1>0, <3>2 DEF GoodRequest
        <4> QED BY <4>2, <4>4, <4>5 DEF Had
      <3>10. GoodRequest(new)'
        BY <3>5, <3>8, <3>9 DEF GoodRequest
      <3>11. Answer(r, new)
        BY <3>1, <3>2, <3>3, <3>4
      <3> QED BY <1>2, <3>10, <3>11
    <2> QED BY <2>1, <2>2
  <1>5. CASE RegisterConflict(r)
    BY <1>2, <1>3, <1>5 DEF RegisterConflict
  <1>6. CASE LoginFinds(r)
    <2>0. r.op = "login" /\ r.pc = "sent" /\ UNCHANGED <<users, salts>>
      BY <1>6 DEF LoginFinds, serverVars, historyVars
    <2>1. ASSUME NEW u \in WithName(r.name),
                 Answer(r, [r EXCEPT !.pc = "verify", !.row = {u}])
          PROVE  \A q \in requests' : GoodRequest(q)'
      <3>1. PICK new : new = [r EXCEPT !.pc = "verify", !.row = {u}]
        OBVIOUS
      <3>2. /\ new.op = "login" /\ new.pc = "verify" /\ new.name = r.name
            /\ new.asked = r.asked /\ new.row = {u}
        BY <1>0, <2>0, <3>1 DEF Request
      <3>3. u \in users' /\ u.name = r.name /\ r.name \in Names
        BY <1>0, <2>0 DEF WithName, Request
      <3>4. Owned(u.id, u.name, u.password)'
        BY <3>3 DEF Owned
      <3>5. r.asked <= Len(salts'[r.name]) /\ r.asked \in Nat
        BY <1>0, <1>1, <2>0 DEF GoodRequest, Request
      <3>6. /\ salts'[r.name] # <<>> /\ salts'[r.name] \in Seq(Salt)
            /\ salts'[r.name][Len(salts'[r.name])] = u.salt
        BY <3>3 DEF Rows, TypeOK
      <3>7. Len(salts'[r.name]) \in 1..Len(salts'[r.name])
        BY <3>6
      <3>8. Had(r.name, r.asked, u.salt)'
        BY <3>5, <3>6, <3>7 DEF Had
      <3>9. GoodRequest(new)'
        BY <3>2, <3>3, <3>4, <3>5, <3>8 DEF GoodRequest, Found
      <3> QED BY <1>2, <2>1, <3>1, <3>9
    <2>2. ASSUME Answer(r, [r EXCEPT !.pc = "refused"])
          PROVE  \A q \in requests' : GoodRequest(q)'
      BY <1>2, <1>3, <2>0, <2>2
    <2> QED BY <1>6, <2>1, <2>2 DEF LoginFinds
  <1>7. CASE LoginVerifies(r)
    <2>1. PICK u \in r.row :
            /\ Matches(r, u) /\ Proved(u.id)
            /\ Answer(r, [r EXCEPT !.pc = "answered", !.salt = u.salt,
                                   !.token = {issue(u.id, u.name)}])
      BY <1>7 DEF LoginVerifies
    <2>2. r.pc = "verify" /\ Issues /\ r.op # "salt"
      BY <1>0, <1>7 DEF LoginVerifies, GoodRequest
    <2>3. u \in UserRow
      BY <1>0, RowElement
    <2>4. u.id \in 1..MaxRequests /\ u.name \in Names
      BY <2>3 DEF UserRow
    <2>5. /\ u.name = r.name /\ u.password = r.password
          /\ Owned(u.id, u.name, u.password)'
          /\ Had(r.name, r.asked, u.salt)' /\ r.asked <= Len(salts'[r.name])
      BY <1>1, <2>1, <2>2 DEF GoodRequest, Found, Matches
    <2>6. PICK t : t = issue(u.id, u.name)
      OBVIOUS
    <2>7. PICK new : new = [r EXCEPT !.pc = "answered", !.salt = u.salt, !.token = {t}]
      OBVIOUS
    <2>8. /\ new.op = r.op /\ new.pc = "answered" /\ new.name = r.name
          /\ new.password = r.password /\ new.salt = u.salt
          /\ new.asked = r.asked /\ new.token = {t}
      BY <1>0, <2>7 DEF Request
    <2>9. Earned(t, u.name, u.password)'
      BY <2>1, <2>2, <2>4, <2>5, <2>6, IssuedIsEarned
    <2>10. Earned(t, r.name, r.password)'
      BY <2>5, <2>9
    <2>11. GoodRequest(new)'
      BY <2>2, <2>5, <2>8, <2>10 DEF GoodRequest
    <2> QED BY <1>2, <2>1, <2>6, <2>7, <2>11
  <1>8. CASE LoginRefuses(r)
    BY <1>0, <1>2, <1>3, <1>8 DEF LoginRefuses, GoodRequest
  <1>9. CASE SetVaultSalt(r) \/ SaltRefused(r)
    BY <1>1, <1>9 DEF SetVaultSalt, SaltRefused
  <1> QED BY <1>4, <1>5, <1>6, <1>7, <1>8, <1>9 DEF Served

LEMMA DeviceRequests ==
  ASSUME Inv, Grown, TypeOK', NEW d \in Devices, DeviceStep(d)
  PROVE  \A q \in requests' : GoodRequest(q)'
  <1>0. requests \subseteq Request
    BY DEF Inv, TypeInv, TypeOK
  <1>1. \A q \in requests : GoodRequest(q)'
    BY <1>0, RequestKept DEF Inv
  <1>2. ASSUME NEW op \in {"register", "login"}, NEW n \in Names,
               NEW p \in Passwords, SignIn(d, op, n, p)
        PROVE  \A q \in requests' : GoodRequest(q)'
    <2>1. PICK new :
            /\ Send(new) /\ new.op = op /\ new.name = n /\ new.pc = "sent"
            /\ new.asked = Len(salts[n])
      BY <1>2 DEF SignIn
    <2>2. /\ Len(salts[n]) \in Nat /\ Len(salts'[n]) \in Nat
          /\ Len(salts[n]) <= Len(salts'[n])
      BY DEF Grown, Inv, TypeInv, TypeOK
    <2>3. GoodRequest(new)'
      BY <2>1, <2>2 DEF GoodRequest
    <2> QED BY <1>1, <2>1, <2>3 DEF Send
  <1>3. ASSUME NEW salt \in {sent + 1, -(sent + 1)}, PostSalt(d, salt)
        PROVE  \A q \in requests' : GoodRequest(q)'
    <2>0. PICK c \in clients[d] : \E new :
            /\ Send(new) /\ new.op = "salt" /\ new.pc = "sent" /\ new.name = c.name
            /\ new.password = c.password /\ new.token = {c.token}
      BY <1>3 DEF PostSalt
    <2>1. PICK new :
            /\ Send(new) /\ new.op = "salt" /\ new.pc = "sent" /\ new.name = c.name
            /\ new.password = c.password /\ new.token = {c.token}
      BY <2>0
    <2>2. Earned(c.token, c.name, c.password)'
      BY EarnedKept DEF Inv, GoodClient
    <2>3. GoodRequest(new)'
      BY <2>1, <2>2 DEF GoodRequest
    <2> QED BY <1>1, <2>1, <2>3 DEF Send
  <1>4. CASE requests' \subseteq requests
    BY <1>1, <1>4
  <1> QED
    BY <1>2, <1>3, <1>4 DEF DeviceStep, SignedIn, SignInRefused, GivesUp, SignOut,
                            networkVars

(* A client gets its token from an answer, or keeps it.                    *)
LEMMA NextClients ==
  ASSUME Inv, [Next]_vars, Grown, TypeOK'
  PROVE  \A d \in Devices : \A c \in clients'[d] : GoodClient(c)'
  <1> USE DEF vars, serverVars, deviceVars, networkVars, historyVars
  <1>0. /\ clients \in [Devices -> Option(Client)]
        /\ \A d \in Devices : \A c \in clients[d] : c \in Client
    <2>1. clients \in [Devices -> Option(Client)]
      BY DEF Inv, TypeInv, TypeOK
    <2>2. \A d \in Devices : clients[d] \in Option(Client)
      BY <2>1
    <2> QED BY <2>1, <2>2, OptionElement
  <1>1. \A d \in Devices : \A c \in clients[d] : GoodClient(c)'
    BY <1>0, ClientKept DEF Inv
  <1>2. ASSUME NEW d \in Devices, NEW r \in requests, SignedIn(d, r)
        PROVE  \A e \in Devices : \A c \in clients'[e] : GoodClient(c)'
    <2>1. r \in Request /\ GoodRequest(r) /\ r.pc = "answered" /\ r.name \in Names
      BY <1>2 DEF Inv, TypeInv, TypeOK, SignedIn, Request
    <2>2. ASSUME NEW c \in clients'[d] PROVE GoodClient(c)'
      <3>1. PICK t \in r.token :
              /\ c.token = t /\ c.name = r.name /\ c.password = r.password
              /\ c.salt = r.salt /\ c.asked = r.asked
        BY <1>0, <1>2, <2>2 DEF SignedIn
      <3>2. Earned(t, r.name, r.password)' /\ Had(r.name, r.asked, r.salt)'
        BY <2>1, EarnedKept, HadKept DEF GoodRequest
      <3> QED BY <3>1, <3>2 DEF GoodClient
    <2>3. \A e \in Devices : e # d => clients'[e] = clients[e]
      BY <1>0, <1>2 DEF SignedIn
    <2> QED BY <1>1, <2>2, <2>3
  <1>3. ASSUME NEW d \in Devices, SignOut(d)
        PROVE  \A e \in Devices : clients'[e] \subseteq clients[e]
    BY <1>0, <1>3 DEF SignOut
  <1>4. ASSUME NEW d \in Devices, DeviceStep(d)
        PROVE  \A e \in Devices : \A c \in clients'[e] : GoodClient(c)'
    BY <1>1, <1>2, <1>3, <1>4
    DEF DeviceStep, SignIn, SignInRefused, GivesUp, PostSalt
  <1>5. ASSUME NEW r \in requests, Served(r) PROVE clients' = clients
    BY <1>5 DEF Served, RegisterServed, RegisterConflict, LoginFinds,
                LoginVerifies, LoginRefuses, SetVaultSalt, SaltRefused
  <1>6. CASE clients' = clients
    BY <1>1, <1>6
  <1> QED BY <1>4, <1>5, <1>6 DEF Next, Restart, Tick, Health

LEMMA NextInv == Inv /\ [Next]_vars => Inv'
  <1> SUFFICES ASSUME Inv, [Next]_vars PROVE Inv'
    OBVIOUS
  <1> USE DEF vars, serverVars, deviceVars, networkVars, historyVars
  <1>1. TypeInv' /\ TypeOK'
    BY NextType DEF Inv, TypeInv
  <1>2. Rows' /\ Grown
    BY NextRows
  <1>3. \A d \in Devices : \A c \in clients'[d] : GoodClient(c)'
    BY <1>1, <1>2, NextClients
  <1>4. \A r \in requests' : GoodRequest(r)'
    <2>1. \A r \in requests : GoodRequest(r)'
      BY <1>1, <1>2, RequestKept DEF Inv, TypeInv, TypeOK
    <2>2. CASE requests' \subseteq requests
      BY <2>1, <2>2
    <2> QED BY <1>1, <1>2, <2>2, ServerRequests, DeviceRequests
            DEF Next, Restart, Tick, Health
  <1>5. jwt'.secret.random => jwt'.secret.no = starts'
    <2>1. CASE UNCHANGED <<jwt, starts>>
      BY <2>1 DEF Inv
    <2>2. ASSUME NEW config \in Configs(starts + 1), Restart(config)
          PROVE  jwt'.secret.random => jwt'.secret.no = starts'
      BY <2>2 DEF Restart, Configs
    <2>3. ASSUME NEW r \in requests, Served(r) PROVE UNCHANGED <<jwt, starts>>
      BY <2>3 DEF Served, RegisterServed, RegisterConflict, LoginFinds,
                  LoginVerifies, LoginRefuses, SetVaultSalt, SaltRefused
    <2>4. ASSUME NEW d \in Devices, DeviceStep(d) PROVE UNCHANGED <<jwt, starts>>
      BY <2>4 DEF DeviceStep, SignIn, SignedIn, SignInRefused, GivesUp, SignOut,
                  PostSalt
    <2> QED BY <2>1, <2>2, <2>3, <2>4 DEF Next, Tick, Health
  <1> QED BY <1>1, <1>2, <1>3, <1>4, <1>5 DEF Inv

LEMMA InvHolds == Spec => []Inv
  BY InitInv, NextInv, PTL DEF Spec

-----------------------------------------------------------------------------
(* What the invariant says to a user.                                      *)

(* BearerIsOwner: whoever shows a token that is accepted is the owner of   *)
(* the account it names, for any interleaving of registrations, sign-ins,  *)
(* replaced salts and restarts.                                            *)
THEOREM TokensNameTheirOwner == Spec => []BearerIsOwner
  <1>1. Inv => BearerIsOwner
    <2> SUFFICES ASSUME Inv, NEW d \in Devices, NEW c \in clients[d]
                 PROVE  \E u \in users :
                          u.id = c.token.uid /\ u.name = c.token.sub
                            /\ u.name = c.name /\ u.password = c.password
      BY DEF BearerIsOwner
    <2>1. Earned(c.token, c.name, c.password)
      BY DEF Inv, GoodClient
    <2> QED BY <2>1 DEF Earned, Owned
  <1> QED BY <1>1, InvHolds, PTL

(* AccessIsRecent: no token outlives the lifetime that was configured when *)
(* it was issued, nor, with random secrets, the start it was issued in.    *)
THEOREM TokensExpire == Spec => []AccessIsRecent
  <1>1. Inv => AccessIsRecent
    <2> SUFFICES ASSUME Inv, NEW d \in Devices, NEW c \in clients[d], verify(c.token)
                 PROVE  \E p \in proofs :
                          /\ p.uid = c.token.uid
                          /\ p.at + p.ttl + Leeway >= now
                          /\ jwt.secret.random => p.start = starts
      BY DEF AccessIsRecent
    <2>1. Earned(c.token, c.name, c.password)
      BY DEF Inv, GoodClient
    <2>2. PICK p \in proofs :
            /\ p.uid = c.token.uid /\ p.at + p.ttl >= c.token.exp
            /\ c.token.secret.random => p.start = c.token.secret.no
      BY <2>1 DEF Earned
    <2>3. jwt.secret.random => p.start = starts
      BY <2>2 DEF Inv, verify
    <2>4. p.at + p.ttl + Leeway >= now
      <3>1. c.token.exp \in Int
        <4>1. clients[d] \in Option(Client)
          BY DEF Inv, TypeInv, TypeOK
        <4>2. c \in Client
          BY <4>1, OptionElement
        <4>3. c.token.exp \in -MaxTtl..(MaxTime + MaxTtl)
          BY <4>2 DEF Client, Token
        <4> QED BY <4>3, AccountBounds
      <3>2. p.at \in Int /\ p.ttl \in Int
        <4>1. p.at \in 0..MaxTime /\ p.ttl \in Ttls
          BY DEF Inv, TypeInv, TypeOK, Proof
        <4>2. I64Max \in Int
          BY AccountBounds
        <4>3. p.ttl \in 0..(2 * I64Max + 1)
          BY <4>1, TtlsAssumption
        <4> QED BY <4>1, <4>2, <4>3
      <3>3. now \in Int /\ Leeway \in Int
        BY AccountBounds DEF Inv, TypeInv, TypeOK
      <3>4. c.token.exp + Leeway >= now
        BY DEF verify
      <3> QED BY <2>2, <3>1, <3>2, <3>3, <3>4
    <2> QED BY <2>2, <2>3, <2>4
  <1> QED BY <1>1, InvHolds, PTL

(* KeyOfTheAccount: the key a device holds is derived from the account's   *)
(* password and from a salt the account had since the device asked.        *)
THEOREM KeysAreTheAccounts == Spec => []KeyOfTheAccount
  <1>1. Inv => KeyOfTheAccount
    <2> SUFFICES ASSUME Inv, NEW d \in Devices, NEW c \in clients[d]
                 PROVE  /\ \E u \in users : u.name = c.name /\ u.password = c.password
                        /\ \E i \in 1..Len(salts[c.name]) :
                             i >= c.asked /\ salts[c.name][i] = c.salt
      BY DEF KeyOfTheAccount
    <2>1. Earned(c.token, c.name, c.password) /\ Had(c.name, c.asked, c.salt)
      BY DEF Inv, GoodClient
    <2> QED BY <2>1 DEF Earned, Owned, Had
  <1> QED BY <1>1, InvHolds, PTL

(* AccountsAreStable: no step gives a name or an id to another owner.      *)
THEOREM OwnersStay == Spec => AccountsAreStable
  <1> DEFINE Stable ==
        \A u \in users : \E v \in users' :
          /\ v.id = u.id /\ v.name = u.name /\ v.password = u.password
          /\ \A w \in users' : w.name = v.name => w = v
  <1>1. Inv /\ [Next]_vars => [Stable]_vars
    <2> SUFFICES ASSUME Inv, [Next]_vars PROVE Stable
      OBVIOUS
    <2>1. Rows' /\ Grown
      BY NextRows
    <2> QED BY <2>1 DEF Rows, Grown
  <1>2. Spec => [][Stable]_vars
    BY <1>1, InvHolds, PTL DEF Spec
  <1> QED BY <1>2 DEF AccountsAreStable
=============================================================================
