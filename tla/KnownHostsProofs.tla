--------------------------- MODULE KnownHostsProofs ---------------------------
(***************************************************************************)
(* The invariants of KnownHosts, for any number of addresses, keys,        *)
(* connections and faults.                                                 *)
(***************************************************************************)
EXTENDS KnownHosts, FiniteSetTheorems, TLAPS

(* Once its key was checked, a connection has that one key in its store.   *)
CheckedKeys ==
  \A c \in Conns :
    conns[c].pc \in {"handshake", "save", "truncated"} =>
      conns[c].store[conns[c].addr] \subseteq Keys

TypeInv == TypeOK /\ CheckedKeys

-----------------------------------------------------------------------------
(* What is loaded of any lines is a store, and each of its fingerprints is *)
(* on a line of its address.                                               *)
LEMMA LoadedStore ==
  ASSUME NEW lines \in Seq(Line)
  PROVE  /\ Loaded(lines) \in Store
         /\ \A a \in Addrs : \A k \in Loaded(lines)[a] :
              \E i \in DOMAIN lines : lines[i] = <<a, k>>
  <1> DEFINE LastLine(a) == {i \in DOMAIN lines : lines[i][1] = a
                /\ \A j \in DOMAIN lines : lines[j][1] = a => j <= i}
  <1>1. DOMAIN lines \subseteq Int /\ \A i \in DOMAIN lines : lines[i] \in Line
    OBVIOUS
  <1>2. ASSUME NEW a \in Addrs
        PROVE  /\ Loaded(lines)[a] = {lines[i][2] : i \in LastLine(a)}
               /\ \A i, j \in LastLine(a) : i = j
    <2>1. Loaded(lines)[a] = {lines[i][2] : i \in LastLine(a)}
      BY DEF Loaded
    <2>2. \A i, j \in LastLine(a) : i = j
      BY <1>1
    <2> QED BY <2>1, <2>2
  <1>3. ASSUME NEW a \in Addrs, NEW k \in Loaded(lines)[a]
        PROVE  \E i \in DOMAIN lines : lines[i] = <<a, k>>
    <2>1. PICK i \in LastLine(a) : k = lines[i][2]
      BY <1>2
    <2>2. lines[i] = <<lines[i][1], lines[i][2]>>
      BY <1>1, <2>1 DEF Line
    <2> QED BY <2>1, <2>2
  <1>4. ASSUME NEW a \in Addrs PROVE Loaded(lines)[a] \in Entries
    <2>1. Loaded(lines)[a] \subseteq Keys \cup {Damaged}
      BY <1>1, <1>3 DEF Line
    <2>2. \A k, l \in Loaded(lines)[a] : k = l
      BY <1>2
    <2> QED BY <2>1, <2>2 DEF Entries
  <1>5. Loaded(lines) = [a \in Addrs |-> Loaded(lines)[a]]
    BY DEF Loaded
  <1> QED BY <1>3, <1>4, <1>5 DEF Store

(* The only line of an address is what is loaded for it.                   *)
OnlyLine(lines, p) ==
  \E i \in DOMAIN lines :
    lines[i] = p /\ \A j \in DOMAIN lines : lines[j][1] = p[1] => j = i

LEMMA OnlyLineLoaded ==
  ASSUME NEW lines \in Seq(Line), NEW p \in Line, OnlyLine(lines, p)
  PROVE  Loaded(lines)[p[1]] = {p[2]}
  <1>1. PICK i \in DOMAIN lines :
          lines[i] = p /\ \A j \in DOMAIN lines : lines[j][1] = p[1] => j = i
    BY DEF OnlyLine
  <1>2. i \in Int /\ p[1] \in Addrs
    BY DEF Line
  <1>3. {m \in DOMAIN lines : lines[m][1] = p[1]
           /\ \A j \in DOMAIN lines : lines[j][1] = p[1] => j <= m} = {i}
    BY <1>1, <1>2
  <1> QED BY <1>1, <1>2, <1>3 DEF Loaded

(* Written out, a store has one line for each of its entries, and no other.*)
LEMMA ContentsLines ==
  ASSUME NEW store \in Store, NEW lines \in Contents(store)
  PROVE  /\ lines \in Seq(Line)
         /\ \A i \in DOMAIN lines : lines[i][2] \in store[lines[i][1]]
         /\ \A p \in Line : p[2] \in store[p[1]] => OnlyLine(lines, p)
  <1> DEFINE Pairs == {l \in Line : l[2] \in store[l[1]]}
             D == 1..Cardinality(Pairs)
  <1>1. IsFiniteSet(Pairs)
    <2> DEFINE f == [l \in Pairs |-> l[1]]
    <2>1. f \in [Pairs -> Addrs]
      BY DEF Line
    <2>2. ASSUME NEW l \in Pairs, NEW m \in Pairs, f[l] = f[m] PROVE l = m
      <3>1. l[1] = m[1] /\ l[1] \in Addrs
        BY <2>2 DEF Line
      <3>2. l[2] = m[2]
        BY <3>1 DEF Store, Entries
      <3> QED BY <3>1, <3>2 DEF Line
    <2>3. f \in Injection(Pairs, Addrs)
      BY <2>1, <2>2 DEF Injection, IsInjective
    <2> QED BY <2>3, AddrsAssumption, FS_Injection
  <1>2. Cardinality(Pairs) \in Nat
    BY <1>1, FS_CardinalityType
  <1>3. lines \in [D -> Pairs] /\ \A i, j \in D : i # j => lines[i] # lines[j]
    BY DEF Contents, SetToSeqs
  <1>4. IsFiniteSet(D) /\ Cardinality(D) = Cardinality(Pairs)
    BY <1>2, FS_Interval
  <1>5. lines \in Surjection(D, Pairs)
    <2>1. lines \in Injection(D, Pairs)
      BY <1>3 DEF Injection, IsInjective
    <2> QED BY <2>1, <1>1, <1>4, FS_Injection
  <1> HIDE DEF Pairs
  <1>6. lines \in Seq(Line) /\ DOMAIN lines = D
    <2>1. Pairs \subseteq Line
      BY DEF Pairs
    <2> QED BY <1>2, <1>3, <2>1
  <1>7. \A i \in DOMAIN lines : lines[i][2] \in store[lines[i][1]]
    BY <1>3, <1>6 DEF Pairs
  <1>8. ASSUME NEW p \in Line, p[2] \in store[p[1]] PROVE OnlyLine(lines, p)
    <2>1. PICK i \in D : lines[i] = p
      BY <1>5, <1>8 DEF Surjection, Pairs
    <2>2. ASSUME NEW j \in D, lines[j][1] = p[1] PROVE j = i
      <3>1. lines[j] \in Line /\ lines[j][2] \in store[p[1]]
        BY <1>3, <2>2 DEF Pairs
      <3>2. lines[j][2] = p[2] /\ p[1] \in Addrs
        BY <3>1, <1>8 DEF Line, Store, Entries
      <3>3. lines[j] = p
        BY <3>1, <3>2, <2>2 DEF Line
      <3> QED BY <3>3, <2>1, <1>3
    <2> QED BY <2>1, <2>2, <1>6 DEF OnlyLine
  <1> QED BY <1>6, <1>7, <1>8

(* What is left of lines has their fingerprints, for the same address or   *)
(* for one it ends in.                                                     *)
LEMMA RemainsLines ==
  ASSUME NEW lines \in Seq(Line), NEW rest \in Remains(lines)
  PROVE  /\ rest \in Seq(Line)
         /\ \A i \in DOMAIN rest : \E j \in DOMAIN lines :
              /\ rest[i][2] = lines[j][2]
              /\ lines[j][1] \in EndingIn(rest[i][1])
  <1>1. CASE rest = <<>>
    BY <1>1
  <1>2. ASSUME NEW n \in DOMAIN lines,
               rest \in LET after == SubSeq(lines, n + 1, Len(lines))
                        IN  {after} \cup {<< <<e, lines[n][2]>> >> \o after :
                                            e \in Ends[lines[n][1]]}
        PROVE  /\ rest \in Seq(Line)
               /\ \A i \in DOMAIN rest : \E j \in DOMAIN lines :
                    /\ rest[i][2] = lines[j][2]
                    /\ lines[j][1] \in EndingIn(rest[i][1])
    <2>1. PICK after : after = SubSeq(lines, n + 1, Len(lines))
      OBVIOUS
    <2>2. /\ n \in 1..Len(lines) /\ Len(lines) \in Nat
          /\ after \in Seq(Line) /\ Len(after) = Len(lines) - n
          /\ \A i \in 1..Len(after) : after[i] = lines[n + i]
      BY <2>1
    <2>3. ASSUME NEW i \in 1..Len(after)
          PROVE  \E j \in DOMAIN lines :
                    /\ after[i][2] = lines[j][2]
                    /\ lines[j][1] \in EndingIn(after[i][1])
      <3>1. n + i \in DOMAIN lines /\ after[i] = lines[n + i]
        BY <2>2
      <3> QED BY <3>1 DEF EndingIn
    <2>4. CASE rest = after
      <3>1. DOMAIN after = 1..Len(after)
        BY <2>2
      <3> QED BY <2>2, <2>3, <2>4, <3>1
    <2>5. ASSUME NEW e \in Ends[lines[n][1]],
                 rest = << <<e, lines[n][2]>> >> \o after
          PROVE  /\ rest \in Seq(Line)
                 /\ \A i \in DOMAIN rest : \E j \in DOMAIN lines :
                      /\ rest[i][2] = lines[j][2]
                      /\ lines[j][1] \in EndingIn(rest[i][1])
      <3>1. lines[n] \in Line /\ lines[n][1] \in Addrs /\ e \in Addrs
        BY AddrsAssumption DEF Line
      <3>2. <<e, lines[n][2]>> \in Line
        BY <3>1 DEF Line
      <3>3. PICK first : first = << <<e, lines[n][2]>> >>
        OBVIOUS
      <3>4. first \in Seq(Line) /\ Len(first) = 1 /\ first[1] = <<e, lines[n][2]>>
        BY <3>2, <3>3
      <3>5. /\ rest \in Seq(Line) /\ Len(rest) = 1 + Len(after)
            /\ rest[1] = first[1] /\ \A i \in 1..Len(after) : rest[i + 1] = after[i]
        BY <2>5, <2>2, <3>3, <3>4
      <3>6. lines[n][1] \in EndingIn(e)
        BY <3>1 DEF EndingIn
      <3>7. ASSUME NEW i \in DOMAIN rest
            PROVE  \E j \in DOMAIN lines :
                      /\ rest[i][2] = lines[j][2]
                      /\ lines[j][1] \in EndingIn(rest[i][1])
        <4>1. CASE i = 1
          BY <4>1, <3>4, <3>5, <3>6
        <4>2. CASE i # 1
          <5>1. i - 1 \in 1..Len(after) /\ (i - 1) + 1 = i
            BY <4>2, <3>5, <2>2
          <5>2. rest[i] = after[i - 1]
            BY <5>1, <3>5
          <5> QED BY <5>1, <5>2, <2>3
        <4> QED BY <4>1, <4>2
      <3> QED BY <3>5, <3>7
    <2> QED BY <1>2, <2>1, <2>4, <2>5
  <1> QED BY <1>1, <1>2 DEF Remains

(* Lines one after the other are lines, first these and then those.        *)
LEMMA ConcatLines ==
  ASSUME NEW s \in Seq(Line), NEW t \in Seq(Line)
  PROVE  /\ s \o t \in Seq(Line) /\ Len(s \o t) = Len(s) + Len(t)
         /\ \A i \in 1..Len(s) : (s \o t)[i] = s[i]
         /\ \A i \in 1..Len(t) : (s \o t)[Len(s) + i] = t[i]
         /\ \A i \in DOMAIN (s \o t) :
              \/ \E j \in DOMAIN s : (s \o t)[i] = s[j]
              \/ \E j \in DOMAIN t : (s \o t)[i] = t[j]
  <1>1. /\ s \o t \in Seq(Line) /\ Len(s \o t) = Len(s) + Len(t)
        /\ DOMAIN (s \o t) = 1..(Len(s) + Len(t))
        /\ DOMAIN s = 1..Len(s) /\ DOMAIN t = 1..Len(t)
        /\ Len(s) \in Nat /\ Len(t) \in Nat
    OBVIOUS
  <1>2. \A i \in 1..Len(s) : (s \o t)[i] = s[i]
    OBVIOUS
  <1>3. \A i \in 1..Len(t) : (s \o t)[Len(s) + i] = t[i]
    OBVIOUS
  <1>4. ASSUME NEW i \in DOMAIN (s \o t)
        PROVE  \/ \E j \in DOMAIN s : (s \o t)[i] = s[j]
               \/ \E j \in DOMAIN t : (s \o t)[i] = t[j]
    <2>1. CASE i <= Len(s)
      <3>1. i \in 1..Len(s)
        BY <1>1, <2>1
      <3> QED BY <1>1, <1>2, <3>1
    <2>2. CASE ~(i <= Len(s))
      <3>1. i - Len(s) \in 1..Len(t) /\ Len(s) + (i - Len(s)) = i
        BY <1>1, <2>2
      <3> QED BY <1>1, <1>3, <3>1
    <2> QED BY <2>1, <2>2
  <1> QED BY <1>1, <1>2, <1>3, <1>4

(* A file that a failed save leaves has lines, too.                        *)
LEMMA BrokenLines ==
  ASSUME NEW lines \in Seq(Line), NEW old \in Seq(Line),
         NEW broken \in Broken(lines, old)
  PROVE  broken \in Seq(Line)
  <1>1. ASSUME NEW l \in Line PROVE <<l>> \in Seq(Line)
    OBVIOUS
  <1>2. ASSUME NEW i \in DOMAIN lines PROVE <<lines[i][1], Damaged>> \in Line
    BY DEF Line
  <1>3. ASSUME NEW a \in Addrs, NEW i \in DOMAIN old
        PROVE  <<a, old[i][2]>> \in Line
    BY DEF Line
  <1>4. CASE broken \in {<< <<lines[i][1], Damaged>> >> : i \in DOMAIN lines}
    BY <1>1, <1>2, <1>4
  <1>5. CASE broken \in {<< <<a, old[i][2]>> >> : a \in Addrs, i \in DOMAIN old}
    <2>1. PICK a \in Addrs, i \in DOMAIN old : broken = << <<a, old[i][2]>> >>
      BY <1>5
    <2> QED BY <1>1, <1>3, <2>1
  <1>6. CASE broken = <<>>
    BY <1>6
  <1> QED BY <1>4, <1>5, <1>6 DEF Broken

(* Without one line, the others are as they were.                          *)
LEMMA RemoveLine ==
  ASSUME NEW lines \in Seq(Line), NEW n \in DOMAIN lines
  PROVE  /\ RemoveAt(lines, n) \in Seq(Line)
         /\ \A i \in DOMAIN RemoveAt(lines, n) :
              \E j \in DOMAIN lines : RemoveAt(lines, n)[i] = lines[j]
         /\ \A p \in Line : OnlyLine(lines, p) /\ p[1] # lines[n][1] =>
              OnlyLine(RemoveAt(lines, n), p)
  <1>1. PICK s, t : s = SubSeq(lines, 1, n - 1) /\ t = SubSeq(lines, n + 1, Len(lines))
    OBVIOUS
  <1>2. PICK new : new = RemoveAt(lines, n) /\ new = s \o t
    BY <1>1 DEF RemoveAt
  <1>3. n \in 1..Len(lines) /\ Len(lines) \in Nat
    OBVIOUS
  <1>4. /\ s \in Seq(Line) /\ Len(s) = n - 1
        /\ \A i \in 1..(n - 1) : s[i] = lines[i]
    BY <1>1, <1>3
  <1>5. /\ t \in Seq(Line) /\ Len(t) = Len(lines) - n
        /\ \A i \in 1..(Len(lines) - n) : t[i] = lines[n + i]
    BY <1>1, <1>3
  <1>6. /\ new \in Seq(Line) /\ Len(new) = Len(lines) - 1
        /\ \A i \in 1..(Len(lines) - 1) :
             new[i] = IF i < n THEN lines[i] ELSE lines[i + 1]
    <2>1. /\ new \in Seq(Line) /\ Len(new) = Len(s) + Len(t)
          /\ \A i \in 1..Len(s) : new[i] = s[i]
          /\ \A i \in 1..Len(t) : new[Len(s) + i] = t[i]
      <3>1. s \in Seq(Line) /\ t \in Seq(Line)
        BY <1>4, <1>5
      <3>2. /\ s \o t \in Seq(Line) /\ Len(s \o t) = Len(s) + Len(t)
            /\ \A i \in 1..Len(s) : (s \o t)[i] = s[i]
            /\ \A i \in 1..Len(t) : (s \o t)[Len(s) + i] = t[i]
        BY <3>1, ConcatLines
      <3> QED BY <3>2, <1>2, Zenon
    <2>2. ASSUME NEW i \in 1..(Len(lines) - 1)
          PROVE  new[i] = IF i < n THEN lines[i] ELSE lines[i + 1]
      <3>1. CASE i < n
        <4>1. i \in 1..(n - 1) /\ Len(s) = n - 1
          BY <3>1, <1>3, <1>4
        <4> QED BY <3>1, <4>1, <2>1, <1>4
      <3>2. CASE ~(i < n)
        <4>1. PICK m : m = (i - n) + 1
          OBVIOUS
        <4>2. PICK len : len = Len(lines)
          OBVIOUS
        <4>3. n \in Nat /\ len \in Nat /\ i \in 1..(len - 1) /\ n <= i
          BY <3>2, <4>2, <1>3
        <4>4. m \in 1..(len - n) /\ n + m = i + 1 /\ (n - 1) + m = i
          <5>1. m \in Int
            BY <4>1, <4>3
          <5>2. 1 <= m /\ m <= len - n
            BY <4>1, <4>3
          <5>3. n + m = i + 1 /\ (n - 1) + m = i
            BY <4>1, <4>3
          <5> QED BY <4>3, <5>1, <5>2, <5>3
        <4>5. new[i] = t[m]
          BY <4>2, <4>4, <2>1, <1>4, <1>5
        <4>6. t[m] = lines[i + 1]
          BY <4>2, <4>4, <1>5
        <4> QED BY <3>2, <4>5, <4>6
      <3> QED BY <3>1, <3>2
    <2>3. Len(new) = Len(lines) - 1
      BY <2>1, <1>3, <1>4, <1>5
    <2> QED BY <2>1, <2>2, <2>3
  <1>7. \A i \in DOMAIN new : \E j \in DOMAIN lines : new[i] = lines[j]
    BY <1>3, <1>6
  <1>8. ASSUME NEW p \in Line, OnlyLine(lines, p), p[1] # lines[n][1]
        PROVE  OnlyLine(new, p)
    <2>1. PICK i \in 1..Len(lines) :
            lines[i] = p /\ \A j \in 1..Len(lines) : lines[j][1] = p[1] => j = i
      BY <1>8 DEF OnlyLine
    <2>2. i # n
      BY <1>8, <2>1
    <2>3. PICK m : m = IF i < n THEN i ELSE i - 1
      OBVIOUS
    <2>4. m \in 1..(Len(lines) - 1) /\ new[m] = p
      BY <1>3, <1>6, <2>1, <2>2, <2>3
    <2>5. ASSUME NEW j \in 1..(Len(lines) - 1), new[j][1] = p[1] PROVE j = m
      <3>1. CASE j < n
        BY <3>1, <1>3, <1>6, <2>1, <2>2, <2>3, <2>5
      <3>2. CASE ~(j < n)
        BY <3>2, <1>3, <1>6, <2>1, <2>2, <2>3, <2>5
      <3> QED BY <3>1, <3>2
    <2>6. DOMAIN new = 1..(Len(lines) - 1)
      BY <1>6
    <2> QED BY <2>4, <2>5, <2>6 DEF OnlyLine
  <1> QED BY <1>2, <1>6, <1>7, <1>8

-----------------------------------------------------------------------------
LEMMA InitType == Init => TypeInv
  <1>1. Idle \in Conn /\ Idle.pc = "idle"
    BY DEF Idle, Conn
  <1> SUFFICES ASSUME Init PROVE TypeInv
    OBVIOUS
  <1>2. TypeOK
    <2>1. file \in Seq(Line) /\ presents \in [Addrs -> Keys]
          /\ conns \in [Conns -> Conn]
      BY <1>1 DEF Init
    <2>2. connects \in 0..MaxConnects /\ faults \in 0..MaxFaults
      BY BoundsAssumption DEF Init
    <2>3. had \in [Addrs -> SUBSET Keys]
      BY <2>1 DEF Init
    <2>4. {} \subseteq Addrs \X Keys
      OBVIOUS
    <2> QED BY <2>1, <2>2, <2>3, <2>4 DEF Init, TypeOK
  <1>3. CheckedKeys
    BY <1>1 DEF Init, CheckedKeys
  <1> QED BY <1>2, <1>3 DEF TypeInv

(* A connection that is not idle has an address and a store.               *)
LEMMA ConnFields ==
  ASSUME TypeOK, NEW c \in Conns, conns[c].pc # "idle"
  PROVE  /\ conns[c].addr \in Addrs
         /\ conns[c].store \in Store
         /\ conns[c] = [pc |-> conns[c].pc, addr |-> conns[c].addr,
                        store |-> conns[c].store]
         /\ conns[c].pc \in {"check", "handshake", "save", "truncated", "refused"}
  BY DEF TypeOK, Conn

(* CheckServerKey keeps the types, and stores a key of Keys.               *)
LEMMA CheckType ==
  ASSUME TypeInv, NEW c \in Conns, CheckServerKey(c)
  PROVE  TypeInv'
  <1> DEFINE addr == conns[c].addr
             key == presents[addr]
             known == conns[c].store[addr]
             passed == [pc |-> "handshake", addr |-> addr,
                        store |-> [conns[c].store EXCEPT ![addr] = {key}]]
             refused == [pc |-> "refused", addr |-> addr,
                         store |-> conns[c].store]
  <1>1. /\ conns[c].pc = "check" /\ addr \in Addrs /\ conns[c].store \in Store
        /\ conns[c] = [pc |-> "check", addr |-> addr, store |-> conns[c].store]
    BY ConnFields DEF TypeInv, CheckServerKey
  <1>2. key \in Keys
    BY <1>1 DEF TypeInv, TypeOK
  <1>3. {key} \in Entries
    BY <1>2 DEF Entries
  <1>4. passed.store \in Store /\ passed.store[addr] = {key}
    BY <1>1, <1>3 DEF Store
  <1>5. PICK new \in {passed, refused} : conns' = [conns EXCEPT ![c] = new]
    <2>1. conns' = [conns EXCEPT ![c] = IF known \subseteq {key}
                                        THEN passed ELSE refused]
      <3>1. [conns[c] EXCEPT !.pc = "refused"] = refused
        BY <1>1
      <3> QED BY <3>1 DEF CheckServerKey
    <2> QED BY <2>1
  <1>6. new \in Conn
    BY <1>1, <1>4 DEF Conn
  <1>7. conns' \in [Conns -> Conn]
    BY <1>5, <1>6 DEF TypeInv, TypeOK
  <1>8. TypeOK'
    BY <1>7 DEF TypeInv, TypeOK, CheckServerKey
  <1>9. CheckedKeys'
    <2> SUFFICES ASSUME NEW d \in Conns,
                        conns'[d].pc \in {"handshake", "save", "truncated"}
                 PROVE  conns'[d].store[conns'[d].addr] \subseteq Keys
      BY DEF CheckedKeys
    <2>1. CASE d # c
      BY <2>1, <1>5 DEF TypeInv, TypeOK, CheckedKeys
    <2>2. CASE d = c
      <3>1. conns'[d] = new
        BY <2>2, <1>5 DEF TypeInv, TypeOK
      <3>2. new = passed
        BY <3>1
      <3> QED BY <3>1, <3>2, <1>4, <1>2
    <2> QED BY <2>1, <2>2
  <1> QED BY <1>8, <1>9 DEF TypeInv

(* Every other step of a connection.                                       *)
LEMMA ConnType ==
  ASSUME TypeInv, NEW c \in Conns, ConnStep(c)
  PROVE  TypeInv'
  <1> USE DEF TypeInv, TypeOK
  <1>1. ASSUME NEW a \in Addrs, Load(c, a) PROVE TypeInv'
    <2>1. [pc |-> "check", addr |-> a, store |-> Loaded(file)] \in Conn
      BY LoadedStore DEF Conn
    <2> QED BY <1>1, <2>1, BoundsAssumption DEF Load, CheckedKeys, Active
  <1>2. CASE CheckServerKey(c)
    BY <1>2, CheckType
  <1>3. CASE ConnectFails(c)
    BY <1>3 DEF ConnectFails, CheckedKeys, Conn, Idle
  <1>4. CASE Connected(c)
    <2>1. /\ conns[c].addr \in Addrs /\ conns[c].store \in Store
          /\ conns[c].store[conns[c].addr] \subseteq Keys
      BY <1>4, ConnFields DEF Connected, CheckedKeys
    <2>2. [conns[c] EXCEPT !.pc = "save"]
            = [pc |-> "save", addr |-> conns[c].addr, store |-> conns[c].store]
      BY <1>4, ConnFields DEF Connected
    <2>3. [conns[c] EXCEPT !.pc = "save"] \in Conn
      BY <2>1, <2>2 DEF Conn
    <2>4. accepted' \subseteq Addrs \X Keys
      BY <1>4, <2>1 DEF Connected
    <2> QED BY <1>4, <2>1, <2>2, <2>3, <2>4 DEF Connected, CheckedKeys
  <1>5. CASE Truncate(c)
    <2>1. /\ conns[c].addr \in Addrs /\ conns[c].store \in Store
          /\ conns[c].store[conns[c].addr] \subseteq Keys
      BY <1>5, ConnFields DEF Truncate, CheckedKeys
    <2>2. [conns[c] EXCEPT !.pc = "truncated"]
            = [pc |-> "truncated", addr |-> conns[c].addr,
               store |-> conns[c].store]
      BY <1>5, ConnFields DEF Truncate
    <2>3. [conns[c] EXCEPT !.pc = "truncated"] \in Conn
      BY <2>1, <2>2 DEF Conn
    <2>4. file' \in Seq(Line)
      BY <1>5 DEF Truncate
    <2> QED BY <1>5, <2>1, <2>2, <2>3, <2>4 DEF Truncate, CheckedKeys
  <1>6. CASE WriteStore(c)
    <2>1. /\ conns[c].addr \in Addrs /\ conns[c].store \in Store
          /\ conns[c].store[conns[c].addr] \subseteq Keys
      BY <1>6, ConnFields DEF WriteStore, CheckedKeys
    <2>2. recorded' \subseteq Addrs \X Keys
      BY <1>6, <2>1 DEF WriteStore
    <2>3. conns' = [conns EXCEPT ![c] = Idle] /\ file' \in Seq(Line)
      <3>1. PICK lines \in Contents(conns[c].store), rest \in Remains(file) :
              file' = lines \o rest
        BY <1>6 DEF WriteStore
      <3>2. lines \in Seq(Line) /\ rest \in Seq(Line)
        BY <2>1, ContentsLines, RemainsLines
      <3>3. file' \in Seq(Line)
        BY <3>1, <3>2, ConcatLines
      <3> QED BY <1>6, <3>3 DEF WriteStore
    <2> QED BY <1>6, <2>2, <2>3 DEF WriteStore, CheckedKeys, Conn, Idle
  <1>7. CASE SaveFails(c)
    <2>1. conns' = [conns EXCEPT ![c] = Idle] /\ file' \in Seq(Line)
      <3>1. CASE conns[c].pc = "save" /\ UNCHANGED file
        BY <1>7, <3>1 DEF SaveFails
      <3>2. CASE conns[c].pc = "truncated"
        <4>1. conns[c].store \in Store
          BY <3>2, ConnFields
        <4>2. PICK lines \in Contents(conns[c].store), rest \in Remains(file) :
                \E n \in 0..Len(lines), broken \in Broken(lines, file) :
                  file' = SubSeq(lines, 1, n) \o broken \o rest
          BY <1>7, <3>2 DEF SaveFails
        <4>3. PICK n \in 0..Len(lines), broken \in Broken(lines, file) :
                file' = SubSeq(lines, 1, n) \o broken \o rest
          BY <4>2
        <4>4. lines \in Seq(Line) /\ rest \in Seq(Line)
          BY <4>1, ContentsLines, RemainsLines
        <4>5. broken \in Seq(Line)
          BY <4>4, BrokenLines
        <4>6. SubSeq(lines, 1, n) \in Seq(Line)
          BY <4>4
        <4>7. SubSeq(lines, 1, n) \o broken \in Seq(Line)
          BY <4>5, <4>6, ConcatLines
        <4>8. file' \in Seq(Line)
          BY <4>3, <4>4, <4>7, ConcatLines
        <4> QED BY <1>7, <4>8 DEF SaveFails
      <3> QED BY <1>7, <3>1, <3>2 DEF SaveFails
    <2>2. faults' \in 0..MaxFaults
      BY <1>7, BoundsAssumption DEF SaveFails
    <2> QED BY <1>7, <2>1, <2>2 DEF SaveFails, CheckedKeys, Conn, Idle
  <1> QED BY <1>1, <1>2, <1>3, <1>4, <1>5, <1>6, <1>7 DEF ConnStep

LEMMA NextType == TypeInv /\ [Next]_vars => TypeInv'
  <1> SUFFICES ASSUME TypeInv, [Next]_vars PROVE TypeInv'
    OBVIOUS
  <1>1. ASSUME NEW c \in Conns, ConnStep(c) PROVE TypeInv'
    BY <1>1, ConnType
  <1>2. CASE Crash
    BY <1>2, BoundsAssumption
    DEF TypeInv, TypeOK, CheckedKeys, Crash, Conn, Idle
  <1>3. ASSUME NEW i \in DOMAIN file, UserForgets(i) PROVE TypeInv'
    <2>1. file' \in Seq(Line)
      BY <1>3, RemoveLine DEF TypeInv, TypeOK, UserForgets
    <2> QED
      BY <1>3, <2>1 DEF TypeInv, TypeOK, CheckedKeys, UserForgets, Active
  <1>4. ASSUME NEW a \in Addrs, NEW k \in Keys, KeyChanges(a, k)
        PROVE  TypeInv'
    BY <1>4 DEF TypeInv, TypeOK, CheckedKeys, KeyChanges
  <1>5. CASE UNCHANGED vars
    BY <1>5 DEF TypeInv, TypeOK, CheckedKeys, vars
  <1> QED BY <1>1, <1>2, <1>3, <1>4, <1>5 DEF Next

(* Type correctness of the store, its file and the connections.            *)
THEOREM KnownHostsType == Spec => []TypeOK
  <1>1. TypeInv => TypeOK
    BY DEF TypeInv
  <1> QED BY InitType, NextType, <1>1, PTL DEF Spec

-----------------------------------------------------------------------------
(* What keeps trust on first use while nothing overlaps and no save fails: *)
(* at most one connection is active; the keys accepted so far are in its   *)
(* store; they are in the file too, on one line each, except between its    *)
(* handshake and the end of its save; and what it truncated stays empty.   *)
Alone == \A c, d \in Active : c = d

StoreKnows ==
  \A c \in Active : \A p \in accepted : conns[c].store[p[1]] = {p[2]}

FileKnows ==
  (\A c \in Active : conns[c].pc \in {"check", "handshake"}) =>
    \A p \in accepted : OnlyLine(file, p)

EmptyWhileSaving ==
  \A c \in Active : conns[c].pc = "truncated" => file = <<>>

TofuInv ==
  ~overlapped /\ faults = 0 =>
    Alone /\ StoreKnows /\ FileKnows /\ EmptyWhileSaving

LEMMA TofuConn ==
  ASSUME TypeInv, TofuInv, NEW c \in Conns, ConnStep(c)
  PROVE  TofuInv'
  <1> SUFFICES ASSUME ~overlapped', faults' = 0
               PROVE  (Alone /\ StoreKnows /\ FileKnows /\ EmptyWhileSaving)'
    BY DEF TofuInv
  <1>1. ~overlapped /\ faults = 0
    BY BoundsAssumption
    DEF TypeInv, TypeOK, ConnStep, Load, CheckServerKey, ConnectFails,
        Connected, Truncate, WriteStore, SaveFails
  <1>2. Alone /\ StoreKnows /\ FileKnows /\ EmptyWhileSaving
    BY <1>1 DEF TofuInv
  <1>3. conns \in [Conns -> Conn] /\ file \in Seq(Line)
    BY DEF TypeInv, TypeOK
  <1>4. ASSUME NEW a \in Addrs, Load(c, a)
        PROVE  (Alone /\ StoreKnows /\ FileKnows /\ EmptyWhileSaving)'
    <2>1. Active = {}
      BY <1>4, <1>1 DEF Load
    <2>2. conns' = [conns EXCEPT ![c] =
                      [pc |-> "check", addr |-> a, store |-> Loaded(file)]]
          /\ UNCHANGED <<file, accepted>>
      BY <1>4 DEF Load
    <2>3. conns'[c] = [pc |-> "check", addr |-> a, store |-> Loaded(file)]
          /\ \A d \in Conns : d # c => conns'[d] = conns[d]
      BY <2>2, <1>3
    <2>4. Active' = {c}
      BY <2>1, <2>3 DEF Active
    <2>5. \A p \in accepted : OnlyLine(file, p)
      BY <2>1, <1>2 DEF FileKnows
    <2>6. \A p \in accepted : Loaded(file)[p[1]] = {p[2]}
      <3>1. \A p \in accepted : p \in Line
        BY DEF TypeInv, TypeOK, Line
      <3> QED BY <1>3, <2>5, <3>1, OnlyLineLoaded
    <2> QED
      BY <2>2, <2>3, <2>4, <2>5, <2>6
      DEF Alone, StoreKnows, FileKnows, EmptyWhileSaving
  <1>5. CASE c \in Active
    <2>1. Active = {c} /\ conns[c].pc # "idle"
      BY <1>5, <1>2 DEF Alone, Active
    <2>2. conns[c].addr \in Addrs /\ conns[c].store \in Store
      BY <2>1, ConnFields DEF TypeInv
    <2>3. \A p \in accepted : conns[c].store[p[1]] = {p[2]}
      BY <1>2, <2>1 DEF StoreKnows
    <2>4. conns[c].pc \in {"check", "handshake"} =>
            \A p \in accepted : OnlyLine(file, p)
      BY <1>2, <2>1 DEF FileKnows
    <2>5. \A d \in Conns : d # c => conns'[d] = conns[d]
      BY <1>3 DEF ConnStep, Load, CheckServerKey, ConnectFails,
        Connected, Truncate, WriteStore, SaveFails
    <2>6. Active' \subseteq {c}
      BY <2>1, <2>5 DEF Active
    <2>7. CASE CheckServerKey(c)
      <3> DEFINE addr == conns[c].addr
                 key == presents[addr]
      <3>1. CASE conns[c].store[addr] \subseteq {key}
        <4>1. conns'[c] = [pc |-> "handshake", addr |-> addr,
                           store |-> [conns[c].store EXCEPT ![addr] = {key}]]
          BY <2>7, <3>1, <1>3 DEF CheckServerKey
        <4>2. \A p \in accepted : conns'[c].store[p[1]] = {p[2]}
          <5> SUFFICES ASSUME NEW p \in accepted
                       PROVE  conns'[c].store[p[1]] = {p[2]}
            OBVIOUS
          <5>1. conns[c].store[p[1]] = {p[2]} /\ p[1] \in Addrs
            BY <2>3 DEF TypeInv, TypeOK
          <5>2. CASE p[1] = addr
            BY <5>1, <5>2, <4>1, <3>1, <2>2 DEF Store
          <5>3. CASE p[1] # addr
            BY <5>1, <5>3, <4>1, <2>2 DEF Store
          <5> QED BY <5>2, <5>3
        <4>3. file' = file /\ accepted' = accepted /\ conns[c].pc = "check"
          BY <2>7 DEF CheckServerKey
        <4> DEFINE newStore == conns'[c].store
        <4>6. conns'[c].pc = "handshake"
          BY <4>1
        <4>7. \A p \in accepted' : newStore[p[1]] = {p[2]}
          BY <4>2, <4>3
        <4>8. \A d \in Active' : d = c
          BY <2>6
        <4>4. conns'[c].pc = "handshake" /\ (Alone /\ StoreKnows)'
          BY <4>6, <4>7, <4>8 DEF Alone, StoreKnows
        <4>5. (FileKnows /\ EmptyWhileSaving)'
          BY <4>4, <4>3, <2>4, <2>6 DEF FileKnows, EmptyWhileSaving
        <4> QED BY <4>4, <4>5
      <3>2. CASE ~(conns[c].store[addr] \subseteq {key})
        <4>1. conns'[c].pc = "refused"
          BY <2>7, <3>2, <1>3, ConnFields, <2>1 DEF CheckServerKey, TypeInv
        <4>2. Active' = {}
          BY <4>1, <2>6 DEF Active
        <4>3. file' = file /\ accepted' = accepted /\ conns[c].pc = "check"
          BY <2>7 DEF CheckServerKey
        <4> QED
          BY <4>2, <4>3, <2>4
          DEF Alone, StoreKnows, FileKnows, EmptyWhileSaving
      <3> QED BY <3>1, <3>2
    <2>8. CASE ConnectFails(c)
      <3>1. conns'[c].pc = "idle" /\ UNCHANGED <<file, accepted>>
            /\ conns[c].pc \in {"check", "handshake"}
        BY <2>8, <1>3 DEF ConnectFails, Idle
      <3>2. Active' = {}
        BY <3>1, <2>6 DEF Active
      <3> QED
        BY <3>1, <3>2, <2>4
        DEF Alone, StoreKnows, FileKnows, EmptyWhileSaving
    <2>9. CASE Connected(c)
      <3>1. conns'[c].pc = "save" /\ conns'[c].store = conns[c].store
        BY <2>9, <1>3, <2>1, ConnFields DEF Connected, TypeInv
      <3>2. c \in Active'
        BY <3>1 DEF Active
      <3>3. \A p \in accepted' : conns'[c].store[p[1]] = {p[2]}
        <4> SUFFICES ASSUME NEW p \in accepted'
                     PROVE  conns[c].store[p[1]] = {p[2]}
          BY <3>1
        <4>1. CASE p \in accepted
          BY <4>1, <2>3
        <4>2. CASE p \in {conns[c].addr} \X conns[c].store[conns[c].addr]
          BY <4>2, <2>2 DEF Store, Entries
        <4> QED BY <4>1, <4>2, <2>9 DEF Connected
      <3> QED
        BY <3>1, <3>2, <3>3, <2>6
        DEF Alone, StoreKnows, FileKnows, EmptyWhileSaving
    <2>10. CASE Truncate(c)
      <3>1. conns'[c].pc = "truncated" /\ conns'[c].store = conns[c].store
            /\ file' = <<>> /\ accepted' = accepted
        BY <2>10, <1>3, <2>1, ConnFields DEF Truncate, TypeInv
      <3>2. c \in Active'
        BY <3>1 DEF Active
      <3> QED
        BY <3>1, <3>2, <2>3, <2>6
        DEF Alone, StoreKnows, FileKnows, EmptyWhileSaving
    <2>11. CASE WriteStore(c)
      <3>1. conns'[c].pc = "idle" /\ accepted' = accepted
            /\ conns[c].pc = "truncated"
        BY <2>11, <1>3 DEF WriteStore, Idle
      <3>2. file = <<>>
        BY <3>1, <2>1, <1>2 DEF EmptyWhileSaving
      <3>3. file' \in Contents(conns[c].store)
        <4>1. PICK lines \in Contents(conns[c].store), rest \in Remains(file) :
                file' = lines \o rest
          BY <2>11 DEF WriteStore
        <4>2. rest = <<>>
          BY <3>2 DEF Remains
        <4>3. lines \in Seq(Line)
          BY <2>2, ContentsLines
        <4> QED BY <4>1, <4>2, <4>3
      <3>4. ASSUME NEW p \in accepted PROVE OnlyLine(file', p)
        <4>1. p \in Line /\ p[2] \in conns[c].store[p[1]]
          BY <2>3 DEF TypeInv, TypeOK, Line
        <4> QED BY <4>1, <3>3, <2>2, ContentsLines
      <3>5. Active' = {}
        BY <3>1, <2>6 DEF Active
      <3> QED
        BY <3>1, <3>4, <3>5
        DEF Alone, StoreKnows, FileKnows, EmptyWhileSaving
    <2>12. CASE SaveFails(c)
      BY <2>12, <1>1 DEF SaveFails
    <2>13. ASSUME NEW a \in Addrs, Load(c, a) PROVE FALSE
      BY <2>13, <1>5 DEF Load, Active
    <2> QED
      BY <2>7, <2>8, <2>9, <2>10, <2>11, <2>12, <2>13 DEF ConnStep
  <1>6. CASE c \notin Active
    BY <1>6, <1>4
    DEF Active, ConnStep, CheckServerKey, ConnectFails, Connected, Truncate,
        WriteStore, SaveFails
  <1> QED BY <1>5, <1>6

LEMMA TofuNext == TypeInv /\ TofuInv /\ [Next]_vars => TofuInv'
  <1> SUFFICES ASSUME TypeInv, TofuInv, [Next]_vars PROVE TofuInv'
    OBVIOUS
  <1>1. ASSUME NEW c \in Conns, ConnStep(c) PROVE TofuInv'
    BY <1>1, TofuConn
  <1>2. CASE Crash
    BY <1>2, BoundsAssumption DEF Crash, TofuInv, TypeInv, TypeOK
  <1>3. ASSUME NEW i \in DOMAIN file, UserForgets(i) PROVE TofuInv'
    <2> SUFFICES ASSUME ~overlapped', faults' = 0
                 PROVE  (Alone /\ StoreKnows /\ FileKnows /\ EmptyWhileSaving)'
      BY DEF TofuInv
    <2>1. ~overlapped /\ faults = 0 /\ Active = {} /\ Active' = {}
      BY <1>3 DEF UserForgets, Active
    <2>2. \A p \in accepted : OnlyLine(file, p)
      BY <2>1 DEF TofuInv, FileKnows
    <2>3. ASSUME NEW p \in accepted' PROVE OnlyLine(file', p)
      <3>1. p \in accepted /\ p[1] # file[i][1] /\ p \in Line
        BY <1>3 DEF UserForgets, TypeInv, TypeOK, Line
      <3>2. file' = RemoveAt(file, i) /\ file \in Seq(Line)
        BY <1>3 DEF UserForgets, TypeInv, TypeOK
      <3> QED BY <3>1, <3>2, <2>2, RemoveLine
    <2> QED
      BY <2>1, <2>3 DEF Alone, StoreKnows, FileKnows, EmptyWhileSaving
  <1>4. ASSUME NEW a \in Addrs, NEW k \in Keys, KeyChanges(a, k)
        PROVE  TofuInv'
    BY <1>4 DEF KeyChanges, TofuInv, Alone, StoreKnows, FileKnows,
      EmptyWhileSaving, Active
  <1>5. CASE UNCHANGED vars
    BY <1>5 DEF vars, TofuInv, Alone, StoreKnows, FileKnows,
      EmptyWhileSaving, Active
  <1> QED BY <1>1, <1>2, <1>3, <1>4, <1>5 DEF Next

(* While no connection overlaps another and no save fails, an address      *)
(* completes handshakes with one key only, for any number of connections   *)
(* one after the other, in any order of keys, refusals and failures.       *)
THEOREM TrustOnFirstUse == Spec => []TofuWithoutOverlap
  <1>1. Init => TofuInv
    BY DEF Init, Idle, TofuInv, Active, Alone, StoreKnows, FileKnows,
      EmptyWhileSaving
  <1>2. TypeInv /\ TofuInv => TofuWithoutOverlap
    <2> SUFFICES ASSUME TypeInv, TofuInv, ~overlapped, faults = 0,
                        NEW p \in accepted, NEW q \in accepted, p[1] = q[1]
                 PROVE  p[2] = q[2]
      BY DEF TofuWithoutOverlap, OneKeyPerAddress
    <2>1. CASE Active = {}
      <3>1. OnlyLine(file, p) /\ OnlyLine(file, q)
        BY <2>1 DEF TofuInv, FileKnows
      <3>2. p = q
        BY <3>1 DEF OnlyLine
      <3> QED BY <3>2
    <2>2. ASSUME NEW c \in Active PROVE p[2] = q[2]
      BY <2>2 DEF TofuInv, StoreKnows
    <2> QED BY <2>1, <2>2
  <1> QED BY InitType, NextType, TofuNext, <1>1, <1>2, PTL DEF Spec

-----------------------------------------------------------------------------
(* The fingerprints that may stand after an address while no save fails:   *)
(* those its host has had, and the hosts whose addresses end in it.        *)
Possible(a) == UNION {had[b] : b \in EndingIn(a)}

RefusalInv ==
  /\ \A a \in Addrs : presents[a] \in had[a]
  /\ faults = 0 =>
       /\ \A i \in DOMAIN file : file[i][2] \in Possible(file[i][1])
       /\ \A c \in Conns : conns[c].pc # "idle" =>
            \A a \in Addrs : conns[c].store[a] \subseteq Possible(a)
  /\ RefusalHasCause

(* A fingerprint that may stand after an address may also be left behind   *)
(* after any end of it.                                                    *)
LEMMA PossibleForEnds ==
  ASSUME NEW a \in Addrs, NEW b \in EndingIn(a)
  PROVE  b \in Addrs /\ Possible(b) \subseteq Possible(a)
  <1>1. b \in Addrs
    BY DEF EndingIn
  <1>2. EndingIn(b) \subseteq EndingIn(a)
    BY <1>1, AddrsAssumption DEF EndingIn
  <1> QED BY <1>1, <1>2 DEF Possible

LEMMA RefusalConn ==
  ASSUME TypeInv, RefusalInv, NEW c \in Conns, ConnStep(c)
  PROVE  RefusalInv'
  <1>1. UNCHANGED <<presents, had>>
    BY DEF ConnStep, Load, CheckServerKey, ConnectFails, Connected, Truncate,
      WriteStore, SaveFails
  <1>2. \A a \in Addrs : presents'[a] \in had'[a]
    BY <1>1 DEF RefusalInv
  <1>3. CASE faults' # 0
    BY <1>2, <1>3 DEF RefusalInv, RefusalHasCause
  <1>4. CASE faults' = 0
    <2>1. faults = 0 /\ ~SaveFails(c)
      BY <1>4, BoundsAssumption
      DEF TypeInv, TypeOK, ConnStep, Load, CheckServerKey, ConnectFails,
          Connected, Truncate, WriteStore, SaveFails
    <2>2. \A d \in Conns : d # c => conns'[d] = conns[d]
      BY <2>1 DEF TypeInv, TypeOK, ConnStep, Load, CheckServerKey,
        ConnectFails, Connected, Truncate, WriteStore
    <2>3. conns \in [Conns -> Conn] /\ file \in Seq(Line)
          /\ \A i \in DOMAIN file : file[i] \in Line
      BY DEF TypeInv, TypeOK
    <2>4. /\ \A i \in DOMAIN file : file[i][2] \in Possible(file[i][1])
          /\ conns[c].pc # "idle" =>
               \A a \in Addrs : conns[c].store[a] \subseteq Possible(a)
          /\ \A a \in Addrs : presents[a] \in had[a]
      BY <2>1 DEF RefusalInv
    <2> DEFINE FileOK == \A i \in DOMAIN file' : file'[i][2] \in Possible(file'[i][1])
               StoreOK == conns'[c].pc # "idle" =>
                    \A a \in Addrs : conns'[c].store[a] \subseteq Possible(a)
               CauseOK == conns'[c].pc = "refused" =>
                    \E k \in conns'[c].store[conns'[c].addr],
                       l \in had[conns'[c].addr] :
                      k # l /\ \E b \in EndingIn(conns'[c].addr) : k \in had[b]
    <2>5. FileOK /\ StoreOK /\ CauseOK
      <3>1. ASSUME NEW a \in Addrs, Load(c, a) PROVE FileOK /\ StoreOK /\ CauseOK
        <4>1. conns'[c] = [pc |-> "check", addr |-> a, store |-> Loaded(file)]
              /\ file' = file
          BY <3>1, <2>3 DEF Load
        <4>2. ASSUME NEW b \in Addrs PROVE Loaded(file)[b] \subseteq Possible(b)
          <5> SUFFICES ASSUME NEW k \in Loaded(file)[b] PROVE k \in Possible(b)
            OBVIOUS
          <5>1. PICK i \in DOMAIN file : file[i] = <<b, k>>
            BY <2>3, LoadedStore
          <5> QED BY <5>1, <2>4
        <4> QED BY <4>1, <4>2, <2>4
      <3>2. CASE CheckServerKey(c)
        <4> DEFINE addr == conns[c].addr
                   key == presents[addr]
        <4>1. conns[c].pc = "check" /\ addr \in Addrs
              /\ conns[c].store \in Store /\ file' = file
          BY <3>2, ConnFields DEF CheckServerKey, TypeInv
        <4>2. key \in Possible(addr) /\ key \in had[addr]
          BY <4>1, <2>4 DEF Possible, EndingIn
        <4>3. CASE conns[c].store[addr] \subseteq {key}
          <5>1. conns'[c] = [pc |-> "handshake", addr |-> addr,
                             store |-> [conns[c].store EXCEPT ![addr] = {key}]]
            BY <3>2, <4>3, <2>3 DEF CheckServerKey
          <5>2. ASSUME NEW a \in Addrs
                PROVE  conns'[c].store[a] \subseteq Possible(a)
            <6>1. CASE a = addr
              <7>1. conns'[c].store[a] = {key}
                BY <6>1, <5>1, <4>1 DEF Store
              <7> QED BY <7>1, <6>1, <4>2
            <6>2. CASE a # addr
              <7>1. conns'[c].store[a] = conns[c].store[a]
                BY <6>2, <5>1, <4>1 DEF Store
              <7> QED BY <7>1, <4>1, <2>4
            <6> QED BY <6>1, <6>2
          <5> QED BY <5>1, <5>2, <4>1, <2>4
        <4>4. CASE ~(conns[c].store[addr] \subseteq {key})
          <5>1. conns'[c].addr = addr /\ conns'[c].store = conns[c].store
            BY <3>2, <4>1, <4>4, <2>3, ConnFields DEF CheckServerKey, TypeInv
          <5>2. PICK k \in conns[c].store[addr] : k # key
            BY <4>4
          <5>3. k \in Possible(addr)
            BY <4>1, <2>4
          <5>4. \E b \in EndingIn(addr) : k \in had[b]
            BY <5>3 DEF Possible
          <5> QED BY <5>1, <5>2, <5>4, <4>1, <4>2, <2>4
        <4> QED BY <4>3, <4>4
      <3>3. CASE ConnectFails(c)
        BY <3>3, <2>3, <2>4 DEF ConnectFails, Idle
      <3>4. CASE Connected(c)
        <4>1. conns'[c].pc = "save" /\ conns'[c].store = conns[c].store
              /\ file' = file /\ conns[c].pc # "idle"
          BY <3>4, <2>3, ConnFields DEF Connected, TypeInv
        <4> QED BY <4>1, <2>4
      <3>5. CASE Truncate(c)
        <4>1. conns'[c].pc = "truncated" /\ conns'[c].store = conns[c].store
              /\ file' = <<>> /\ conns[c].pc # "idle"
          BY <3>5, <2>3, ConnFields DEF Truncate, TypeInv
        <4> QED BY <4>1, <2>4
      <3>6. CASE WriteStore(c)
        <4>1. conns'[c].pc = "idle" /\ conns[c].pc # "idle"
          BY <3>6, <2>3 DEF WriteStore, Idle
        <4>2. conns[c].store \in Store
          BY <4>1, ConnFields DEF TypeInv
        <4>3. PICK lines \in Contents(conns[c].store), rest \in Remains(file) :
                file' = lines \o rest
          BY <3>6 DEF WriteStore
        <4>4. /\ lines \in Seq(Line) /\ rest \in Seq(Line)
              /\ \A i \in DOMAIN lines : lines[i][2] \in conns[c].store[lines[i][1]]
              /\ \A i \in DOMAIN rest : \E j \in DOMAIN file :
                   /\ rest[i][2] = file[j][2]
                   /\ file[j][1] \in EndingIn(rest[i][1])
          BY <4>2, <2>3, ContentsLines, RemainsLines
        <4>5. ASSUME NEW i \in DOMAIN lines
              PROVE  lines[i][2] \in Possible(lines[i][1])
          <5>1. lines[i][1] \in Addrs
            BY <4>4 DEF Line
          <5> QED BY <5>1, <4>4, <4>1, <2>4
        <4>6. ASSUME NEW i \in DOMAIN rest
              PROVE  rest[i][2] \in Possible(rest[i][1])
          <5>1. PICK j \in DOMAIN file :
                  rest[i][2] = file[j][2] /\ file[j][1] \in EndingIn(rest[i][1])
            BY <4>4
          <5>2. rest[i][1] \in Addrs
            BY <4>4 DEF Line
          <5>3. Possible(file[j][1]) \subseteq Possible(rest[i][1])
            BY <5>1, <5>2, PossibleForEnds
          <5> QED BY <5>1, <5>3, <2>4
        <4>7. FileOK
          <5> SUFFICES ASSUME NEW i \in DOMAIN file'
                       PROVE  file'[i][2] \in Possible(file'[i][1])
            OBVIOUS
          <5>1. \/ \E j \in DOMAIN lines : file'[i] = lines[j]
                \/ \E j \in DOMAIN rest : file'[i] = rest[j]
            BY <4>3, <4>4, ConcatLines
          <5> QED BY <5>1, <4>5, <4>6
        <4> QED BY <4>1, <4>7
      <3> HIDE DEF FileOK, StoreOK, CauseOK
      <3> QED BY <3>1, <3>2, <3>3, <3>4, <3>5, <3>6, <2>1 DEF ConnStep
    <2>6. had' = had /\ \A a : Possible(a)' = Possible(a)
      BY <1>1 DEF Possible, EndingIn
    <2>7. (\A i \in DOMAIN file : file[i][2] \in Possible(file[i][1]))'
      BY <2>5, <2>6 DEF Possible, EndingIn
    <2>8. ASSUME NEW d \in Conns, conns'[d].pc # "idle", NEW a \in Addrs
          PROVE  conns'[d].store[a] \subseteq Possible(a)'
      <3>1. CASE d = c
        BY <3>1, <2>5, <2>6, <2>8
      <3>2. CASE d # c
        <4>1. conns'[d] = conns[d] /\ conns[d].pc # "idle"
          BY <3>2, <2>2, <2>8
        <4> QED BY <4>1, <2>1, <2>6 DEF RefusalInv
      <3> QED BY <3>1, <3>2
    <2>9. RefusalHasCause'
      <3> SUFFICES ASSUME NEW d \in Conns, conns'[d].pc = "refused"
                   PROVE  \E k \in conns'[d].store[conns'[d].addr],
                             l \in had[conns'[d].addr] :
                            k # l /\ \E b \in EndingIn(conns'[d].addr) : k \in had[b]
        BY <2>6 DEF RefusalHasCause, EndingIn
      <3>1. CASE d = c
        BY <3>1, <2>5
      <3>2. CASE d # c
        BY <3>2, <2>1, <2>2 DEF RefusalInv, RefusalHasCause
      <3> QED BY <3>1, <3>2
    <2>10. (\A d \in Conns : conns[d].pc # "idle" =>
              \A a \in Addrs : conns[d].store[a] \subseteq Possible(a))'
      BY <2>8
    <2> QED BY <1>2, <2>7, <2>9, <2>10 DEF RefusalInv
  <1> QED BY <1>3, <1>4

LEMMA RefusalNext == TypeInv /\ RefusalInv /\ [Next]_vars => RefusalInv'
  <1> SUFFICES ASSUME TypeInv, RefusalInv, [Next]_vars PROVE RefusalInv'
    OBVIOUS
  <1>1. ASSUME NEW c \in Conns, ConnStep(c) PROVE RefusalInv'
    BY <1>1, RefusalConn
  <1>2. CASE Crash
    <2>1. faults' # 0 /\ UNCHANGED <<presents, had>>
      BY <1>2, BoundsAssumption DEF Crash, TypeInv, TypeOK
    <2> QED BY <2>1 DEF RefusalInv, RefusalHasCause
  <1>3. ASSUME NEW i \in DOMAIN file, UserForgets(i) PROVE RefusalInv'
    <2>1. UNCHANGED <<presents, conns, faults, had>>
      BY <1>3 DEF UserForgets
    <2>2. \A a : Possible(a)' = Possible(a)
      BY <2>1 DEF Possible, EndingIn
    <2>3. \A m \in DOMAIN file' : \E j \in DOMAIN file : file'[m] = file[j]
      BY <1>3, RemoveLine DEF UserForgets, TypeInv, TypeOK
    <2>4. RefusalHasCause'
      BY <2>1 DEF RefusalInv, RefusalHasCause, EndingIn
    <2> QED BY <2>1, <2>2, <2>3, <2>4 DEF RefusalInv
  <1>4. ASSUME NEW a \in Addrs, NEW k \in Keys, KeyChanges(a, k)
        PROVE  RefusalInv'
    <2>1. /\ presents' = [presents EXCEPT ![a] = k]
          /\ had' = [had EXCEPT ![a] = @ \cup {k}]
          /\ UNCHANGED <<file, conns, faults>>
      BY <1>4 DEF KeyChanges
    <2>2. presents \in [Addrs -> Keys] /\ had \in [Addrs -> SUBSET Keys]
          /\ file \in Seq(Line) /\ conns \in [Conns -> Conn]
      BY DEF TypeInv, TypeOK
    <2>3. \A b \in Addrs : had[b] \subseteq had'[b] /\ presents'[b] \in had'[b]
      BY <2>1, <2>2 DEF RefusalInv
    <2>4. ASSUME NEW b \in Addrs PROVE Possible(b) \subseteq Possible(b)'
      <3>1. EndingIn(b) \subseteq Addrs
        BY DEF EndingIn
      <3> QED BY <2>3, <3>1 DEF Possible, EndingIn
    <2>5. ASSUME faults = 0, NEW i \in DOMAIN file
          PROVE  \A b : b = file[i][1] => file[i][2] \in Possible(b)'
      <3>1. file[i][1] \in Addrs
        BY <2>2 DEF Line
      <3> QED BY <2>4, <2>5, <3>1 DEF RefusalInv
    <2>6. ASSUME faults = 0, NEW c \in Conns, conns[c].pc # "idle",
                 NEW b \in Addrs
          PROVE  conns[c].store[b] \subseteq Possible(b)'
      BY <2>4, <2>6 DEF RefusalInv
    <2>7. RefusalHasCause'
      <3> SUFFICES ASSUME NEW c \in Conns, conns[c].pc = "refused", faults = 0
                   PROVE  \E m \in conns[c].store[conns[c].addr],
                             l \in had'[conns[c].addr] :
                            m # l /\ \E b \in EndingIn(conns[c].addr) : m \in had'[b]
        BY <2>1 DEF RefusalHasCause, EndingIn
      <3>1. conns[c].addr \in Addrs
        BY ConnFields DEF TypeInv
      <3>2. EndingIn(conns[c].addr) \subseteq Addrs
        BY <3>1 DEF EndingIn
      <3> QED BY <2>3, <3>1, <3>2 DEF RefusalInv, RefusalHasCause
    <2> QED BY <2>1, <2>3, <2>5, <2>6, <2>7 DEF RefusalInv
  <1>5. CASE UNCHANGED vars
    <2>1. UNCHANGED <<file, presents, conns, faults, had>>
      BY <1>5 DEF vars
    <2>2. \A a : Possible(a)' = Possible(a)
      BY <2>1 DEF Possible, EndingIn
    <2>3. RefusalHasCause'
      BY <2>1 DEF RefusalInv, RefusalHasCause, EndingIn
    <2> QED BY <2>1, <2>2, <2>3 DEF RefusalInv
  <1> QED BY <1>1, <1>2, <1>3, <1>4, <1>5 DEF Next

(* However saves overlap, lose entries and leave pieces of lines behind:   *)
(* unless one failed, a refused host showed another key than the recorded  *)
(* one, which it had at some time itself, or a host whose address ends in  *)
(* its own.                                                                *)
THEOREM RefusalsHaveACause == Spec => []RefusalHasCause
  <1>1. Init => RefusalInv
    <2> SUFFICES ASSUME Init PROVE RefusalInv
      OBVIOUS
    <2>1. \A a \in Addrs : presents[a] \in had[a]
      BY DEF Init
    <2>2. file = <<>> /\ \A c \in Conns : conns[c].pc = "idle"
      BY DEF Init, Idle
    <2>3. RefusalHasCause
      BY <2>2 DEF RefusalHasCause
    <2> QED BY <2>1, <2>2, <2>3 DEF RefusalInv
  <1>2. RefusalInv => RefusalHasCause
    BY DEF RefusalInv
  <1> QED BY InitType, NextType, RefusalNext, <1>1, <1>2, PTL DEF Spec
=============================================================================
