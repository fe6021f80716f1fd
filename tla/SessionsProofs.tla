---------------------------- MODULE SessionsProofs ----------------------------
(***************************************************************************)
(* The invariants of Sessions, and that the active session is followed,    *)
(* for any number of sessions, events and sizes.                           *)
(***************************************************************************)
EXTENDS Sessions, FunctionTheorems, FiniteSetTheorems, SequenceTheorems,
        WellFoundedInduction, TLAPS

-----------------------------------------------------------------------------
(* The sessions that stay, in their order.                                 *)

LEMMA LeastNumber ==
  ASSUME NEW T \in SUBSET Nat, T # {}
  PROVE  \E x \in T : \A y \in T : x <= y
  <1>1. \E R : /\ IsWellFoundedOn(R, Nat)
               /\ \A x, y \in Nat : x < y => <<x, y>> \in R
    <2>1. IsWellFoundedOn(OpToRel(<, Nat), Nat)
      BY NatLessThanWellFounded
    <2>2. \A x, y \in Nat : x < y => <<x, y>> \in OpToRel(<, Nat)
      BY DEF OpToRel
    <2> QED BY <2>1, <2>2
  <1>2. PICK R : /\ IsWellFoundedOn(R, Nat)
                 /\ \A x, y \in Nat : x < y => <<x, y>> \in R
    BY <1>1
  <1>3. IsWellFoundedOn(R, Nat) /\ T \subseteq Nat
    BY <1>2
  <1>4. \E z \in T : \A y \in T : <<y, z>> \notin R
    BY <1>3, WFMin, Zenon
  <1>5. PICK z \in T : \A y \in T : <<y, z>> \notin R
    BY <1>4
  <1>6. \A y \in T : z <= y
    <2> SUFFICES ASSUME NEW y \in T PROVE z <= y
      OBVIOUS
    <2>1. y \in Nat /\ z \in Nat /\ ~(y < z)
      BY <1>2, <1>3, <1>5
    <2> QED BY <2>1
  <1> QED BY <1>6

(* Induction on the numbers, for a set instead of a predicate.             *)
LEMMA NumbersByInduction ==
  ASSUME NEW G, 0 \in G, \A n \in Nat : n \in G => n + 1 \in G
  PROVE  Nat \subseteq G
  <1> SUFFICES ASSUME Nat \ G # {} PROVE FALSE
    OBVIOUS
  <1>1. PICK x \in Nat \ G : \A y \in Nat \ G : x <= y
    BY LeastNumber
  <1>2. x - 1 \in Nat /\ x - 1 \in G
    BY <1>1
  <1> QED BY <1>1, <1>2

Increasing(f) == \A i, j \in DOMAIN f : i < j => f[i] < f[j]

(* Every finite set of numbers can be put in order.                        *)
LEMMA OrderExists ==
  ASSUME NEW n \in Nat, NEW S \in SUBSET (1..n)
  PROVE  /\ IsFiniteSet(S) /\ Cardinality(S) \in Nat
         /\ \E f \in [1..Cardinality(S) -> S] : Increasing(f)
  <1> DEFINE Ordered(T) == \E f \in [1..Cardinality(T) -> T] : Increasing(f)
             G == {m \in Nat : \A T \in SUBSET (1..m) : Ordered(T)}
  <1>1. \A m \in Nat : \A T \in SUBSET (1..m) :
          IsFiniteSet(T) /\ Cardinality(T) \in Nat
    <2> SUFFICES ASSUME NEW m \in Nat, NEW T \in SUBSET (1..m)
                 PROVE  IsFiniteSet(T) /\ Cardinality(T) \in Nat
      OBVIOUS
    <2>1. IsFiniteSet(1..m)
      BY FS_Interval
    <2>2. IsFiniteSet(T)
      BY <2>1, FS_Subset
    <2> QED BY <2>2, FS_CardinalityType
  <1>2. 0 \in G
    <2> SUFFICES ASSUME NEW T \in SUBSET (1..0) PROVE Ordered(T)
      OBVIOUS
    <2>1. T = {} /\ Cardinality({}) = 0
      BY FS_EmptySet
    <2>2. 1..Cardinality(T) = {}
      BY <2>1
    <2> DEFINE f == [i \in 1..Cardinality(T) |-> 0]
    <2>3. f \in [1..Cardinality(T) -> T] /\ Increasing(f)
      BY <2>2 DEF Increasing
    <2> QED BY <2>3
  <1>3. ASSUME NEW m \in Nat, m \in G PROVE m + 1 \in G
    <2> SUFFICES ASSUME NEW T \in SUBSET (1..(m + 1)) PROVE Ordered(T)
      OBVIOUS
    <2>1. CASE m + 1 \notin T
      <3>1. T \in SUBSET (1..m)
        BY <2>1
      <3> QED BY <1>3, <3>1
    <2>2. CASE m + 1 \in T
      <3> DEFINE U == T \ {m + 1}
                 c == Cardinality(U)
      <3>1. U \in SUBSET (1..m) /\ T = U \cup {m + 1} /\ m + 1 \notin U
        BY <2>2
      <3>2. IsFiniteSet(U) /\ c \in Nat
        BY <1>1, <3>1
      <3>3. Cardinality(T) = c + 1
        BY <3>1, <3>2, FS_AddElement
      <3>4. PICK g \in [1..c -> U] : Increasing(g)
        BY <1>3, <3>1
      <3> HIDE DEF U, c
      <3> DEFINE f == [i \in 1..(c + 1) |-> IF i = c + 1 THEN m + 1 ELSE g[i]]
      <3>5. f \in [1..(c + 1) -> T]
        BY <3>1, <3>2, <3>4
      <3>6. ASSUME NEW i \in 1..(c + 1), NEW j \in 1..(c + 1), i < j
            PROVE  f[i] < f[j]
        <4>1. i \in 1..c /\ f[i] = g[i] /\ g[i] \in U
          BY <3>2, <3>4, <3>6
        <4>2. CASE j = c + 1
          <5>1. f[j] = m + 1 /\ g[i] \in 1..m
            BY <3>1, <4>1, <4>2
          <5> QED BY <4>1, <5>1
        <4>3. CASE j # c + 1
          BY <3>2, <3>4, <3>6, <4>1, <4>3 DEF Increasing
        <4> QED BY <4>2, <4>3
      <3>7. Increasing(f)
        BY <3>5, <3>6 DEF Increasing
      <3> QED BY <3>3, <3>5, <3>7
    <2> QED BY <2>1, <2>2
  <1> HIDE DEF G
  <1>4. Nat \subseteq G
    BY <1>2, <1>3, NumbersByInduction
  <1> QED BY <1>1, <1>4 DEF G

LEMMA InOrderType ==
  ASSUME NEW n \in Nat, NEW S \in SUBSET (1..n)
  PROVE  /\ IsFiniteSet(S) /\ Cardinality(S) \in Nat
         /\ InOrder(S) \in [1..Cardinality(S) -> S]
         /\ \A i, j \in 1..Cardinality(S) : i < j => InOrder(S)[i] < InOrder(S)[j]
  <1>1. \E f \in [1..Cardinality(S) -> S] :
          \A i, j \in DOMAIN f : i < j => f[i] < f[j]
    BY OrderExists DEF Increasing
  <1>2. /\ InOrder(S) \in [1..Cardinality(S) -> S]
        /\ \A i, j \in DOMAIN InOrder(S) : i < j => InOrder(S)[i] < InOrder(S)[j]
    BY <1>1 DEF InOrder
  <1> QED BY <1>2, OrderExists

(* None of them is left out.                                               *)
LEMMA InOrderOnto ==
  ASSUME NEW n \in Nat, NEW S \in SUBSET (1..n), NEW s \in S
  PROVE  \E i \in 1..Cardinality(S) : InOrder(S)[i] = s
  <1> DEFINE C == Cardinality(S)
             f == InOrder(S)
  <1>0. \A t \in S : t \in Nat /\ 1 <= t /\ t <= n
    OBVIOUS
  <1>1. /\ IsFiniteSet(S) /\ C \in Nat /\ f \in [1..C -> S]
        /\ \A i, j \in 1..C : i < j => f[i] < f[j]
    BY InOrderType
  <1>2. \A i \in 1..C : f[i] \in Nat
    BY <1>0, <1>1
  <1> HIDE DEF C, f
  <1>3. \A i, j \in 1..C : f[i] = f[j] => i = j
    <2> SUFFICES ASSUME NEW i \in 1..C, NEW j \in 1..C, f[i] = f[j], i # j
                 PROVE  FALSE
      OBVIOUS
    <2>1. i < j \/ j < i
      BY <1>1
    <2> QED BY <1>1, <1>2, <2>1
  <1>4. f \in Injection(1..C, S)
    <2>1. f \in [1..C -> S]
      BY <1>1
    <2> QED BY <2>1, <1>3 DEF Injection, IsInjective
  <1>5. Cardinality(1..C) = Cardinality(S)
    <2>1. Cardinality(1..C) = IF 1 > C THEN 0 ELSE C - 1 + 1
      BY <1>1, FS_Interval
    <2>2. Cardinality(1..C) = C
      BY <1>1, <2>1
    <2> QED BY <2>2 DEF C
  <1>6. f \in Surjection(1..C, S)
    BY <1>1, <1>4, <1>5, FS_Injection
  <1>7. \E i \in 1..C : f[i] = s
    BY <1>6 DEF Surjection
  <1> QED BY <1>7 DEF C, f

Below(S, a) == {j \in S : j < a}

(* The position of an element is the number of those that are not larger.  *)
LEMMA InOrderRank ==
  ASSUME NEW n \in Nat, NEW S \in SUBSET (1..n), NEW a \in 1..(n + 1)
  PROVE  /\ Cardinality(Below(S, a)) \in 0..Cardinality(S)
         /\ \A i \in 1..Cardinality(S) :
              InOrder(S)[i] < a <=> i <= Cardinality(Below(S, a))
  <1> DEFINE C == Cardinality(S)
             f == InOrder(S)
             c(b) == Cardinality(Below(S, b))
             G == {k \in Nat : k <= n => \A i \in 1..C : f[i] < k + 1 <=> i <= c(k + 1)}
  <1>0. \A t \in S : t \in Nat /\ 1 <= t /\ t <= n
    OBVIOUS
  <1>1. /\ IsFiniteSet(S) /\ C \in Nat /\ f \in [1..C -> S]
        /\ \A i, j \in 1..C : i < j => f[i] < f[j]
        /\ \A s \in S : \E i \in 1..C : f[i] = s
    BY InOrderType, InOrderOnto
  <1>2. ASSUME NEW b PROVE IsFiniteSet(Below(S, b)) /\ c(b) \in 0..C
    <2>1. Below(S, b) \in SUBSET S
      BY DEF Below
    <2>2. IsFiniteSet(Below(S, b)) /\ c(b) <= C
      BY <1>1, <2>1, FS_Subset
    <2>3. c(b) \in Nat
      BY <2>2, FS_CardinalityType
    <2> QED BY <1>1, <2>2, <2>3
  <1>3. \A i \in 1..C : f[i] \in 1..n
    BY <1>1
  <1> HIDE DEF C, f
  <1>4. 0 \in G
    <2>1. Below(S, 1) = {}
      <3>1. \A j \in S : ~(j < 1)
        BY <1>0
      <3> QED BY <3>1 DEF Below
    <2>2. c(0 + 1) = 0
      BY <2>1, FS_EmptySet
    <2>3. \A i \in 1..C : ~(f[i] < 0 + 1) /\ ~(i <= 0)
      BY <1>1, <1>3
    <2> HIDE DEF c
    <2>4. \A i \in 1..C : f[i] < 0 + 1 <=> i <= c(0 + 1)
      BY <2>2, <2>3
    <2> QED BY <2>4
  <1>5. ASSUME NEW k \in Nat, k \in G PROVE k + 1 \in G
    <2> SUFFICES ASSUME k + 1 <= n, NEW i \in 1..C
                 PROVE  f[i] < k + 1 + 1 <=> i <= c(k + 1 + 1)
      OBVIOUS
    <2>1. \A j \in 1..C : f[j] < k + 1 <=> j <= c(k + 1)
      BY <1>5
    <2>2. f[i] \in 1..n /\ c(k + 1) \in 0..C
      BY <1>2, <1>3
    <2>3. CASE k + 1 \notin S
      <3>1. Below(S, k + 1 + 1) = Below(S, k + 1)
        <4>1. \A j \in S : j < k + 1 + 1 <=> j < k + 1
          <5> SUFFICES ASSUME NEW j \in S PROVE j < k + 1 + 1 <=> j < k + 1
            OBVIOUS
          <5>1. j \in Nat /\ j # k + 1
            BY <1>0, <2>3
          <5> QED BY <5>1
        <4> QED BY <4>1 DEF Below
      <3>2. f[i] # k + 1
        BY <1>1, <2>3
      <3>3. c(k + 1 + 1) = c(k + 1)
        BY <3>1
      <3> HIDE DEF c
      <3> QED BY <2>1, <2>2, <3>2, <3>3
    <2>4. CASE k + 1 \in S
      <3>1. Below(S, k + 1 + 1) = Below(S, k + 1) \cup {k + 1}
            /\ k + 1 \notin Below(S, k + 1)
        <4>1. \A j \in S : j < k + 1 + 1 <=> j < k + 1 \/ j = k + 1
          <5> SUFFICES ASSUME NEW j \in S
                       PROVE  j < k + 1 + 1 <=> j < k + 1 \/ j = k + 1
            OBVIOUS
          <5>1. j \in Nat
            BY <1>0
          <5> QED BY <5>1
        <4>2. ~(k + 1 < k + 1)
          OBVIOUS
        <4> QED BY <2>4, <4>1, <4>2 DEF Below
      <3>2. c(k + 1 + 1) = c(k + 1) + 1
        BY <1>2, <3>1, FS_AddElement
      <3> HIDE DEF c
      <3>3. PICK m \in 1..C : f[m] = k + 1
        BY <1>1, <2>4
      <3>4. ~(m <= c(k + 1))
        BY <2>1, <3>3
      <3>5. m = c(k + 1) + 1
        <4> SUFFICES ASSUME c(k + 1) + 1 < m PROVE FALSE
          BY <1>1, <2>2, <3>4
        <4>1. c(k + 1) + 1 \in 1..C
          BY <1>1, <2>2
        <4>2. f[c(k + 1) + 1] < k + 1
          BY <1>1, <3>3, <4>1
        <4> QED BY <2>1, <2>2, <4>1, <4>2
      <3>6. f[i] <= k + 1 <=> i <= m
        BY <1>1, <1>3, <2>2, <3>3
      <3> QED BY <1>1, <2>2, <3>2, <3>5, <3>6
    <2> QED BY <2>3, <2>4
  <1> HIDE DEF G
  <1>6. Nat \subseteq G
    BY <1>4, <1>5, NumbersByInduction
  <1>7. a - 1 \in G /\ a - 1 <= n /\ (a - 1) + 1 = a
    BY <1>6
  <1>8. \A i \in 1..C : f[i] < a <=> i <= c(a)
    <2> HIDE DEF c
    <2> QED BY <1>7 DEF G
  <1> QED BY <1>2, <1>8 DEF C, f

(* The position in the list of those that stay is no larger than in the    *)
(* whole list, and is the same if all stay.                                *)
LEMMA InOrderBounds ==
  ASSUME NEW n \in Nat, NEW S \in SUBSET (1..n)
  PROVE  /\ \A i \in 1..Cardinality(S) : i <= InOrder(S)[i]
         /\ S = 1..n => /\ Cardinality(S) = n
                        /\ \A i \in 1..n : InOrder(S)[i] = i
  <1> DEFINE C == Cardinality(S)
             f == InOrder(S)
  <1>0. \A t \in S : t \in Nat /\ 1 <= t /\ t <= n
    OBVIOUS
  <1>1. /\ IsFiniteSet(S) /\ C \in Nat /\ f \in [1..C -> S]
        /\ \A i, j \in 1..C : i < j => f[i] < f[j]
    BY InOrderType
  <1>2. ASSUME NEW i \in 1..C PROVE f[i] \in 1..n /\ i <= f[i]
    <2>1. f[i] \in S /\ f[i] \in 1..n /\ f[i] + 1 \in 1..(n + 1) /\ f[i] < f[i] + 1
      <3>1. f[i] \in S /\ f[i] \in 1..n
        BY <1>1
      <3> QED BY <3>1
    <2>2. i <= Cardinality(Below(S, f[i] + 1))
      BY <2>1, InOrderRank
    <2>3. /\ IsFiniteSet(1..f[i]) /\ Cardinality(1..f[i]) = f[i]
          /\ Below(S, f[i] + 1) \in SUBSET (1..f[i])
      <3>1. f[i] \in Int /\ 1 \in Int
        BY <2>1
      <3>2. /\ IsFiniteSet(1..f[i])
            /\ Cardinality(1..f[i]) = IF 1 > f[i] THEN 0 ELSE f[i] - 1 + 1
        BY <3>1, FS_Interval
      <3>3. Cardinality(1..f[i]) = f[i]
        BY <2>1, <3>2
      <3>4. \A j \in Below(S, f[i] + 1) : j \in 1..f[i]
        BY <1>0, <2>1 DEF Below
      <3> QED BY <3>2, <3>3, <3>4
    <2>4. Cardinality(Below(S, f[i] + 1)) <= f[i]
          /\ Cardinality(Below(S, f[i] + 1)) \in Nat
      BY <2>3, FS_Subset, FS_CardinalityType
    <2> QED BY <2>1, <2>2, <2>4
  <1>3. ASSUME S = 1..n PROVE C = n /\ \A i \in 1..n : f[i] = i
    <2>1. Cardinality(1..n) = IF 1 > n THEN 0 ELSE n - 1 + 1
      BY FS_Interval
    <2>2. C = n
      BY <1>3, <2>1
    <2>3. ASSUME NEW i \in 1..n PROVE f[i] = i
      <3>1. f[i] \in 1..n /\ i <= f[i]
        BY <1>2, <2>2
      <3> SUFFICES ASSUME i < f[i] PROVE FALSE
        BY <3>1
      <3>2. i + 1 \in 1..(n + 1) /\ Below(S, i + 1) = 1..i
        BY <1>3 DEF Below
      <3>3. Cardinality(1..i) = IF 1 > i THEN 0 ELSE i - 1 + 1
        BY FS_Interval
      <3>4. Cardinality(Below(S, i + 1)) = i
        BY <3>2, <3>3
      <3>5. f[i] < i + 1
        BY <2>2, <3>2, <3>4, InOrderRank
      <3> QED BY <3>1, <3>5
    <2> QED BY <2>2, <2>3
  <1> QED BY <1>2, <1>3

-----------------------------------------------------------------------------
(* The inductive invariant, for a list ss of sessions of which act is the  *)
(* active one, and their tasks tsk, when n sessions have been opened: the  *)
(* arguments with which callbacks call pump.                               *)

(* Some session is active if there is one.                                 *)
SomeActive(ss, act) ==
  /\ ss \in Seq(ActiveSession) /\ act \in 0..Len(ss)
  /\ act = 0 <=> ss = <<>>

(* The sessions are in the order in which they were opened.                *)
OpeningOrder(tsk, ss, n) ==
  /\ \A i, j \in DOMAIN ss : i < j => ss[i].id < ss[j].id
  /\ \A i \in DOMAIN ss : i <= ss[i].id /\ ss[i].id <= n
  /\ \A id \in Ids : id > n => tsk[id] = NoTask

(* No more was fed or is in a channel than there were events.              *)
Counted(tsk, ss) ==
  /\ tsk \in [Ids -> Task]
  /\ \A id \in Ids : tsk[id].output <= events
  /\ \A i \in DOMAIN ss :
       /\ ss[i].cleared <= ss[i].fed
       /\ ss[i].fed + tsk[ss[i].id].output <= events

(* SizeOnItsWay.                                                           *)
LastSize(t) == IF t.resize # <<>> THEN {t.resize[Len(t.resize)]} ELSE t.remote

SizesSent(tsk, ss) ==
  \A i \in DOMAIN ss :
    tsk[ss[i].id].pc # "over" => {ss[i].pty_size} = LastSize(tsk[ss[i].id])

Listed(tsk, ss, act, n) ==
  /\ SomeActive(ss, act) /\ OpeningOrder(tsk, ss, n)
  /\ Counted(tsk, ss) /\ SizesSent(tsk, ss)

Scalars ==
  /\ tabs_dirty \in BOOLEAN /\ size \in Sizes
  /\ opened \in 0..MaxSessions /\ events \in 0..MaxEvents
  /\ owed \in [Ids -> 0..MaxEvents]
  /\ \A id \in Ids : owed[id] <= events /\ (id > opened => owed[id] = 0)

(* The window shows what pump and the callbacks would show now.            *)
Shown == ui = Chrome(sessions, active)

Inv ==
  /\ Listed(tasks, sessions, active, opened)
  /\ Scalars /\ Shown /\ KeysGoWhereShown

-----------------------------------------------------------------------------
(* What pump does to one session.                                          *)

LEMMA SessionFields ==
  ASSUME NEW s \in ActiveSession
  PROVE  /\ s.id \in Ids /\ s.fed \in 0..MaxEvents /\ s.cleared \in 0..MaxEvents
         /\ s.pty_size \in Sizes /\ s.connected \in BOOLEAN /\ s.dirty \in BOOLEAN
         /\ s = [id |-> s.id, fed |-> s.fed, cleared |-> s.cleared,
                 pty_size |-> s.pty_size, connected |-> s.connected,
                 dirty |-> s.dirty]
  BY DEF ActiveSession

LEMMA DrainedFields ==
  ASSUME Scalars, NEW s \in ActiveSession, tasks \in [Ids -> Task],
         s.fed + tasks[s.id].output <= events
  PROVE  /\ Drained(s) \in ActiveSession
         /\ Drained(s).id = s.id /\ Drained(s).cleared = s.cleared
         /\ Drained(s).fed = s.fed + tasks[s.id].output
         /\ Drained(s).pty_size = s.pty_size
         /\ Drained(s).connected <=> s.connected \/ "Connected" \in tasks[s.id].status
         /\ Drained(s).dirty <=> s.dirty \/ tasks[s.id].output > 0
  <1> DEFINE t == tasks[s.id]
  <1>1. t.output \in 0..MaxEvents /\ s.id \in Ids
    BY SessionFields DEF Task
  <1>2. s.fed + t.output \in 0..MaxEvents
    BY <1>1, SessionFields, SessionBounds DEF Scalars
  <1>3. ASSUME NEW c \in {TRUE, FALSE}, NEW d \in {TRUE, FALSE}, NEW n \in 0..MaxEvents
        PROVE  [s EXCEPT !.fed = n, !.connected = c, !.dirty = d] \in ActiveSession
    <2>1. ASSUME NEW u \in ActiveSession
          PROVE  /\ [u EXCEPT !.dirty = TRUE] \in ActiveSession
                 /\ [u EXCEPT !.dirty = FALSE] \in ActiveSession
                 /\ [u EXCEPT !.connected = TRUE] \in ActiveSession
                 /\ [u EXCEPT !.connected = FALSE] \in ActiveSession
                 /\ [u EXCEPT !.fed = n] \in ActiveSession
      BY DEF ActiveSession
    <2> QED BY <2>1
  <1>4. \E c, d \in {TRUE, FALSE} :
          Drained(s) = [s EXCEPT !.fed = s.fed + t.output, !.connected = c, !.dirty = d]
    BY SessionFields DEF Drained, ActiveSession
  <1>5. Drained(s) \in ActiveSession
    <2>1. PICK c \in {TRUE, FALSE}, d \in {TRUE, FALSE} :
            Drained(s) = [s EXCEPT !.fed = s.fed + t.output, !.connected = c, !.dirty = d]
      BY <1>4
    <2>2. [s EXCEPT !.fed = s.fed + t.output, !.connected = c, !.dirty = d]
            \in ActiveSession
      BY <1>2, <1>3, Zenon
    <2> QED BY <2>1, <2>2, Zenon
  <1>6. /\ Drained(s).id = s.id /\ Drained(s).cleared = s.cleared
        /\ Drained(s).fed = s.fed + tasks[s.id].output
        /\ Drained(s).pty_size = s.pty_size
        /\ Drained(s).connected <=> s.connected \/ "Connected" \in tasks[s.id].status
        /\ Drained(s).dirty <=> s.dirty \/ tasks[s.id].output > 0
    BY DEF Drained, ActiveSession
  <1> QED BY <1>5, <1>6

LEMMA ResizedFields ==
  ASSUME size \in Sizes, NEW s \in ActiveSession
  PROVE  /\ Resized(s) \in ActiveSession
         /\ Resized(s).id = s.id /\ Resized(s).cleared = s.cleared
         /\ Resized(s).fed = s.fed /\ Resized(s).connected = s.connected
         /\ Resized(s).pty_size = IF Outgrown(s) THEN size ELSE s.pty_size
         /\ Resized(s).dirty <=> s.dirty \/ Outgrown(s)
  <1>1. CASE Outgrown(s)
    <2>1. Resized(s) = [s EXCEPT !.pty_size = size, !.dirty = TRUE]
      BY <1>1 DEF Resized
    <2>2. [s EXCEPT !.pty_size = size, !.dirty = TRUE] \in ActiveSession
      BY DEF ActiveSession
    <2> QED BY <1>1, <2>1, <2>2 DEF ActiveSession
  <1>2. CASE ~Outgrown(s)
    BY <1>2 DEF Resized
  <1> QED BY <1>1, <1>2

LEMMA RedrawnFields ==
  ASSUME NEW s \in ActiveSession, NEW r, r = [s EXCEPT !.dirty = FALSE]
  PROVE  /\ r \in ActiveSession
         /\ r.id = s.id /\ r.cleared = s.cleared /\ r.fed = s.fed
         /\ r.pty_size = s.pty_size /\ r.connected = s.connected
  BY DEF ActiveSession

-----------------------------------------------------------------------------
(* What pump does to a list of sessions.                                   *)

Drainable(ss) ==
  /\ ss \in Seq(ActiveSession) /\ tasks \in [Ids -> Task]
  /\ \A i \in DOMAIN ss : ss[i].fed + tasks[ss[i].id].output <= events

(* The indexes of the sessions that stay, and the list after pump, but for *)
(* the flag dirty.                                                         *)
Stay(ss) == DOMAIN ss \ Gone(ss)

Passed(ss) == [i \in DOMAIN Kept(ss) |-> Resized(Kept(ss)[i])]

LEMMA StayType ==
  ASSUME NEW ss \in Seq(ActiveSession)
  PROVE  /\ Len(ss) \in Nat /\ DOMAIN ss = 1..Len(ss)
         /\ Stay(ss) \in SUBSET (1..Len(ss))
         /\ Cardinality(Stay(ss)) \in Nat
         /\ InOrder(Stay(ss)) \in [1..Cardinality(Stay(ss)) -> Stay(ss)]
  <1>1. Len(ss) \in Nat /\ DOMAIN ss = 1..Len(ss)
    OBVIOUS
  <1>2. Stay(ss) \in SUBSET (1..Len(ss))
    BY <1>1 DEF Stay
  <1> QED BY <1>1, <1>2, InOrderType

(* Without an end, every session is kept in its place.                     *)
LEMMA KeptInOrder ==
  ASSUME NEW ss \in Seq(ActiveSession)
  PROVE  Kept(ss) = [p \in 1..Cardinality(Stay(ss)) |->
                       Drained(ss[InOrder(Stay(ss))[p]])]
  <1> DEFINE C == Cardinality(Stay(ss))
             f == InOrder(Stay(ss))
  <1>1. /\ Len(ss) \in Nat /\ DOMAIN ss = 1..Len(ss)
        /\ Stay(ss) \in SUBSET (1..Len(ss)) /\ f \in [1..C -> Stay(ss)]
    BY StayType
  <1>2. CASE Gone(ss) = {}
    <2>1. Stay(ss) = 1..Len(ss)
      BY <1>1, <1>2 DEF Stay
    <2>2. C = Len(ss) /\ \A i \in 1..Len(ss) : f[i] = i
      BY <1>1, <2>1, InOrderBounds
    <2>3. Kept(ss) = [i \in 1..Len(ss) |-> Drained(ss[i])]
      BY <1>1, <1>2 DEF Kept
    <2> HIDE DEF C, f
    <2>4. Kept(ss) = [p \in 1..C |-> Drained(ss[f[p]])]
      BY <2>2, <2>3
    <2> QED BY <2>4 DEF C, f
  <1>3. CASE Gone(ss) # {}
    <2>1. DOMAIN f = 1..C
      BY <1>1
    <2>2. Kept(ss) = [p \in DOMAIN f |-> Drained(ss[f[p]])]
      BY <1>3 DEF Kept, Stay
    <2> QED BY <2>1, <2>2
  <1> QED BY <1>2, <1>3

LEMMA KeptFields ==
  ASSUME Scalars, NEW ss, Drainable(ss)
  PROVE  /\ Kept(ss) \in Seq(ActiveSession)
         /\ Len(Kept(ss)) = Cardinality(Stay(ss))
         /\ DOMAIN Kept(ss) = 1..Cardinality(Stay(ss))
         /\ \A p \in 1..Cardinality(Stay(ss)) :
              LET i == InOrder(Stay(ss))[p]
              IN  /\ i \in DOMAIN ss /\ i \notin Gone(ss) /\ p <= i
                  /\ Kept(ss)[p] = Drained(ss[i]) /\ Drained(ss[i]) \in ActiveSession
  <1> DEFINE C == Cardinality(Stay(ss))
             f == InOrder(Stay(ss))
  <1>1. ss \in Seq(ActiveSession)
    BY DEF Drainable
  <1>2. /\ Stay(ss) \in SUBSET (1..Len(ss)) /\ Len(ss) \in Nat
        /\ DOMAIN ss = 1..Len(ss) /\ C \in Nat /\ f \in [1..C -> Stay(ss)]
    BY <1>1, StayType
  <1>3. ASSUME NEW p \in 1..C
        PROVE  /\ f[p] \in DOMAIN ss /\ f[p] \notin Gone(ss) /\ p <= f[p]
               /\ Drained(ss[f[p]]) \in ActiveSession
    <2>1. f[p] \in Stay(ss) /\ p <= f[p]
      BY <1>2, InOrderBounds
    <2>2. f[p] \in DOMAIN ss /\ f[p] \notin Gone(ss)
      BY <2>1 DEF Stay
    <2>3. /\ ss[f[p]] \in ActiveSession
          /\ ss[f[p]].fed + tasks[ss[f[p]].id].output <= events
      BY <1>1, <1>2, <2>2 DEF Drainable
    <2>4. tasks \in [Ids -> Task]
      BY DEF Drainable
    <2>5. Drained(ss[f[p]]) \in ActiveSession
      BY <2>3, <2>4, DrainedFields
    <2> QED BY <2>1, <2>2, <2>5
  <1>4. DOMAIN f = 1..C
    BY <1>2
  <1>5. Kept(ss) = [p \in 1..C |-> Drained(ss[f[p]])]
    BY <1>1, KeptInOrder
  <1> HIDE DEF C, f
  <1>6. Kept(ss) \in [1..C -> ActiveSession]
    BY <1>3, <1>5
  <1>7. Kept(ss) \in Seq(ActiveSession) /\ Len(Kept(ss)) = C
    BY <1>2, <1>6
  <1> QED BY <1>3, <1>5, <1>7 DEF C, f

LEMMA PassedFields ==
  ASSUME Scalars, NEW ss, Drainable(ss)
  PROVE  /\ Passed(ss) \in Seq(ActiveSession)
         /\ Len(Passed(ss)) = Cardinality(Stay(ss))
         /\ DOMAIN Passed(ss) = 1..Cardinality(Stay(ss))
         /\ \A p \in 1..Cardinality(Stay(ss)) :
              LET i == InOrder(Stay(ss))[p]
                  t == tasks[ss[i].id]
              IN  /\ i \in DOMAIN ss /\ i \notin Gone(ss) /\ p <= i
                  /\ Passed(ss)[p].id = ss[i].id
                  /\ Passed(ss)[p].cleared = ss[i].cleared
                  /\ Passed(ss)[p].fed = ss[i].fed + t.output
                  /\ Passed(ss)[p].connected <=> ss[i].connected \/ "Connected" \in t.status
                  /\ Passed(ss)[p].pty_size =
                       IF Outgrown(Drained(ss[i])) THEN size ELSE ss[i].pty_size
                  /\ Passed(ss)[p].dirty <=>
                       ss[i].dirty \/ t.output > 0 \/ Outgrown(Drained(ss[i]))
                  /\ Passed(ss)[p] = Resized(Drained(ss[i]))
  <1> DEFINE C == Cardinality(Stay(ss))
             f == InOrder(Stay(ss))
  <1>1. /\ Kept(ss) \in Seq(ActiveSession) /\ DOMAIN Kept(ss) = 1..C
        /\ \A p \in 1..C :
             /\ f[p] \in DOMAIN ss /\ f[p] \notin Gone(ss) /\ p <= f[p]
             /\ Kept(ss)[p] = Drained(ss[f[p]]) /\ Drained(ss[f[p]]) \in ActiveSession
    BY KeptFields
  <1>2. C \in Nat
    BY StayType DEF Drainable
  <1> HIDE DEF C, f
  <1>3. Passed(ss) = [p \in 1..C |-> Resized(Drained(ss[f[p]]))]
    BY <1>1 DEF Passed
  <1>4. size \in Sizes
    BY DEF Scalars
  <1>5. \A p \in 1..C : Resized(Drained(ss[f[p]])) \in ActiveSession
    BY <1>1, <1>4, ResizedFields
  <1>6. Passed(ss) \in [1..C -> ActiveSession]
    BY <1>3, <1>5
  <1>7. Passed(ss) \in Seq(ActiveSession) /\ Len(Passed(ss)) = C
        /\ DOMAIN Passed(ss) = 1..C
    BY <1>2, <1>6
  <1>8. ASSUME NEW p \in 1..C, NEW i, i = f[p]
        PROVE  LET t == tasks[ss[i].id]
               IN  /\ i \in DOMAIN ss /\ i \notin Gone(ss) /\ p <= i
                   /\ Passed(ss)[p].id = ss[i].id
                   /\ Passed(ss)[p].cleared = ss[i].cleared
                   /\ Passed(ss)[p].fed = ss[i].fed + t.output
                   /\ Passed(ss)[p].connected <=> ss[i].connected \/ "Connected" \in t.status
                   /\ Passed(ss)[p].pty_size =
                        IF Outgrown(Drained(ss[i])) THEN size ELSE ss[i].pty_size
                   /\ Passed(ss)[p].dirty <=>
                        ss[i].dirty \/ t.output > 0 \/ Outgrown(Drained(ss[i]))
                   /\ Passed(ss)[p] = Resized(Drained(ss[i]))
    <2>1. /\ i \in DOMAIN ss /\ i \notin Gone(ss) /\ p <= i
          /\ Drained(ss[i]) \in ActiveSession
          /\ Passed(ss)[p] = Resized(Drained(ss[i]))
      BY <1>1, <1>3, <1>8
    <2>2. /\ ss[i] \in ActiveSession /\ tasks \in [Ids -> Task]
          /\ ss[i].fed + tasks[ss[i].id].output <= events
      BY <2>1 DEF Drainable
    <2>3. PICK d : d = Drained(ss[i])
      OBVIOUS
    <2>4. /\ d.id = ss[i].id /\ d.cleared = ss[i].cleared
          /\ d.fed = ss[i].fed + tasks[ss[i].id].output
          /\ d.pty_size = ss[i].pty_size
          /\ d.connected <=> ss[i].connected \/ "Connected" \in tasks[ss[i].id].status
          /\ d.dirty <=> ss[i].dirty \/ tasks[ss[i].id].output > 0
      BY <2>2, <2>3, DrainedFields
    <2>5. PICK r : r = Resized(d)
      OBVIOUS
    <2>6. /\ r.id = d.id /\ r.cleared = d.cleared /\ r.fed = d.fed
          /\ r.connected = d.connected
          /\ r.pty_size = IF Outgrown(d) THEN size ELSE d.pty_size
          /\ r.dirty <=> d.dirty \/ Outgrown(d)
      BY <1>4, <2>1, <2>3, <2>5, ResizedFields
    <2>7. Passed(ss)[p] = r
      BY <2>1, <2>3, <2>5
    <2> QED BY <2>1, <2>3, <2>4, <2>5, <2>6, <2>7
  <1> QED BY <1>7, <1>8 DEF C, f

LEMMA ActiveKeptType ==
  ASSUME NEW ss, NEW act, SomeActive(ss, act)
  PROVE  /\ ActiveKept(ss, act) \in 0..Cardinality(Stay(ss))
         /\ ActiveKept(ss, act) = 0 <=> Cardinality(Stay(ss)) = 0
         /\ Gone(ss) = {} => ActiveKept(ss, act) = act
  <1> DEFINE C == Cardinality(Stay(ss))
             r == Cardinality({i \in Gone(ss) : i < act})
  <1>1. /\ ss \in Seq(ActiveSession) /\ act \in 0..Len(ss) /\ Len(ss) \in Nat
        /\ act = 0 <=> Len(ss) = 0
    <2>1. ss = <<>> <=> Len(ss) = 0
      BY DEF SomeActive
    <2> QED BY <2>1 DEF SomeActive
  <1>2. DOMAIN ss = 1..Len(ss) /\ C \in Nat
    BY <1>1, StayType
  <1>3. CASE Gone(ss) = {}
    <2>1. Stay(ss) = 1..Len(ss)
      BY <1>2, <1>3 DEF Stay
    <2>2. C = Len(ss)
      BY <1>1, <2>1, InOrderBounds
    <2> QED BY <1>1, <1>3, <2>2 DEF ActiveKept
  <1>4. CASE Gone(ss) # {}
    <2>1. r \in Nat
      <3>1. {i \in Gone(ss) : i < act} \in SUBSET (1..Len(ss))
        BY <1>2 DEF Gone
      <3> QED BY <1>1, <3>1, OrderExists
    <2>2. ActiveKept(ss, act) = recompute_active(act, r, C)
      BY <1>4 DEF ActiveKept, Stay
    <2> HIDE DEF C, r
    <2>3. /\ recompute_active(act, r, C) \in 0..C
          /\ recompute_active(act, r, C) = 0 <=> C = 0
      BY <1>1, <1>2, <2>1 DEF recompute_active
    <2> QED BY <1>4, <2>2, <2>3 DEF C
  <1> QED BY <1>3, <1>4

(* pump works on the sessions that stay, with the active one among them.   *)
LEMMA PumpOnce ==
  ASSUME NEW tsk, NEW ss, NEW act, NEW dirty, pump(tsk, ss, act, dirty)
  PROVE  /\ PumpSessions(tsk, ss, Kept(ss), ActiveKept(ss, act))
         /\ ui' = Redrawn(Kept(ss), ActiveKept(ss, act),
                          dirty \/ AnyConnected(ss) \/ Gone(ss) # {})
  <1>1. PICK kept, now : /\ kept = Kept(ss) /\ now = ActiveKept(ss, act)
                         /\ PumpSessions(tsk, ss, kept, now)
                         /\ ui' = Redrawn(kept, now, \/ dirty \/ AnyConnected(ss)
                                                     \/ Gone(ss) # {})
    BY DEF pump
  <1> QED BY <1>1

(* What pump leaves of the list.                                           *)
LEMMA PumpList ==
  ASSUME Scalars, NEW tsk, NEW ss, NEW act, Drainable(ss), SomeActive(ss, act),
         PumpSessions(tsk, ss, Kept(ss), ActiveKept(ss, act))
  PROVE  /\ sessions' \in Seq(ActiveSession) /\ SomeActive(sessions', active')
         /\ active' = ActiveKept(ss, act)
         /\ Len(sessions') = Cardinality(Stay(ss))
         /\ DOMAIN sessions' = 1..Cardinality(Stay(ss))
         /\ DOMAIN Passed(ss) = 1..Cardinality(Stay(ss))
         /\ \A p \in 1..Cardinality(Stay(ss)) :
              /\ sessions'[p].id = Passed(ss)[p].id
              /\ sessions'[p].cleared = Passed(ss)[p].cleared
              /\ sessions'[p].fed = Passed(ss)[p].fed
              /\ sessions'[p].pty_size = Passed(ss)[p].pty_size
              /\ sessions'[p].connected = Passed(ss)[p].connected
  <1> DEFINE C == Cardinality(Stay(ss))
             now == ActiveKept(ss, act)
  <1>1. /\ C \in Nat /\ Passed(ss) \in Seq(ActiveSession)
        /\ Len(Passed(ss)) = C /\ DOMAIN Passed(ss) = 1..C
    BY PassedFields, StayType DEF Drainable
  <1>2. DOMAIN Kept(ss) = 1..C
    BY KeptFields
  <1>3. now \in 0..C /\ (now = 0 <=> C = 0)
    BY ActiveKeptType
  <1>4. /\ active' = now
        /\ sessions' = [p \in 1..C |-> IF p = now THEN [Passed(ss)[p] EXCEPT !.dirty = FALSE]
                                       ELSE Passed(ss)[p]]
    BY <1>2 DEF PumpSessions, Passed
  <1> HIDE DEF C, now
  <1>5. ASSUME NEW p \in 1..C
        PROVE  /\ sessions'[p] \in ActiveSession
               /\ sessions'[p].id = Passed(ss)[p].id
               /\ sessions'[p].cleared = Passed(ss)[p].cleared
               /\ sessions'[p].fed = Passed(ss)[p].fed
               /\ sessions'[p].pty_size = Passed(ss)[p].pty_size
               /\ sessions'[p].connected = Passed(ss)[p].connected
    <2>1. Passed(ss)[p] \in ActiveSession
      BY <1>1
    <2>2. CASE p = now
      BY <1>4, <2>1, <2>2, RedrawnFields
    <2>3. CASE p # now
      BY <1>4, <2>1, <2>3
    <2> QED BY <2>2, <2>3
  <1>6. sessions' \in [1..C -> ActiveSession]
    BY <1>4, <1>5
  <1>7. /\ sessions' \in Seq(ActiveSession) /\ Len(sessions') = C
        /\ DOMAIN sessions' = 1..C
    BY <1>1, <1>6
  <1>8. SomeActive(sessions', active')
    <2>1. sessions' = <<>> <=> C = 0
      BY <1>7
    <2> QED BY <1>3, <1>4, <1>7, <2>1 DEF SomeActive
  <1> QED BY <1>1, <1>4, <1>5, <1>7, <1>8 DEF C, now

(* What pump leaves of the tasks.                                          *)
LEMMA ServedFields ==
  ASSUME size \in Sizes, NEW tsk, NEW ss, NEW kept, tsk \in [Ids -> Task],
         NEW id \in Ids
  PROVE  /\ Served(tsk, ss, kept) \in [Ids -> Task]
         /\ (\A i \in DOMAIN ss : ss[i].id # id) => Served(tsk, ss, kept)[id] = tsk[id]
         /\ Served(tsk, ss, kept)[id].pc = tsk[id].pc
         /\ Served(tsk, ss, kept)[id].input = tsk[id].input
         /\ Served(tsk, ss, kept)[id].remote = tsk[id].remote
         /\ \/ Served(tsk, ss, kept)[id].output = 0
            \/ /\ Served(tsk, ss, kept)[id].output = tsk[id].output
               /\ \A i \in DOMAIN ss : ss[i].id # id
         /\ (\E i \in DOMAIN ss : ss[i].id = id) =>
              /\ Served(tsk, ss, kept)[id].output = 0
              /\ Served(tsk, ss, kept)[id].resize =
                   IF Sized(id, kept) THEN Append(tsk[id].resize, size)
                   ELSE tsk[id].resize
  <1> DEFINE New(j) == IF \A i \in DOMAIN ss : ss[i].id # j THEN tsk[j]
                       ELSE [tsk[j] EXCEPT !.status = {}, !.output = 0,
                               !.resize = IF Sized(j, kept) THEN Append(@, size) ELSE @]
  <1>1. Served(tsk, ss, kept) = [j \in Ids |-> New(j)]
    BY DEF Served
  <1>2. ASSUME NEW j \in Ids
        PROVE  New(j) \in Task
    <2>1. PICK t \in Task : t = tsk[j]
      OBVIOUS
    <2>2. PICK z : z = IF Sized(j, kept) THEN Append(t.resize, size) ELSE t.resize
      OBVIOUS
    <2>3. z \in Seq(Sizes)
      BY <2>2 DEF Task
    <2>4. 0 \in 0..MaxEvents
      BY SessionBounds
    <2>5. [t EXCEPT !.status = {}, !.output = 0, !.resize = z] \in Task
      BY <2>3, <2>4 DEF Task
    <2>6. New(j) = t \/ New(j) = [t EXCEPT !.status = {}, !.output = 0, !.resize = z]
      BY <2>1, <2>2 DEF Task
    <2> QED BY <2>5, <2>6
  <1>3. Served(tsk, ss, kept) \in [Ids -> Task]
    <2> HIDE DEF New
    <2> QED BY <1>1, <1>2
  <1>4. PICK t \in Task : t = tsk[id]
    OBVIOUS
  <1>5. Served(tsk, ss, kept)[id] =
          IF \A i \in DOMAIN ss : ss[i].id # id THEN t
          ELSE [t EXCEPT !.status = {}, !.output = 0,
                         !.resize = IF Sized(id, kept) THEN Append(@, size) ELSE @]
    BY <1>1, <1>4
  <1> HIDE DEF New
  <1> QED BY <1>3, <1>4, <1>5 DEF Task

LEMMA PumpListed ==
  ASSUME Scalars, NEW tsk, NEW ss, NEW act, NEW n \in 0..MaxSessions,
         Listed(tsk, ss, act, n), Drainable(ss),
         PumpSessions(tsk, ss, Kept(ss), ActiveKept(ss, act))
  PROVE  /\ Listed(tasks', sessions', active', n)
         /\ \A id \in Ids : tasks'[id].pc = tsk[id].pc /\ tasks'[id].input = tsk[id].input
  <1> DEFINE C == Cardinality(Stay(ss))
             f == InOrder(Stay(ss))
  <1>1. /\ sessions' \in Seq(ActiveSession) /\ SomeActive(sessions', active')
        /\ DOMAIN sessions' = 1..C
        /\ \A p \in 1..C :
              /\ sessions'[p].id = Passed(ss)[p].id
              /\ sessions'[p].cleared = Passed(ss)[p].cleared
              /\ sessions'[p].fed = Passed(ss)[p].fed
              /\ sessions'[p].pty_size = Passed(ss)[p].pty_size
    BY PumpList DEF Listed
  <1>2. /\ ss \in Seq(ActiveSession) /\ DOMAIN ss = 1..Len(ss) /\ Len(ss) \in Nat
        /\ C \in Nat
        /\ \A i, j \in 1..C : i < j => f[i] < f[j]
    BY StayType, InOrderType DEF Drainable
  <1>3. \A p \in 1..C :
          /\ f[p] \in DOMAIN ss /\ p <= f[p]
          /\ Passed(ss)[p].id = ss[f[p]].id
          /\ Passed(ss)[p].cleared = ss[f[p]].cleared
          /\ Passed(ss)[p].fed = ss[f[p]].fed + tasks[ss[f[p]].id].output
          /\ Passed(ss)[p].pty_size =
               IF Outgrown(Drained(ss[f[p]])) THEN size ELSE ss[f[p]].pty_size
    BY PassedFields
  <1>4. /\ DOMAIN Kept(ss) = 1..C
        /\ \A p \in 1..C : /\ Kept(ss)[p] = Drained(ss[f[p]])
                           /\ Drained(ss[f[p]]) \in ActiveSession
    BY KeptFields
  <1>5. \A p \in 1..C : Drained(ss[f[p]]).id = ss[f[p]].id
    <2>1. \A s \in ActiveSession : Drained(s).id = s.id
      BY DEF Drained, ActiveSession
    <2> QED BY <1>2, <1>3, <2>1
  <1> HIDE DEF C, f
  <1>6. \A p \in 1..C : ss[f[p]].id \in Ids /\ sessions'[p].id = ss[f[p]].id
    BY <1>1, <1>2, <1>3, SessionFields
  <1>7. \A i \in DOMAIN ss : ss[i].id \in Ids
    BY <1>2, SessionFields
  <1>8. tasks' = Served(tsk, ss, Kept(ss)) /\ size \in Sizes /\ tsk \in [Ids -> Task]
    BY DEF PumpSessions, Scalars, Listed, Counted
  <1>9. \A i, j \in DOMAIN ss : ss[i].id = ss[j].id => i = j
    <2> SUFFICES ASSUME NEW i \in DOMAIN ss, NEW j \in DOMAIN ss, ss[i].id = ss[j].id,
                        i # j
                 PROVE  FALSE
      OBVIOUS
    <2>1. i < j \/ j < i
      BY <1>2
    <2>2. ss[i].id < ss[j].id \/ ss[j].id < ss[i].id
      BY <2>1 DEF Listed, OpeningOrder
    <2> QED BY <1>7, <2>2 DEF Ids
  <1>10. OpeningOrder(tasks', sessions', n)
    <2>1. ASSUME NEW p \in 1..C, NEW q \in 1..C, p < q
          PROVE  sessions'[p].id < sessions'[q].id
      <3>1. f[p] < f[q] /\ f[p] \in DOMAIN ss /\ f[q] \in DOMAIN ss
        BY <1>2, <1>3, <2>1
      <3>2. ss[f[p]].id < ss[f[q]].id
        BY <3>1 DEF Listed, OpeningOrder
      <3> QED BY <1>6, <3>2
    <2>2. ASSUME NEW p \in 1..C
          PROVE  p <= sessions'[p].id /\ sessions'[p].id <= n
      <3>1. f[p] <= ss[f[p]].id /\ ss[f[p]].id <= n
        BY <1>3 DEF Listed, OpeningOrder
      <3>2. p \in Int /\ f[p] \in Int /\ ss[f[p]].id \in Int /\ p <= f[p]
        BY <1>2, <1>3, <1>6 DEF Ids
      <3> QED BY <1>6, <3>1, <3>2
    <2>3. ASSUME NEW id \in Ids, id > n PROVE tasks'[id] = NoTask
      <3>1. tsk[id] = NoTask
        BY <2>3 DEF Listed, OpeningOrder
      <3>2. \A i \in DOMAIN ss : ss[i].id # id
        <4> SUFFICES ASSUME NEW i \in DOMAIN ss, ss[i].id = id PROVE FALSE
          OBVIOUS
        <4>1. ss[i].id <= n
          BY DEF Listed, OpeningOrder
        <4> QED BY <2>3, <4>1 DEF Ids
      <3> QED BY <1>8, <3>1, <3>2, ServedFields
    <2> QED BY <1>1, <2>1, <2>2, <2>3 DEF OpeningOrder
  <1>11. Counted(tasks', sessions')
    <2>1. tasks' \in [Ids -> Task]
      <3>1. CASE Ids = {}
        BY <1>8, <3>1 DEF Served
      <3>2. CASE Ids # {}
        BY <1>8, <3>2, ServedFields
      <3> QED BY <3>1, <3>2
    <2>2. ASSUME NEW id \in Ids PROVE tasks'[id].output <= events
      <3>1. 0 <= events
        BY DEF Scalars
      <3>2. tsk[id].output <= events
        BY DEF Listed, Counted
      <3>3. tasks'[id].output = 0 \/ tasks'[id].output = tsk[id].output
        BY <1>8, ServedFields
      <3> QED BY <3>1, <3>2, <3>3
    <2>3. ASSUME NEW p \in 1..C
          PROVE  /\ sessions'[p].cleared <= sessions'[p].fed
                 /\ sessions'[p].fed + tasks'[sessions'[p].id].output <= events
      <3>1. PICK s \in ActiveSession : s = ss[f[p]]
        BY <1>2, <1>3
      <3>2. s.cleared <= s.fed /\ s.fed + tasks[s.id].output <= events
        BY <1>3, <3>1 DEF Listed, Counted, Drainable
      <3>3. s.cleared \in Nat /\ s.fed \in Nat /\ tasks[s.id].output \in Nat
        <4>1. tasks \in [Ids -> Task]
          BY DEF Drainable
        <4> QED BY <4>1, SessionFields, SessionBounds DEF Task
      <3>4. sessions'[p].cleared = s.cleared /\ sessions'[p].id = s.id
            /\ sessions'[p].fed = s.fed + tasks[s.id].output
        BY <1>1, <1>3, <3>1
      <3>5. tasks'[s.id].output = 0
        BY <1>3, <1>6, <1>8, <3>1, ServedFields
      <3>6. events \in Nat
        BY SessionBounds DEF Scalars
      <3> QED BY <3>2, <3>3, <3>4, <3>5, <3>6
    <2> QED BY <1>1, <2>1, <2>2, <2>3 DEF Counted
  <1>12. SizesSent(tasks', sessions')
    <2> SUFFICES ASSUME NEW p \in 1..C, tasks'[sessions'[p].id].pc # "over"
                 PROVE  {sessions'[p].pty_size} = LastSize(tasks'[sessions'[p].id])
      BY <1>1 DEF SizesSent
    <2>1. PICK id \in Ids : id = ss[f[p]].id /\ id = sessions'[p].id
      BY <1>6
    <2>2. PICK t \in Task : t = tsk[id]
      BY <1>8
    <2>3. PICK new : new = tasks'[id]
      OBVIOUS
    <2>4. /\ new.pc = t.pc /\ new.remote = t.remote
          /\ new.resize = IF Sized(id, Kept(ss)) THEN Append(t.resize, size)
                          ELSE t.resize
      <3>1. \E i \in DOMAIN ss : ss[i].id = id
        BY <1>3, <2>1
      <3> QED BY <1>8, <2>2, <2>3, <3>1, ServedFields
    <2>5. Sized(id, Kept(ss)) <=> Outgrown(Drained(ss[f[p]]))
      <3>1. \A q \in 1..C : Kept(ss)[q].id = id => q = p
        <4> SUFFICES ASSUME NEW q \in 1..C, Kept(ss)[q].id = id, q # p PROVE FALSE
          OBVIOUS
        <4>1. ss[f[q]].id = ss[f[p]].id
          BY <1>4, <1>5, <2>1
        <4>2. f[q] = f[p]
          BY <1>3, <1>9, <4>1
        <4>3. f[p] \in Int /\ (p < q \/ q < p)
          BY <1>2, <1>3
        <4> QED BY <1>2, <4>2, <4>3
      <3>2. Kept(ss)[p].id = id /\ Kept(ss)[p] = Drained(ss[f[p]])
        BY <1>4, <1>5, <2>1
      <3> QED BY <1>4, <3>1, <3>2 DEF Sized
    <2>6. {ss[f[p]].pty_size} = LastSize(t)
      <3>1. t.pc # "over"
        BY <2>1, <2>3, <2>4
      <3> QED BY <1>3, <2>1, <2>2, <3>1 DEF Listed, SizesSent
    <2>7. sessions'[p].pty_size =
            IF Outgrown(Drained(ss[f[p]])) THEN size ELSE ss[f[p]].pty_size
      BY <1>1, <1>3
    <2>8. CASE Outgrown(Drained(ss[f[p]]))
      <3>1. t.resize \in Seq(Sizes) /\ size \in Sizes
        BY <1>8 DEF Task
      <3>2. PICK r : r = t.resize
        OBVIOUS
      <3>3. Append(r, size) # <<>> /\ Append(r, size)[Len(Append(r, size))] = size
        BY <3>1, <3>2
      <3>4. new.resize = Append(r, size)
        BY <2>4, <2>5, <2>8, <3>2
      <3>5. LastSize(new) = {size}
        BY <3>3, <3>4 DEF LastSize
      <3> QED BY <2>1, <2>3, <2>7, <2>8, <3>5
    <2>9. CASE ~Outgrown(Drained(ss[f[p]]))
      <3>1. LastSize(new) = LastSize(t)
        BY <2>4, <2>5, <2>9 DEF LastSize
      <3> QED BY <2>1, <2>3, <2>6, <2>7, <2>9, <3>1
    <2> QED BY <2>8, <2>9
  <1>13. \A id \in Ids : tasks'[id].pc = tsk[id].pc /\ tasks'[id].input = tsk[id].input
    BY <1>8, ServedFields
  <1> QED BY <1>1, <1>10, <1>11, <1>12, <1>13 DEF Listed

(* Chrome and Rendered look at nothing of a session but these fields.      *)
LEMMA ChromeSame ==
  ASSUME NEW n \in Nat, NEW s, NEW t, NEW act \in 0..n, DOMAIN s = 1..n, DOMAIN t = 1..n,
         \A p \in 1..n : /\ s[p].id = t[p].id /\ s[p].cleared = t[p].cleared
                         /\ s[p].fed = t[p].fed /\ s[p].pty_size = t[p].pty_size
                         /\ s[p].connected = t[p].connected
  PROVE  /\ Chrome(s, act) = Chrome(t, act)
         /\ \A p \in 1..n : Rendered(s[p]) = Rendered(t[p])
  <1>1. [i \in DOMAIN s |-> [id |-> s[i].id, connected |-> s[i].connected]] =
        [i \in DOMAIN t |-> [id |-> t[i].id, connected |-> t[i].connected]]
    OBVIOUS
  <1>2. \A p \in 1..n : Rendered(s[p]) = Rendered(t[p])
    BY DEF Rendered
  <1>3. act # 0 => act \in 1..n
    OBVIOUS
  <1> QED BY <1>1, <1>2, <1>3 DEF Chrome

LEMMA ChromeFields ==
  ASSUME NEW s, NEW act
  PROVE  /\ Chrome(s, act).tabs =
              [i \in DOMAIN s |-> [id |-> s[i].id, connected |-> s[i].connected]]
         /\ act = 0 => Chrome(s, act) = [Nothing EXCEPT !.tabs =
              [i \in DOMAIN s |-> [id |-> s[i].id, connected |-> s[i].connected]]]
         /\ act # 0 => Chrome(s, act) =
              [text |-> Rendered(s[act]), label |-> s[act].id,
               connected |-> s[act].connected, tabs |-> Chrome(s, act).tabs,
               active_tab |-> act]
  BY DEF Chrome, Nothing

LEMMA PumpShown ==
  ASSUME Scalars, NEW tsk, NEW ss, NEW act, NEW dirty,
         Drainable(ss), SomeActive(ss, act), pump(tsk, ss, act, dirty),
         dirty = TRUE \/ ui = Chrome(ss, act)
  PROVE  ui' = Chrome(sessions', active')
  <1> DEFINE C == Cardinality(Stay(ss))
             f == InOrder(Stay(ss))
             now == ActiveKept(ss, act)
             P == Passed(ss)
  <1>1. PumpSessions(tsk, ss, Kept(ss), ActiveKept(ss, act))
    BY PumpOnce
  <1>2. PICK new, s2, a2 : new = ui' /\ s2 = sessions' /\ a2 = active'
    OBVIOUS
  <1>3. /\ a2 = now /\ now \in 0..C /\ C \in Nat
        /\ DOMAIN s2 = 1..C /\ DOMAIN P = 1..C
        /\ \A p \in 1..C : /\ s2[p].id = P[p].id /\ s2[p].cleared = P[p].cleared
                           /\ s2[p].fed = P[p].fed /\ s2[p].pty_size = P[p].pty_size
                           /\ s2[p].connected = P[p].connected
    BY <1>1, <1>2, PumpList, ActiveKeptType, StayType DEF Drainable
  <1>4. Chrome(s2, now) = Chrome(P, now) /\ \A p \in 1..C : Rendered(s2[p]) = Rendered(P[p])
    BY <1>3, ChromeSame
  <1>5. new = Redrawn(Kept(ss), now, dirty \/ AnyConnected(ss) \/ Gone(ss) # {})
    BY <1>2, PumpOnce
  <1>6. CASE dirty \/ AnyConnected(ss) \/ Gone(ss) # {}
    <2>1. new = Chrome(P, now)
      BY <1>5, <1>6 DEF Redrawn, Passed
    <2> QED BY <1>2, <1>3, <1>4, <2>1
  <1>7. CASE ~(dirty \/ AnyConnected(ss) \/ Gone(ss) # {})
    <2>1. ui = Chrome(ss, act) /\ Gone(ss) = {} /\ ~AnyConnected(ss)
      BY <1>7
    <2>2. new = IF now # 0 /\ P[now].dirty THEN [ui EXCEPT !.text = Rendered(P[now])]
                ELSE ui
      BY <1>5, <1>7 DEF Redrawn, Passed
    <2>3. now = act /\ C = Len(ss) /\ (\A p \in 1..C : f[p] = p) /\ DOMAIN ss = 1..C
      <3>1. ss \in Seq(ActiveSession) /\ Len(ss) \in Nat /\ DOMAIN ss = 1..Len(ss)
        BY DEF Drainable
      <3>2. Stay(ss) = 1..Len(ss)
        BY <2>1, <3>1 DEF Stay
      <3>3. C = Len(ss) /\ \A p \in 1..Len(ss) : f[p] = p
        BY <3>1, <3>2, InOrderBounds
      <3> QED BY <2>1, <3>1, <3>3, ActiveKeptType
    <2>4. \A p \in 1..C :
            /\ ss[p] \in ActiveSession
            /\ P[p].id = ss[p].id /\ P[p].cleared = ss[p].cleared
            /\ P[p].fed = ss[p].fed + tasks[ss[p].id].output
            /\ P[p].connected <=> ss[p].connected
            /\ P[p].pty_size = IF Outgrown(Drained(ss[p])) THEN size ELSE ss[p].pty_size
            /\ P[p].dirty <=> ss[p].dirty \/ tasks[ss[p].id].output > 0
                                \/ Outgrown(Drained(ss[p]))
            /\ P[p] \in ActiveSession /\ tasks[ss[p].id].output \in Nat
      <3> SUFFICES ASSUME NEW p \in 1..C
                   PROVE
            /\ ss[p] \in ActiveSession
            /\ P[p].id = ss[p].id /\ P[p].cleared = ss[p].cleared
            /\ P[p].fed = ss[p].fed + tasks[ss[p].id].output
            /\ P[p].connected <=> ss[p].connected
            /\ P[p].pty_size = IF Outgrown(Drained(ss[p])) THEN size ELSE ss[p].pty_size
            /\ P[p].dirty <=> ss[p].dirty \/ tasks[ss[p].id].output > 0
                                \/ Outgrown(Drained(ss[p]))
            /\ P[p] \in ActiveSession /\ tasks[ss[p].id].output \in Nat
        OBVIOUS
      <3>1. /\ ss \in Seq(ActiveSession) /\ p \in DOMAIN ss /\ ss[p] \in ActiveSession
            /\ P \in Seq(ActiveSession) /\ p \in DOMAIN P /\ P[p] \in ActiveSession
            /\ tasks \in [Ids -> Task]
        BY <1>3, <2>3, PassedFields DEF Drainable
      <3>2. "Connected" \notin tasks[ss[p].id].status
        BY <2>1, <3>1 DEF AnyConnected
      <3>3. tasks[ss[p].id].output \in Nat
        BY <3>1, SessionFields, SessionBounds DEF Task
      <3>4. f[p] = p
        BY <2>3
      <3>5. /\ P[p].id = ss[p].id /\ P[p].cleared = ss[p].cleared
            /\ P[p].fed = ss[p].fed + tasks[ss[p].id].output
            /\ P[p].connected <=> ss[p].connected \/ "Connected" \in tasks[ss[p].id].status
            /\ P[p].pty_size = IF Outgrown(Drained(ss[p])) THEN size ELSE ss[p].pty_size
            /\ P[p].dirty <=> ss[p].dirty \/ tasks[ss[p].id].output > 0
                                \/ Outgrown(Drained(ss[p]))
        BY <3>4, PassedFields
      <3> QED BY <3>1, <3>2, <3>3, <3>5
    <2>5. \A p \in 1..C : P[p].connected = ss[p].connected
      <3> SUFFICES ASSUME NEW p \in 1..C PROVE P[p].connected = ss[p].connected
        OBVIOUS
      <3>1. P[p].connected \in BOOLEAN /\ ss[p].connected \in BOOLEAN
            /\ (P[p].connected <=> ss[p].connected)
        BY <2>4, SessionFields
      <3> QED BY <3>1, Zenon
    <2> HIDE DEF C, f, now, P
    <2>0. [i \in DOMAIN s2 |-> [id |-> s2[i].id, connected |-> s2[i].connected]] =
          [i \in DOMAIN ss |-> [id |-> ss[i].id, connected |-> ss[i].connected]]
      BY <1>3, <2>3, <2>4, <2>5
    <2>6. Chrome(s2, now).tabs = ui.tabs
      <3>1. Chrome(s2, now).tabs =
              [i \in DOMAIN s2 |-> [id |-> s2[i].id, connected |-> s2[i].connected]]
        BY ChromeFields
      <3>2. Chrome(ss, act).tabs =
              [i \in DOMAIN ss |-> [id |-> ss[i].id, connected |-> ss[i].connected]]
        BY ChromeFields
      <3> QED BY <2>0, <2>1, <3>1, <3>2, Zenon
    <2>7. CASE now = 0
      <3>1. new = ui
        BY <2>2, <2>7
      <3>2. ui = Chrome(s2, now)
        <4>1. Chrome(s2, 0) = [Nothing EXCEPT !.tabs =
                [i \in DOMAIN s2 |-> [id |-> s2[i].id, connected |-> s2[i].connected]]]
          BY ChromeFields
        <4>2. Chrome(ss, 0) = [Nothing EXCEPT !.tabs =
                [i \in DOMAIN ss |-> [id |-> ss[i].id, connected |-> ss[i].connected]]]
          BY ChromeFields
        <4> QED BY <2>0, <2>1, <2>3, <2>7, <4>1, <4>2, Zenon
      <3> QED BY <1>2, <1>3, <3>1, <3>2
    <2>8. CASE now # 0
      <3>1. now \in 1..C
        BY <1>3, <2>8
      <3>2. ui = [text |-> Rendered(ss[now]), label |-> ss[now].id,
                  connected |-> ss[now].connected, tabs |-> ui.tabs, active_tab |-> now]
        BY <2>1, <2>3, <2>8, ChromeFields
      <3>3. Chrome(s2, now) =
              [text |-> Rendered(P[now]), label |-> ss[now].id,
               connected |-> ss[now].connected, tabs |-> ui.tabs, active_tab |-> now]
        <4>1. Chrome(s2, now) =
              [text |-> Rendered(s2[now]), label |-> s2[now].id,
               connected |-> s2[now].connected, tabs |-> Chrome(s2, now).tabs,
               active_tab |-> now]
          BY <2>8, ChromeFields
        <4>2. Rendered(s2[now]) = Rendered(P[now]) /\ s2[now].id = ss[now].id
              /\ s2[now].connected = ss[now].connected
          BY <1>3, <1>4, <2>4, <2>5, <3>1
        <4> QED BY <2>6, <4>1, <4>2
      <3>4. CASE P[now].dirty
        <4>1. new = [ui EXCEPT !.text = Rendered(P[now])]
          BY <2>2, <2>8, <3>4
        <4>2. PICK R, text, id, c, tabs :
                /\ ui = [text |-> text, label |-> id, connected |-> c, tabs |-> tabs,
                         active_tab |-> now]
                /\ Chrome(s2, now) = [text |-> R, label |-> id, connected |-> c,
                                      tabs |-> tabs, active_tab |-> now]
                /\ R = Rendered(P[now])
          BY <3>2, <3>3, Zenon
        <4>3. new = Chrome(s2, now)
          BY <4>1, <4>2
        <4> QED BY <1>2, <1>3, <4>3
      <3>5. CASE ~P[now].dirty
        <4>1. /\ P[now].id = ss[now].id /\ P[now].cleared = ss[now].cleared
              /\ P[now].fed = ss[now].fed /\ P[now].pty_size = ss[now].pty_size
          <5>1. ss[now].fed \in Nat
            BY <2>4, <3>1, SessionFields, SessionBounds
          <5> QED BY <2>4, <3>1, <3>5, <5>1
        <4>2. Rendered(P[now]) = Rendered(ss[now])
          BY <4>1 DEF Rendered
        <4> QED BY <1>2, <1>3, <2>2, <3>2, <3>3, <3>5, <4>2
      <3> QED BY <3>4, <3>5
    <2> QED BY <2>7, <2>8
  <1> QED BY <1>6, <1>7

-----------------------------------------------------------------------------
(* The callbacks that end with pump.                                       *)

(* KeysGoWhereShown.                                                       *)
KeysOf(t, n) == t.input <= n /\ (t.pc \in {"connecting", "connected"} => t.input = n)

LEMMA InvUnfolded ==
  ASSUME Inv
  PROVE  /\ sessions \in Seq(ActiveSession) /\ Len(sessions) \in Nat
         /\ DOMAIN sessions = 1..Len(sessions)
         /\ active \in 0..Len(sessions) /\ (active = 0 <=> sessions = <<>>)
         /\ tasks \in [Ids -> Task] /\ opened \in 0..MaxSessions
         /\ events \in 0..MaxEvents /\ events \in Nat /\ size \in Sizes
         /\ owed \in [Ids -> 0..MaxEvents] /\ Scalars
         /\ \A i \in DOMAIN sessions :
              /\ sessions[i] \in ActiveSession /\ sessions[i].id \in Ids
              /\ sessions[i].id <= opened /\ i <= sessions[i].id
              /\ sessions[i].fed + tasks[sessions[i].id].output <= events
              /\ sessions[i].cleared <= sessions[i].fed
              /\ \A j \in DOMAIN sessions : sessions[i].id = sessions[j].id => i = j
         /\ \A id \in Ids :
              /\ tasks[id].output <= events
              /\ tasks[id].input \in Nat /\ tasks[id].output \in Nat
              /\ owed[id] \in Nat /\ owed[id] <= events
              /\ KeysOf(tasks[id], owed[id])
              /\ id > opened => tasks[id] = NoTask /\ owed[id] = 0
         /\ Drainable(sessions)
  <1>1. /\ sessions \in Seq(ActiveSession) /\ active \in 0..Len(sessions)
        /\ active = 0 <=> sessions = <<>>
        /\ tasks \in [Ids -> Task] /\ Scalars
        /\ \A i \in DOMAIN sessions :
              /\ sessions[i].id <= opened /\ i <= sessions[i].id
              /\ sessions[i].fed + tasks[sessions[i].id].output <= events
              /\ sessions[i].cleared <= sessions[i].fed
    BY DEF Inv, Listed, SomeActive, OpeningOrder, Counted
  <1>2. /\ Len(sessions) \in Nat /\ DOMAIN sessions = 1..Len(sessions)
        /\ \A i \in DOMAIN sessions : sessions[i] \in ActiveSession
    BY <1>1
  <1>3. \A i \in DOMAIN sessions : sessions[i].id \in Ids
    BY <1>2, SessionFields
  <1>4. \A i, j \in DOMAIN sessions : sessions[i].id = sessions[j].id => i = j
    <2> SUFFICES ASSUME NEW i \in DOMAIN sessions, NEW j \in DOMAIN sessions,
                        sessions[i].id = sessions[j].id, i # j
                 PROVE  FALSE
      OBVIOUS
    <2>1. i < j \/ j < i
      BY <1>2
    <2>2. sessions[i].id < sessions[j].id \/ sessions[j].id < sessions[i].id
      BY <2>1 DEF Inv, Listed, OpeningOrder
    <2> QED BY <1>3, <2>2 DEF Ids
  <1>5. /\ opened \in 0..MaxSessions /\ events \in 0..MaxEvents /\ events \in Nat
        /\ size \in Sizes /\ owed \in [Ids -> 0..MaxEvents]
    BY <1>1, SessionBounds DEF Scalars
  <1>6. ASSUME NEW id \in Ids
        PROVE /\ tasks[id].output <= events
              /\ tasks[id].input \in Nat /\ tasks[id].output \in Nat
              /\ owed[id] \in Nat /\ owed[id] <= events
              /\ KeysOf(tasks[id], owed[id])
              /\ id > opened => tasks[id] = NoTask /\ owed[id] = 0
    <2>1. tasks[id].input \in Nat /\ tasks[id].output \in Nat
      BY <1>1, SessionBounds DEF Task
    <2>2. owed[id] \in Nat /\ owed[id] <= events
      BY <1>1, <1>5, SessionBounds DEF Scalars
    <2>3. KeysOf(tasks[id], owed[id])
      BY DEF Inv, KeysGoWhereShown, KeysOf, Listens
    <2>4. tasks[id].output <= events
      BY DEF Inv, Listed, Counted
    <2>5. id > opened => tasks[id] = NoTask /\ owed[id] = 0
      BY DEF Inv, Listed, OpeningOrder, Scalars
    <2> QED BY <2>1, <2>2, <2>3, <2>4, <2>5
  <1>7. Drainable(sessions)
    BY <1>1 DEF Drainable
  <1> QED BY <1>1, <1>2, <1>3, <1>4, <1>5, <1>6, <1>7

LEMMA PumpInv ==
  ASSUME Inv, NEW tsk, NEW ss, NEW act, NEW dirty, NEW n \in 0..MaxSessions,
         opened <= n, Listed(tsk, ss, act, n),
         \A i \in DOMAIN ss : tasks[ss[i].id].output = tsk[ss[i].id].output,
         \A id \in Ids : KeysOf(tsk[id], owed[id]),
         dirty = TRUE \/ ui = Chrome(ss, act),
         pump(tsk, ss, act, dirty), opened' = n, UNCHANGED <<size, events, owed>>
  PROVE  Inv'
  <1>1. Scalars /\ tasks \in [Ids -> Task] /\ opened \in 0..MaxSessions
    BY InvUnfolded
  <1>2. Drainable(ss) /\ SomeActive(ss, act)
    <2>1. ss \in Seq(ActiveSession)
      BY DEF Listed, SomeActive
    <2>2. \A i \in DOMAIN ss : ss[i].fed + tasks[ss[i].id].output <= events
      BY DEF Listed, Counted
    <2> QED BY <1>1, <2>1, <2>2 DEF Drainable, Listed
  <1>3. PumpSessions(tsk, ss, Kept(ss), ActiveKept(ss, act))
    BY PumpOnce
  <1>4. /\ Listed(tasks', sessions', active', n)
        /\ \A id \in Ids : tasks'[id].pc = tsk[id].pc /\ tasks'[id].input = tsk[id].input
    BY <1>1, <1>2, <1>3, PumpListed
  <1>5. ui' = Chrome(sessions', active')
    BY <1>1, <1>2, PumpShown
  <1>6. Listed(tasks, sessions, active, opened)'
    BY <1>4 DEF Listed, SomeActive, OpeningOrder, Counted, SizesSent, LastSize
  <1>7. Scalars'
    <2>1. tabs_dirty' = FALSE
      BY <1>3 DEF PumpSessions
    <2>2. \A id \in Ids : id > n => id > opened
      BY <1>1 DEF Ids
    <2> QED BY <1>1, <2>1, <2>2 DEF Scalars
  <1>8. Shown'
    BY <1>5 DEF Shown, Chrome, Rendered, Nothing
  <1>9. KeysGoWhereShown'
    BY <1>4 DEF KeysGoWhereShown, KeysOf, Listens
  <1> QED BY <1>6, <1>7, <1>8, <1>9 DEF Inv

LEMMA TimerInv ==
  ASSUME Inv, Timer
  PROVE  Inv'
  <1>1. Listed(tasks, sessions, active, opened) /\ ui = Chrome(sessions, active)
    BY DEF Inv, Shown
  <1>2. opened \in 0..MaxSessions /\ opened <= opened
        /\ \A id \in Ids : KeysOf(tasks[id], owed[id])
    BY InvUnfolded
  <1>3. pump(tasks, sessions, active, tabs_dirty) /\ opened' = opened
        /\ UNCHANGED <<size, events, owed>>
    BY DEF Timer
  <1> QED BY <1>1, <1>2, <1>3, PumpInv

LEMMA SelectTabInv ==
  ASSUME Inv, NEW i \in Ids, SelectTab(i)
  PROVE  Inv'
  <1>1. /\ sessions \in Seq(ActiveSession) /\ Len(sessions) \in Nat
        /\ opened \in 0..MaxSessions /\ opened <= opened
        /\ \A id \in Ids : KeysOf(tasks[id], owed[id])
    BY InvUnfolded
  <1>2. Listed(tasks, sessions, i, opened)
    <2>1. i \in 1..Len(sessions)
      BY <1>1 DEF SelectTab, Ids
    <2>2. SomeActive(sessions, i)
      BY <1>1, <2>1 DEF SomeActive
    <2> QED BY <2>2 DEF Inv, Listed
  <1>3. pump(tasks, sessions, i, TRUE) /\ opened' = opened
        /\ UNCHANGED <<size, events, owed>>
    BY DEF SelectTab
  <1> QED BY <1>1, <1>2, <1>3, PumpInv

LEMMA NoTaskType ==
  /\ NoTask \in Task
  /\ NoTask.pc = "none" /\ NoTask.status = {} /\ NoTask.output = 0
  /\ NoTask.resize = <<>> /\ NoTask.remote = {} /\ NoTask.input = 0
  <1>1. 0 \in 0..MaxEvents /\ <<>> \in Seq(Sizes) /\ {} \in Option(Sizes)
    BY SessionBounds DEF Option
  <1> QED BY <1>1 DEF NoTask, Task

LEMMA ConnectInv ==
  ASSUME Inv, Connect
  PROVE  Inv'
  <1> DEFINE N == Len(sessions)
  <1>1. PICK id, new, t, ss, tsk :
          /\ id = opened + 1
          /\ new = [id |-> id, fed |-> 0, cleared |-> 0, pty_size |-> size,
                    connected |-> FALSE, dirty |-> FALSE]
          /\ t = [NoTask EXCEPT !.pc = "connecting", !.remote = {size}]
          /\ ss = Append(sessions, new)
          /\ tsk = [tasks EXCEPT ![id] = t]
    OBVIOUS
  <1>2. /\ opened < MaxSessions /\ opened' = id /\ UNCHANGED <<size, events, owed>>
        /\ pump(tsk, ss, N + 1, TRUE)
    BY <1>1 DEF Connect
  <1>3. /\ sessions \in Seq(ActiveSession) /\ N \in Nat /\ DOMAIN sessions = 1..N
        /\ tasks \in [Ids -> Task] /\ opened \in 0..MaxSessions /\ size \in Sizes
        /\ events \in Nat
    BY InvUnfolded
  <1>4. id \in Ids /\ id \in 1..MaxSessions /\ id \in 0..MaxSessions /\ opened <= id
    BY <1>1, <1>2, <1>3, SessionBounds DEF Ids
  <1>5. new \in ActiveSession
    BY <1>1, <1>3, <1>4, SessionBounds DEF ActiveSession
  <1>6. /\ t \in Task /\ t.output = 0 /\ t.input = 0 /\ t.pc = "connecting"
        /\ t.resize = <<>> /\ t.remote = {size}
    <2>1. PICK u : u = NoTask
      OBVIOUS
    <2>2. u \in Task /\ u.output = 0 /\ u.input = 0 /\ u.resize = <<>>
      BY <2>1, NoTaskType
    <2>3. t = [u EXCEPT !.pc = "connecting", !.remote = {size}]
      BY <1>1, <2>1
    <2>4. {size} \in Option(Sizes)
      BY <1>3 DEF Option
    <2> QED BY <2>2, <2>3, <2>4 DEF Task
  <1>7. /\ ss \in Seq(ActiveSession) /\ Len(ss) = N + 1 /\ DOMAIN ss = 1..(N + 1)
        /\ ss[N + 1] = new /\ \A i \in 1..N : ss[i] = sessions[i]
    BY <1>1, <1>3, <1>5
  <1>8. /\ tsk \in [Ids -> Task] /\ tsk[id] = t
        /\ \A j \in Ids : j # id => tsk[j] = tasks[j]
    BY <1>1, <1>3, <1>4, <1>6
  <1>9. /\ tasks[id] = NoTask /\ owed[id] = 0
        /\ \A i \in 1..N :
             /\ sessions[i].id \in Ids /\ sessions[i].id < id /\ i <= sessions[i].id
             /\ sessions[i].fed + tasks[sessions[i].id].output <= events
             /\ sessions[i].cleared <= sessions[i].fed
    <2>1. id > opened
      BY <1>1, <1>3
    <2>2. \A i \in 1..N : sessions[i].id \in Ids /\ sessions[i].id <= opened
      BY InvUnfolded
    <2>3. \A i \in 1..N : sessions[i].id < id
      <3> SUFFICES ASSUME NEW i \in 1..N PROVE sessions[i].id < id
        OBVIOUS
      <3>1. sessions[i].id \in Int /\ sessions[i].id <= opened
        BY <2>2 DEF Ids
      <3> QED BY <1>1, <1>3, <3>1
    <2>4. tasks[id] = NoTask /\ owed[id] = 0
      BY <1>4, <2>1, InvUnfolded
    <2>5. \A i \in 1..N :
             /\ i <= sessions[i].id
             /\ sessions[i].fed + tasks[sessions[i].id].output <= events
             /\ sessions[i].cleared <= sessions[i].fed
      BY <1>3, InvUnfolded
    <2> QED BY <2>2, <2>3, <2>4, <2>5
  <1>10. N + 1 <= id
    <2>1. CASE N = 0
      BY <1>1, <1>3, <2>1
    <2>2. CASE N # 0
      <3>1. N \in 1..N
        BY <1>3, <2>2
      <3>2. N <= sessions[N].id /\ sessions[N].id < id /\ sessions[N].id \in Ids
        BY <1>9, <3>1
      <3> QED BY <1>3, <1>4, <3>2 DEF Ids
    <2> QED BY <2>1, <2>2
  <1>11. Listed(tsk, ss, N + 1, id)
    <2>1. SomeActive(ss, N + 1)
      BY <1>3, <1>7 DEF SomeActive
    <2>2. OpeningOrder(tsk, ss, id)
      <3>1. \A i, j \in 1..(N + 1) : i < j => ss[i].id < ss[j].id
        <4> SUFFICES ASSUME NEW i \in 1..(N + 1), NEW j \in 1..(N + 1), i < j
                     PROVE  ss[i].id < ss[j].id
          OBVIOUS
        <4>1. i \in 1..N /\ (j \in 1..N \/ j = N + 1)
          BY <1>3
        <4>2. CASE j \in 1..N
          BY <1>3, <1>7, <4>1, <4>2 DEF Inv, Listed, OpeningOrder
        <4>3. CASE j = N + 1
          BY <1>1, <1>7, <1>9, <4>1, <4>3
        <4> QED BY <4>1, <4>2, <4>3
      <3>2. \A i \in 1..(N + 1) : i <= ss[i].id /\ ss[i].id <= id
        <4>1. \A i \in 1..N : i <= ss[i].id /\ ss[i].id <= id
          BY <1>4, <1>7, <1>9 DEF Ids
        <4>2. N + 1 <= ss[N + 1].id /\ ss[N + 1].id <= id
          BY <1>1, <1>4, <1>7, <1>10
        <4> QED BY <1>3, <4>1, <4>2
      <3>3. \A j \in Ids : j > id => tsk[j] = NoTask
        <4> SUFFICES ASSUME NEW j \in Ids, j > id PROVE tsk[j] = NoTask
          OBVIOUS
        <4>1. j # id /\ j > opened
          BY <1>1, <1>3 DEF Ids
        <4> QED BY <1>8, <4>1, InvUnfolded
      <3> QED BY <1>7, <3>1, <3>2, <3>3 DEF OpeningOrder
    <2>3. Counted(tsk, ss)
      <3>1. \A j \in Ids : tsk[j].output <= events
        BY <1>3, <1>6, <1>8, InvUnfolded
      <3>2. \A i \in 1..N : /\ ss[i].cleared <= ss[i].fed
                            /\ ss[i].fed + tsk[ss[i].id].output <= events
        <4>1. \A i \in 1..N : ss[i].id \in Ids /\ ss[i].id # id
          BY <1>4, <1>7, <1>9 DEF Ids
        <4> QED BY <1>7, <1>8, <1>9, <4>1
      <3>3. /\ ss[N + 1].cleared <= ss[N + 1].fed
            /\ ss[N + 1].fed + tsk[ss[N + 1].id].output <= events
        BY <1>1, <1>3, <1>6, <1>7, <1>8
      <3>4. \A i \in 1..(N + 1) : i \in 1..N \/ i = N + 1
        BY <1>3
      <3> QED BY <1>7, <1>8, <3>1, <3>2, <3>3, <3>4 DEF Counted
    <2>4. SizesSent(tsk, ss)
      <3>1. ASSUME NEW i \in 1..N, tsk[ss[i].id].pc # "over"
            PROVE  {ss[i].pty_size} = LastSize(tsk[ss[i].id])
        <4>1. ss[i].id \in Ids /\ ss[i].id # id /\ ss[i] = sessions[i]
          BY <1>4, <1>7, <1>9 DEF Ids
        <4> QED BY <1>3, <1>8, <3>1, <4>1 DEF Inv, Listed, SizesSent
      <3>2. {ss[N + 1].pty_size} = LastSize(tsk[ss[N + 1].id])
        BY <1>1, <1>6, <1>7, <1>8 DEF LastSize
      <3>3. \A i \in 1..(N + 1) : i \in 1..N \/ i = N + 1
        BY <1>3
      <3> QED BY <1>7, <3>1, <3>2, <3>3 DEF SizesSent
    <2> QED BY <2>1, <2>2, <2>3, <2>4 DEF Listed
  <1>12. \A i \in DOMAIN ss : tasks[ss[i].id].output = tsk[ss[i].id].output
    <2>1. \A i \in 1..N : ss[i].id \in Ids
      BY <1>7, <1>9
    <2>2. \A j \in Ids : tasks[j].output = tsk[j].output
      BY <1>6, <1>8, <1>9, NoTaskType
    <2>3. ss[N + 1].id \in Ids
      BY <1>1, <1>4, <1>7
    <2>4. \A i \in 1..(N + 1) : i \in 1..N \/ i = N + 1
      BY <1>3
    <2> QED BY <1>7, <2>1, <2>2, <2>3, <2>4
  <1>13. \A j \in Ids : KeysOf(tsk[j], owed[j])
    <2>1. KeysOf(tsk[id], owed[id])
      BY <1>6, <1>8, <1>9 DEF KeysOf
    <2> QED BY <1>8, <2>1, InvUnfolded
  <1> HIDE DEF N
  <1> QED BY <1>2, <1>4, <1>11, <1>12, <1>13, PumpInv

(* What is left of a list when one is taken out.                           *)
LEMMA WithoutFields ==
  ASSUME NEW s \in Seq(ActiveSession), NEW i \in DOMAIN s, NEW rest,
         rest = SubSeq(s, 1, i - 1) \o SubSeq(s, i + 1, Len(s))
  PROVE  /\ rest \in Seq(ActiveSession) /\ Len(rest) = Len(s) - 1
         /\ DOMAIN rest = 1..(Len(s) - 1)
         /\ \A j \in 1..(Len(s) - 1) : rest[j] = IF j < i THEN s[j] ELSE s[j + 1]
  <1>1. PICK l, r : l = SubSeq(s, 1, i - 1) /\ r = SubSeq(s, i + 1, Len(s))
    OBVIOUS
  <1>2. Len(s) \in Nat /\ i \in 1..Len(s)
    OBVIOUS
  <1>3. /\ l \in Seq(ActiveSession) /\ Len(l) = i - 1
        /\ \A j \in 1..(i - 1) : l[j] = s[j]
    BY <1>1, <1>2
  <1>4. /\ r \in Seq(ActiveSession) /\ Len(r) = Len(s) - i
        /\ \A j \in 1..(Len(s) - i) : r[j] = s[i + j]
    <2>1. PICK n, m : n = Len(s) /\ m = i + 1
      OBVIOUS
    <2>2. n \in Int /\ m \in Int /\ m <= n + 1 /\ n - m + 1 = n - i
      BY <1>2, <2>1
    <2>3. \A j \in m..n : s[j] \in ActiveSession
      BY <1>2, <2>1
    <2>4. r = SubSeq(s, m, n)
      BY <1>1, <2>1
    <2>5. /\ r \in Seq(ActiveSession) /\ Len(r) = IF m <= n THEN n - m + 1 ELSE 0
          /\ \A j \in 1..(n - m + 1) : r[j] = s[m + j - 1]
      BY <2>2, <2>3, <2>4, SubSeqProperties
    <2>6. Len(r) = n - i
      BY <1>2, <2>1, <2>2, <2>5
    <2>7. \A j \in 1..(n - i) : r[j] = s[i + j]
      <3> SUFFICES ASSUME NEW j \in 1..(n - i) PROVE r[j] = s[i + j]
        OBVIOUS
      <3>1. m + j - 1 = i + j /\ j \in 1..(n - m + 1)
        BY <1>2, <2>1, <2>2
      <3> QED BY <2>5, <3>1
    <2> QED BY <2>1, <2>5, <2>6, <2>7
  <1>5. rest = l \o r
    BY <1>1
  <1>6. /\ rest \in Seq(ActiveSession) /\ Len(rest) = Len(l) + Len(r)
        /\ \A j \in 1..(Len(l) + Len(r)) :
             rest[j] = IF j <= Len(l) THEN l[j] ELSE r[j - Len(l)]
    <2>1. l \in Seq(ActiveSession) /\ r \in Seq(ActiveSession)
      BY <1>3, <1>4
    <2> QED BY <1>5, <2>1, ConcatProperties, Zenon
  <1>7. /\ Len(rest) = Len(s) - 1
        /\ \A j \in 1..(Len(s) - 1) :
             rest[j] = IF j <= i - 1 THEN l[j] ELSE r[j - (i - 1)]
    <2>1. Len(l) + Len(r) = Len(s) - 1
      BY <1>2, <1>3, <1>4
    <2> QED BY <1>3, <1>6, <2>1
  <1>8. ASSUME NEW j \in 1..(Len(s) - 1)
        PROVE  rest[j] = IF j < i THEN s[j] ELSE s[j + 1]
    <2>1. CASE j < i
      BY <1>2, <1>3, <1>7, <2>1
    <2>2. CASE ~(j < i)
      <3>1. PICK n, k : n = Len(s) /\ k = j - (i - 1)
        OBVIOUS
      <3>2. n \in Nat /\ i \in 1..n /\ j \in 1..(n - 1)
        BY <1>2, <3>1
      <3>3. k \in 1..(n - i) /\ i + k = j + 1 /\ ~(j <= i - 1)
        BY <2>2, <3>1, <3>2
      <3>4. rest[j] = r[k]
        BY <1>7, <3>1, <3>3
      <3>5. r[k] = s[i + k]
        BY <1>4, <3>1, <3>3
      <3> QED BY <2>2, <3>3, <3>4, <3>5
    <2> QED BY <2>1, <2>2
  <1>9. DOMAIN rest = 1..(Len(s) - 1)
    BY <1>6, <1>7
  <1> QED BY <1>6, <1>7, <1>8, <1>9

LEMMA AbortedFields ==
  ASSUME tasks \in [Ids -> Task], NEW D
  PROVE  /\ Aborted(D) \in [Ids -> Task]
         /\ \A id \in Ids :
              /\ id \notin D => Aborted(D)[id] = tasks[id]
              /\ id \in D => /\ Aborted(D)[id].pc = "over"
                             /\ Aborted(D)[id].output = 0
                             /\ Aborted(D)[id].input \in {0, tasks[id].input}
  <1>1. ASSUME NEW id \in Ids
        PROVE  /\ Aborted(D)[id] \in Task
               /\ id \notin D => Aborted(D)[id] = tasks[id]
               /\ id \in D => /\ Aborted(D)[id].pc = "over"
                              /\ Aborted(D)[id].output = 0
                              /\ Aborted(D)[id].input \in {0, tasks[id].input}
    <2>1. PICK t \in Task : t = tasks[id]
      OBVIOUS
    <2>2. CASE id \notin D
      BY <2>1, <2>2 DEF Aborted
    <2>3. CASE id \in D
      <3>1. PICK u, k : u = NoTask /\ k = IF t.pc = "connected" THEN t.input ELSE 0
        OBVIOUS
      <3>2. u \in Task /\ u.output = 0 /\ k \in {0, t.input} /\ k \in 0..MaxEvents
        BY <3>1, NoTaskType, SessionBounds DEF Task
      <3>3. Aborted(D)[id] = [u EXCEPT !.pc = "over", !.input = k]
        BY <2>1, <2>3, <3>1 DEF Aborted
      <3>4. [u EXCEPT !.pc = "over", !.input = k] \in Task
            /\ [u EXCEPT !.pc = "over", !.input = k].pc = "over"
            /\ [u EXCEPT !.pc = "over", !.input = k].output = 0
            /\ [u EXCEPT !.pc = "over", !.input = k].input = k
        BY <3>2 DEF Task
      <3> QED BY <2>1, <2>3, <3>2, <3>3, <3>4
    <2> QED BY <2>2, <2>3
  <1>2. Aborted(D) = [id \in Ids |-> Aborted(D)[id]]
    BY DEF Aborted
  <1>3. Aborted(D) \in [Ids -> Task]
    BY <1>1, <1>2
  <1> QED BY <1>1, <1>3

LEMMA AbortedKeys ==
  ASSUME Inv, NEW D
  PROVE  \A id \in Ids : KeysOf(Aborted(D)[id], owed[id])
  <1> SUFFICES ASSUME NEW id \in Ids PROVE KeysOf(Aborted(D)[id], owed[id])
    OBVIOUS
  <1>1. /\ tasks \in [Ids -> Task] /\ KeysOf(tasks[id], owed[id])
        /\ owed[id] \in Nat /\ tasks[id].input \in Nat
    BY InvUnfolded
  <1> QED BY <1>1, AbortedFields DEF KeysOf

LEMMA CloseTabInv ==
  ASSUME Inv, NEW i \in Ids, CloseTab(i)
  PROVE  Inv'
  <1> DEFINE N == Len(sessions)
  <1>1. PICK rest, before, act, tsk :
          /\ rest = SubSeq(sessions, 1, i - 1) \o SubSeq(sessions, i + 1, N)
          /\ before = IF i < active THEN 1 ELSE 0
          /\ act = IF active = 0 THEN 0
                   ELSE recompute_active(active, before, Len(rest))
          /\ tsk = Aborted({sessions[i].id})
    OBVIOUS
  <1>2. /\ i <= N /\ opened' = opened /\ UNCHANGED <<size, events, owed>>
        /\ pump(tsk, rest, act, TRUE)
    BY <1>1 DEF CloseTab
  <1>3. /\ sessions \in Seq(ActiveSession) /\ N \in Nat /\ DOMAIN sessions = 1..N
        /\ active \in 0..N /\ (active = 0 <=> sessions = <<>>)
        /\ tasks \in [Ids -> Task] /\ opened \in 0..MaxSessions
        /\ opened <= opened /\ events \in Nat
    BY InvUnfolded
  <1>4. i \in 1..N
    BY <1>2, <1>3 DEF Ids
  <1>5. /\ rest \in Seq(ActiveSession) /\ Len(rest) = N - 1 /\ DOMAIN rest = 1..(N - 1)
        /\ \A j \in 1..(N - 1) : rest[j] = IF j < i THEN sessions[j] ELSE sessions[j + 1]
    <2>1. i \in DOMAIN sessions
      BY <1>3, <1>4
    <2> QED BY <1>1, <1>3, <2>1, WithoutFields
  <1>6. \A j \in 1..(N - 1) :
          \E k \in 1..N : rest[j] = sessions[k] /\ k # i /\ j <= k
    <2> SUFFICES ASSUME NEW j \in 1..(N - 1)
                 PROVE  \E k \in 1..N : rest[j] = sessions[k] /\ k # i /\ j <= k
      OBVIOUS
    <2>1. CASE j < i
      <3>1. j \in 1..N /\ j # i /\ j <= j
        BY <1>3, <1>4, <2>1
      <3> QED BY <1>5, <2>1, <3>1
    <2>2. CASE ~(j < i)
      <3>1. j + 1 \in 1..N /\ j + 1 # i /\ j <= j + 1
        BY <1>3, <1>4, <2>2
      <3> QED BY <1>5, <2>2, <3>1
    <2> QED BY <2>1, <2>2
  <1>7. tsk \in [Ids -> Task] /\ sessions[i].id \in Ids /\ sessions[i].id <= opened
    BY <1>1, <1>3, <1>4, AbortedFields, InvUnfolded
  <1>8. \A k \in 1..N : k # i => /\ sessions[k].id \in Ids
                                 /\ tsk[sessions[k].id] = tasks[sessions[k].id]
    <2> SUFFICES ASSUME NEW k \in 1..N, k # i
                 PROVE  /\ sessions[k].id \in Ids
                        /\ tsk[sessions[k].id] = tasks[sessions[k].id]
      OBVIOUS
    <2>1. sessions[k].id \in Ids /\ sessions[k].id # sessions[i].id
      BY <1>3, <1>4, InvUnfolded
    <2> QED BY <1>1, <1>3, <2>1, AbortedFields
  <1>9. Listed(tsk, rest, act, opened)
    <2>1. SomeActive(rest, act)
      <3>1. active # 0
        BY <1>3, <1>4
      <3>2. act \in 0..(N - 1) /\ (act = 0 <=> N - 1 = 0)
        <4>1. act = recompute_active(active, before, N - 1) /\ before \in 0..1
          <5>1. act = recompute_active(active, before, Len(rest))
            BY <1>1, <3>1, Zenon
          <5>2. before = 0 \/ before = 1
            BY <1>1
          <5> QED BY <1>5, <5>1, <5>2
        <4>2. PICK m, a : m = N - 1 /\ a = active
          OBVIOUS
        <4>3. m \in Nat /\ a \in 1..(m + 1) /\ (m = 0 => a = 1)
          BY <1>3, <1>4, <3>1, <4>2
        <4>4. recompute_active(a, before, m) \in 0..m
              /\ (recompute_active(a, before, m) = 0 <=> m = 0)
          BY <4>1, <4>3 DEF recompute_active
        <4> QED BY <4>1, <4>2, <4>4
      <3>3. rest = <<>> <=> N - 1 = 0
        BY <1>5
      <3> QED BY <1>5, <3>2, <3>3 DEF SomeActive
    <2>2. OpeningOrder(tsk, rest, opened)
      <3>1. ASSUME NEW j \in 1..(N - 1), NEW k \in 1..(N - 1), j < k
            PROVE  rest[j].id < rest[k].id
        <4>1. PICK a, b : /\ a = IF j < i THEN j ELSE j + 1
                          /\ b = IF k < i THEN k ELSE k + 1
          OBVIOUS
        <4>2. a \in 1..N /\ b \in 1..N /\ a < b
          BY <1>3, <1>4, <3>1, <4>1
        <4>3. rest[j] = sessions[a] /\ rest[k] = sessions[b]
          BY <1>5, <4>1
        <4> QED BY <1>3, <4>2, <4>3 DEF Inv, Listed, OpeningOrder
      <3>2. ASSUME NEW j \in 1..(N - 1)
            PROVE  j <= rest[j].id /\ rest[j].id <= opened
        <4>1. PICK k \in 1..N : rest[j] = sessions[k] /\ k # i /\ j <= k
          BY <1>6
        <4>2. k <= sessions[k].id /\ sessions[k].id <= opened /\ sessions[k].id \in Ids
          BY <1>3, <4>1, InvUnfolded
        <4>3. sessions[k].id \in Int
          BY <4>2 DEF Ids
        <4> QED BY <1>3, <4>1, <4>2, <4>3
      <3>3. ASSUME NEW id \in Ids, id > opened PROVE tsk[id] = NoTask
        <4>1. id # sessions[i].id
          BY <1>3, <1>7, <3>3 DEF Ids
        <4>2. tsk[id] = tasks[id]
          BY <1>1, <1>3, <4>1, AbortedFields
        <4> QED BY <3>3, <4>2, InvUnfolded
      <3> QED BY <1>5, <3>1, <3>2, <3>3 DEF OpeningOrder
    <2>3. Counted(tsk, rest)
      <3>1. ASSUME NEW id \in Ids PROVE tsk[id].output <= events
        <4>1. tasks[id].output <= events
          BY InvUnfolded
        <4>2. tsk[id] = tasks[id] \/ tsk[id].output = 0
          BY <1>1, <1>3, AbortedFields
        <4> QED BY <1>3, <4>1, <4>2
      <3>2. ASSUME NEW j \in 1..(N - 1)
            PROVE  /\ rest[j].cleared <= rest[j].fed
                   /\ rest[j].fed + tsk[rest[j].id].output <= events
        <4>1. PICK k \in 1..N : rest[j] = sessions[k] /\ k # i /\ j <= k
          BY <1>6
        <4> QED BY <1>3, <1>8, <4>1, InvUnfolded
      <3> QED BY <1>5, <1>7, <3>1, <3>2 DEF Counted
    <2>4. SizesSent(tsk, rest)
      <3> SUFFICES ASSUME NEW j \in 1..(N - 1), tsk[rest[j].id].pc # "over"
                   PROVE  {rest[j].pty_size} = LastSize(tsk[rest[j].id])
        BY <1>5 DEF SizesSent
      <3>1. PICK k \in 1..N : rest[j] = sessions[k] /\ k # i /\ j <= k
        BY <1>6
      <3>2. tsk[rest[j].id] = tasks[sessions[k].id] /\ k \in DOMAIN sessions
        BY <1>3, <1>8, <3>1
      <3> QED BY <3>1, <3>2 DEF Inv, Listed, SizesSent
    <2> QED BY <2>1, <2>2, <2>3, <2>4 DEF Listed
  <1>10. \A j \in DOMAIN rest : tasks[rest[j].id].output = tsk[rest[j].id].output
    <2> SUFFICES ASSUME NEW j \in 1..(N - 1)
                 PROVE  tasks[rest[j].id].output = tsk[rest[j].id].output
      BY <1>5
    <2>1. PICK k \in 1..N : rest[j] = sessions[k] /\ k # i /\ j <= k
      BY <1>6
    <2> QED BY <1>8, <2>1
  <1>11. \A id \in Ids : KeysOf(tsk[id], owed[id])
    BY <1>1, AbortedKeys
  <1> HIDE DEF N
  <1> QED BY <1>2, <1>3, <1>9, <1>10, <1>11, PumpInv

-----------------------------------------------------------------------------
(* The callbacks that change the list or the window without pump.          *)

LEMMA EmptyList ==
  ASSUME NEW tsk, NEW n, tsk \in [Ids -> Task],
         \A id \in Ids : tsk[id].output <= events /\ (id > n => tsk[id] = NoTask)
  PROVE  Listed(tsk, <<>>, 0, n) /\ Chrome(<<>>, 0) = Nothing
  <1>1. <<>> \in Seq(ActiveSession) /\ DOMAIN <<>> = {} /\ 0 \in 0..Len(<<>>)
    OBVIOUS
  <1>2. Listed(tsk, <<>>, 0, n)
    BY <1>1 DEF Listed, SomeActive, OpeningOrder, Counted, SizesSent
  <1>3. PICK e : e = <<>>
    OBVIOUS
  <1>4. [i \in DOMAIN e |-> [id |-> e[i].id, connected |-> e[i].connected]] = <<>>
    BY <1>3
  <1>5. Chrome(e, 0) = [Nothing EXCEPT !.tabs = <<>>]
    <2>1. Chrome(e, 0) = [Nothing EXCEPT !.tabs =
            [i \in DOMAIN e |-> [id |-> e[i].id, connected |-> e[i].connected]]]
      BY DEF Chrome
    <2> QED BY <1>4, <2>1, Zenon
  <1>6. [Nothing EXCEPT !.tabs = <<>>] = Nothing
    BY DEF Nothing
  <1> QED BY <1>2, <1>3, <1>5, <1>6

LEMMA LogoutInv ==
  ASSUME Inv, Logout
  PROVE  Inv'
  <1>1. PICK tsk : tsk = Aborted(OpenIds)
    OBVIOUS
  <1>2. /\ sessions' = <<>> /\ active' = 0 /\ tabs_dirty' = TRUE
        /\ ui' = Nothing /\ tasks' = tsk /\ UNCHANGED <<size, opened, events, owed>>
    BY <1>1 DEF Logout
  <1>3. tasks \in [Ids -> Task] /\ opened \in 0..MaxSessions /\ Scalars /\ events \in Nat
    BY InvUnfolded
  <1>4. tsk \in [Ids -> Task]
    BY <1>1, <1>3, AbortedFields
  <1>5. ASSUME NEW id \in Ids
        PROVE  tsk[id].output <= events /\ (id > opened => tsk[id] = NoTask)
    <2>1. tasks[id].output <= events /\ (id > opened => tasks[id] = NoTask)
      BY InvUnfolded
    <2>2. CASE id \in OpenIds
      <3>1. tsk[id].output = 0
        BY <1>1, <1>3, <2>2, AbortedFields
      <3>2. id <= opened
        BY <2>2, InvUnfolded DEF OpenIds
      <3> QED BY <1>3, <3>1, <3>2 DEF Ids
    <2>3. CASE id \notin OpenIds
      BY <1>1, <1>3, <2>1, <2>3, AbortedFields
    <2> QED BY <2>2, <2>3
  <1>6. Listed(tsk, <<>>, 0, opened) /\ Chrome(<<>>, 0) = Nothing
    BY <1>4, <1>5, EmptyList
  <1>7. Listed(tasks, sessions, active, opened)'
    BY <1>2, <1>6 DEF Listed, SomeActive, OpeningOrder, Counted, SizesSent, LastSize
  <1>8. Scalars'
    BY <1>2, <1>3 DEF Scalars
  <1>9. Shown'
    BY <1>2, <1>6 DEF Shown, Chrome, Rendered, Nothing
  <1>10. KeysGoWhereShown'
    <2>1. \A id \in Ids : KeysOf(tsk[id], owed[id])
      BY <1>1, AbortedKeys
    <2> QED BY <1>2, <2>1 DEF KeysGoWhereShown, KeysOf, Listens
  <1> QED BY <1>7, <1>8, <1>9, <1>10 DEF Inv

LEMMA ClearInv ==
  ASSUME Inv, Clear
  PROVE  Inv'
  <1> DEFINE N == Len(sessions)
  <1>1. /\ sessions \in Seq(ActiveSession) /\ N \in Nat /\ DOMAIN sessions = 1..N
        /\ active \in 0..N /\ (active = 0 <=> sessions = <<>>)
        /\ Scalars /\ ui = Chrome(sessions, active)
    BY InvUnfolded DEF Inv, Shown
  <1>2. /\ ui' = [ui EXCEPT !.text = {}]
        /\ UNCHANGED <<active, tabs_dirty, size, tasks, opened, events, owed>>
    BY DEF Clear
  <1>3. Scalars' /\ KeysGoWhereShown'
    BY <1>1, <1>2 DEF Scalars, Inv, KeysGoWhereShown, Listens
  <1>4. CASE active = 0
    <2>1. UNCHANGED sessions
      BY <1>1, <1>4 DEF Clear
    <2>2. Listed(tasks, sessions, active, opened)'
      BY <1>2, <2>1 DEF Inv, Listed, SomeActive, OpeningOrder, Counted, SizesSent, LastSize
    <2>3. ui' = ui
      <3>1. PICK T, u : u = ui /\ T =
              [i \in DOMAIN sessions |->
                 [id |-> sessions[i].id, connected |-> sessions[i].connected]]
        OBVIOUS
      <3>2. Chrome(sessions, 0) = [Nothing EXCEPT !.tabs = T]
        BY <3>1, ChromeFields
      <3>3. u = [Nothing EXCEPT !.tabs = T]
        BY <1>1, <1>4, <3>1, <3>2
      <3>4. [u EXCEPT !.text = {}] = u
        <4>1. u = [text |-> {}, label |-> 0, connected |-> FALSE, tabs |-> T,
                   active_tab |-> 0]
          BY <3>3 DEF Nothing
        <4>2. PICK e, n, c : e = {} /\ n = 0 /\ c = FALSE
          OBVIOUS
        <4>3. u = [text |-> e, label |-> n, connected |-> c, tabs |-> T, active_tab |-> n]
          BY <4>1, <4>2, Zenon
        <4>4. [u EXCEPT !.text = e] = u
          BY <4>3
        <4> QED BY <4>2, <4>4
      <3> QED BY <1>2, <3>1, <3>4
    <2>4. Shown'
      BY <1>2, <2>1, <2>3 DEF Inv, Shown, Chrome, Rendered, Nothing
    <2> QED BY <1>3, <2>2, <2>4 DEF Inv
  <1>5. CASE active # 0
    <2>1. active \in 1..N
      BY <1>1, <1>5
    <2>2. PICK s \in ActiveSession : s = sessions[active]
      BY <1>1, <2>1
    <2>3. PICK r : r = [s EXCEPT !.cleared = s.fed, !.dirty = TRUE]
      OBVIOUS
    <2>4. /\ r \in ActiveSession /\ r.id = s.id /\ r.fed = s.fed /\ r.cleared = s.fed
          /\ r.pty_size = s.pty_size /\ r.connected = s.connected
      BY <2>3 DEF ActiveSession
    <2>5. sessions' = [sessions EXCEPT ![active] = r]
      BY <1>1, <2>1, <2>2, <2>3 DEF Clear
    <2>6. PICK ss, act : ss = sessions' /\ act = active'
      OBVIOUS
    <2>7. /\ ss \in Seq(ActiveSession) /\ Len(ss) = N /\ DOMAIN ss = 1..N
          /\ ss[active] = r /\ \A i \in 1..N : i # active => ss[i] = sessions[i]
      BY <1>1, <2>1, <2>4, <2>5, <2>6
    <2>8. \A i \in 1..N :
            /\ ss[i].id = sessions[i].id /\ ss[i].fed = sessions[i].fed
            /\ ss[i].pty_size = sessions[i].pty_size
            /\ ss[i].connected = sessions[i].connected
            /\ ss[i].cleared = sessions[i].cleared \/ ss[i].cleared = ss[i].fed
      BY <2>2, <2>4, <2>7
    <2>9. \A i \in 1..N : ss[i].fed \in Nat
      BY <2>7, SessionFields, SessionBounds
    <2>10. Listed(tasks, ss, active, opened)
      <3>1. SomeActive(ss, active)
        BY <1>1, <2>1, <2>7 DEF SomeActive
      <3>2. OpeningOrder(tasks, ss, opened)
        BY <1>1, <2>7, <2>8 DEF Inv, Listed, OpeningOrder
      <3>3. Counted(tasks, ss)
        <4>1. \A i \in 1..N : ss[i].cleared <= ss[i].fed
          BY <1>1, <2>8, <2>9, InvUnfolded
        <4> QED BY <1>1, <2>7, <2>8, <4>1 DEF Inv, Listed, Counted
      <3>4. SizesSent(tasks, ss)
        BY <1>1, <2>7, <2>8 DEF Inv, Listed, SizesSent
      <3> QED BY <3>1, <3>2, <3>3, <3>4 DEF Listed
    <2>11. Listed(tasks, sessions, active, opened)'
      BY <1>2, <2>6, <2>10
        DEF Listed, SomeActive, OpeningOrder, Counted, SizesSent, LastSize
    <2>12. ui' = Chrome(ss, active)
      <3>1. [i \in DOMAIN ss |-> [id |-> ss[i].id, connected |-> ss[i].connected]] =
            [i \in DOMAIN sessions |->
               [id |-> sessions[i].id, connected |-> sessions[i].connected]]
        BY <1>1, <2>7, <2>8
      <3>2. Chrome(ss, active).tabs = Chrome(sessions, active).tabs
        <4>1. Chrome(ss, active).tabs =
                [i \in DOMAIN ss |-> [id |-> ss[i].id, connected |-> ss[i].connected]]
          BY ChromeFields
        <4>2. Chrome(sessions, active).tabs =
                [i \in DOMAIN sessions |->
                   [id |-> sessions[i].id, connected |-> sessions[i].connected]]
          BY ChromeFields
        <4> QED BY <3>1, <4>1, <4>2, Zenon
      <3>3. Rendered(ss[active]) = {}
        BY <2>4, <2>7 DEF Rendered
      <3>4. PICK text, id, c, tabs :
              /\ id = ss[active].id /\ c = ss[active].connected
              /\ tabs = Chrome(ss, active).tabs /\ text = Rendered(sessions[active])
        OBVIOUS
      <3>5. Chrome(ss, active) =
              [text |-> {}, label |-> id, connected |-> c, tabs |-> tabs,
               active_tab |-> active]
        <4>1. Chrome(ss, active) =
                [text |-> Rendered(ss[active]), label |-> ss[active].id,
                 connected |-> ss[active].connected, tabs |-> Chrome(ss, active).tabs,
                 active_tab |-> active]
          BY <1>5, ChromeFields
        <4> QED BY <3>3, <3>4, <4>1, Zenon
      <3>6. ui = [text |-> text, label |-> id, connected |-> c, tabs |-> tabs,
                  active_tab |-> active]
        <4>1. Chrome(sessions, active) =
                [text |-> Rendered(sessions[active]), label |-> sessions[active].id,
                 connected |-> sessions[active].connected,
                 tabs |-> Chrome(sessions, active).tabs, active_tab |-> active]
          BY <1>5, ChromeFields
        <4>2. sessions[active].id = id /\ sessions[active].connected = c
          BY <2>1, <2>8, <3>4
        <4> QED BY <1>1, <3>2, <3>4, <4>1, <4>2, Zenon
      <3>7. PICK u, act2 : u = ui /\ act2 = active
        OBVIOUS
      <3>8. ui' = [u EXCEPT !.text = {}]
        BY <1>2, <3>7
      <3> QED BY <3>5, <3>6, <3>7, <3>8
    <2>13. Shown'
      BY <1>2, <2>6, <2>12 DEF Shown, Chrome, Rendered, Nothing
    <2> QED BY <1>3, <2>11, <2>13 DEF Inv
  <1> QED BY <1>4, <1>5

LEMMA WindowResizedInv ==
  ASSUME Inv, NEW z \in Sizes, WindowResized(z)
  PROVE  Inv'
  <1>1. /\ events < MaxEvents /\ events' = events + 1 /\ size' = z
        /\ UNCHANGED <<sessions, active, tabs_dirty, ui, tasks, opened, owed>>
    BY DEF WindowResized, Event
  <1>2. Scalars /\ events \in Nat /\ tasks \in [Ids -> Task]
    BY InvUnfolded
  <1>3. events' \in 0..MaxEvents /\ events <= events' /\ events' \in Nat
    BY <1>1, <1>2, SessionBounds
  <1>4. Counted(tasks, sessions)'
    <2>1. \A id \in Ids : tasks[id].output \in Nat /\ tasks[id].output <= events
      BY InvUnfolded
    <2>2. \A i \in DOMAIN sessions :
            /\ sessions[i].fed + tasks[sessions[i].id].output <= events
            /\ sessions[i].id \in Ids /\ sessions[i].fed \in Nat
            /\ sessions[i].cleared <= sessions[i].fed
      BY InvUnfolded, SessionFields, SessionBounds
    <2>3. \A id \in Ids : tasks[id].output <= events'
      BY <1>2, <1>3, <2>1
    <2>4. \A i \in DOMAIN sessions :
            sessions[i].fed + tasks[sessions[i].id].output <= events'
      BY <1>2, <1>3, <2>1, <2>2
    <2> QED BY <1>1, <1>2, <2>2, <2>3, <2>4 DEF Counted
  <1>5. Listed(tasks, sessions, active, opened)'
    BY <1>1, <1>4 DEF Inv, Listed, SomeActive, OpeningOrder, SizesSent, LastSize
  <1>6. Scalars'
    <2>1. \A id \in Ids : owed[id] <= events'
      <3>1. \A id \in Ids : owed[id] \in Nat /\ owed[id] <= events
        BY InvUnfolded
      <3> QED BY <1>2, <1>3, <3>1
    <2> QED BY <1>1, <1>2, <1>3, <2>1 DEF Scalars
  <1>7. Shown' /\ KeysGoWhereShown'
    BY <1>1 DEF Inv, Shown, Chrome, Rendered, Nothing, KeysGoWhereShown, Listens
  <1> QED BY <1>5, <1>6, <1>7 DEF Inv

-----------------------------------------------------------------------------
(* Keys and the steps of run_session: the task of one session changes.     *)

LEMMA OneTaskInv ==
  ASSUME Inv, NEW id \in Ids, NEW new \in Task, NEW more \in {0, 1}, NEW own,
         tasks[id] # NoTask,
         tasks' = [tasks EXCEPT ![id] = new], events' = events + more,
         events' \in 0..MaxEvents,
         owed' = [owed EXCEPT ![id] = own], own \in 0..MaxEvents, own <= events',
         UNCHANGED <<sessions, active, tabs_dirty, ui, size, opened>>,
         new.output <= tasks[id].output + more,
         new.pc # "over" => tasks[id].pc # "over" /\ LastSize(new) = LastSize(tasks[id]),
         KeysOf(new, own)
  PROVE  Inv'
  <1>1. /\ tasks \in [Ids -> Task] /\ events \in Nat /\ Scalars
        /\ owed \in [Ids -> 0..MaxEvents] /\ opened \in 0..MaxSessions
    BY InvUnfolded
  <1>2. PICK tsk, n, k : tsk = tasks' /\ n = events' /\ k = owed'
    OBVIOUS
  <1>3. /\ tsk \in [Ids -> Task] /\ tsk[id] = new
        /\ \A j \in Ids : j # id => tsk[j] = tasks[j]
    BY <1>1, <1>2
  <1>4. /\ k \in [Ids -> 0..MaxEvents] /\ k[id] = own
        /\ \A j \in Ids : j # id => k[j] = owed[j]
    BY <1>1, <1>2
  <1>5. n \in Nat /\ n \in 0..MaxEvents /\ n = events + more /\ events <= n
    BY <1>1, <1>2
  <1>6. id <= opened
    <2>1. ~(id > opened)
      BY InvUnfolded
    <2> QED BY <1>1, <2>1 DEF Ids
  <1>7. \A j \in Ids : /\ tsk[j].output \in Nat /\ tasks[j].output \in Nat
                       /\ tasks[j].output <= events
                       /\ tsk[j].output <= tasks[j].output + more
                       /\ tsk[j].output <= n
    <2> SUFFICES ASSUME NEW j \in Ids
                 PROVE  /\ tsk[j].output \in Nat /\ tasks[j].output \in Nat
                        /\ tasks[j].output <= events
                        /\ tsk[j].output <= tasks[j].output + more
                        /\ tsk[j].output <= n
      OBVIOUS
    <2>1. tasks[j].output \in Nat /\ tasks[j].output <= events
      BY InvUnfolded
    <2>2. tsk[j].output \in Nat
      BY <1>3, SessionBounds DEF Task
    <2>3. tsk[j].output <= tasks[j].output + more
      BY <1>3, <2>1
    <2> QED BY <1>1, <1>5, <2>1, <2>2, <2>3
  <1>8. \A i \in DOMAIN sessions :
          /\ sessions[i].id \in Ids /\ sessions[i].fed \in Nat
          /\ sessions[i].cleared <= sessions[i].fed
          /\ sessions[i].fed + tasks[sessions[i].id].output <= events
    BY InvUnfolded, SessionFields, SessionBounds
  <1>9. Listed(tasks, sessions, active, opened)'
    <2>1. Counted(tasks, sessions)'
      <3>1. \A i \in DOMAIN sessions : sessions[i].fed + tsk[sessions[i].id].output <= n
        <4> SUFFICES ASSUME NEW i \in DOMAIN sessions
                     PROVE  sessions[i].fed + tsk[sessions[i].id].output <= n
          OBVIOUS
        <4>1. PICK j \in Ids : j = sessions[i].id
          BY <1>8
        <4> QED BY <1>1, <1>5, <1>7, <1>8, <4>1
      <3> QED BY <1>2, <1>3, <1>7, <1>8, <3>1 DEF Counted
    <2>2. OpeningOrder(tasks, sessions, opened)'
      <3>1. \A j \in Ids : j > opened => tsk[j] = NoTask
        <4> SUFFICES ASSUME NEW j \in Ids, j > opened PROVE tsk[j] = NoTask
          OBVIOUS
        <4>1. j # id
          BY <1>1, <1>6 DEF Ids
        <4> QED BY <1>3, <4>1, InvUnfolded
      <3> QED BY <1>2, <3>1 DEF Inv, Listed, OpeningOrder
    <2>3. SizesSent(tasks, sessions)'
      <3>1. ASSUME NEW i \in DOMAIN sessions, tsk[sessions[i].id].pc # "over"
            PROVE  {sessions[i].pty_size} = LastSize(tsk[sessions[i].id])
        <4>1. PICK j \in Ids : j = sessions[i].id
          BY <1>8
        <4>2. tasks[j].pc # "over" => {sessions[i].pty_size} = LastSize(tasks[j])
          BY <4>1 DEF Inv, Listed, SizesSent
        <4>3. tasks[j].pc # "over" /\ LastSize(tsk[j]) = LastSize(tasks[j])
          BY <1>3, <3>1, <4>1
        <4> QED BY <4>1, <4>2, <4>3
      <3> QED BY <1>2, <3>1 DEF SizesSent, LastSize
    <2>4. SomeActive(sessions, active)'
      BY DEF Inv, Listed, SomeActive
    <2> QED BY <2>1, <2>2, <2>3, <2>4 DEF Listed
  <1>10. Scalars'
    <2>1. \A j \in Ids : k[j] <= n /\ (j > opened => k[j] = 0)
      <3> SUFFICES ASSUME NEW j \in Ids PROVE k[j] <= n /\ (j > opened => k[j] = 0)
        OBVIOUS
      <3>1. owed[j] \in Nat /\ owed[j] <= events /\ (j > opened => owed[j] = 0)
        BY InvUnfolded
      <3>2. CASE j = id
        BY <1>1, <1>2, <1>4, <1>6, <3>2 DEF Ids
      <3>3. CASE j # id
        BY <1>1, <1>4, <1>5, <3>1, <3>3
      <3> QED BY <3>2, <3>3
    <2> QED BY <1>1, <1>2, <1>4, <1>5, <2>1 DEF Scalars
  <1>11. KeysGoWhereShown'
    <2>1. \A j \in Ids : KeysOf(tsk[j], k[j])
      BY <1>3, <1>4, InvUnfolded
    <2> QED BY <1>2, <2>1 DEF KeysGoWhereShown, KeysOf, Listens
  <1>12. Shown'
    BY DEF Inv, Shown, Chrome, Rendered, Nothing
  <1> QED BY <1>9, <1>10, <1>11, <1>12 DEF Inv

(* The key is counted where the pane's name says, and that is where it is  *)
(* sent.                                                                   *)
LEMMA TypeInv ==
  ASSUME Inv, Type
  PROVE  Inv'
  <1>1. /\ active \in DOMAIN sessions /\ Keyed(sessions[active].id)
        /\ owed' = [id \in Ids |-> IF id = ui.label THEN owed[id] + 1 ELSE owed[id]]
        /\ events < MaxEvents /\ events' = events + 1
        /\ UNCHANGED <<sessions, active, tabs_dirty, ui, size, opened>>
    BY DEF Type, Event
  <1>2. /\ DOMAIN sessions = 1..Len(sessions) /\ events \in Nat /\ Len(sessions) \in Nat
        /\ tasks \in [Ids -> Task] /\ owed \in [Ids -> 0..MaxEvents]
    BY InvUnfolded
  <1>3. PICK id : id = sessions[active].id
    OBVIOUS
  <1>4. id \in Ids /\ ui.label = id /\ id <= opened
    <2>1. active # 0
      BY <1>1, <1>2
    <2>2. Chrome(sessions, active) =
            [text |-> Rendered(sessions[active]), label |-> sessions[active].id,
             connected |-> sessions[active].connected,
             tabs |-> Chrome(sessions, active).tabs, active_tab |-> active]
      BY <2>1, ChromeFields
    <2>3. ui.label = sessions[active].id
      BY <2>2 DEF Inv, Shown
    <2>4. sessions[active].id \in Ids /\ sessions[active].id <= opened
      BY <1>1, InvUnfolded
    <2> QED BY <1>3, <2>3, <2>4
  <1>5. PICK t, own : t = tasks[id] /\ own = owed[id] + 1
    OBVIOUS
  <1>6. /\ t \in Task /\ t.input \in Nat /\ t.output \in Nat /\ owed[id] \in Nat
        /\ owed[id] <= events /\ KeysOf(t, owed[id])
    BY <1>2, <1>4, <1>5, InvUnfolded
  <1>7. /\ own \in 0..MaxEvents /\ own <= events + 1 /\ events + 1 \in 0..MaxEvents
        /\ t.input + 1 \in 0..MaxEvents
    <2>1. t.input <= owed[id]
      BY <1>6 DEF KeysOf
    <2>2. PICK o, m : o = owed[id] /\ m = t.input
      OBVIOUS
    <2>3. o \in Nat /\ m \in Nat /\ o <= events /\ m <= o /\ own = o + 1
      BY <1>5, <1>6, <2>1, <2>2
    <2>4. own \in 0..MaxEvents /\ own <= events + 1 /\ m + 1 \in 0..MaxEvents
      BY <1>1, <1>2, <2>3, SessionBounds
    <2>5. events + 1 \in 0..MaxEvents
      BY <1>1, <1>2, SessionBounds
    <2> QED BY <2>2, <2>4, <2>5
  <1>8. owed' = [owed EXCEPT ![id] = own]
    BY <1>1, <1>2, <1>4, <1>5
  <1>9. t # NoTask \/ ~Listens(id)
    BY <1>5, NoTaskType DEF Listens
  <1>10. CASE Listens(id)
    <2>1. PICK new : new = [t EXCEPT !.input = t.input + 1]
      OBVIOUS
    <2>2. tasks' = [tasks EXCEPT ![id] = new]
      <3>1. Keyed(id)
        BY <1>1, <1>3
      <3>2. tasks' = [tasks EXCEPT ![id] = [tasks[id] EXCEPT !.input = tasks[id].input + 1]]
        BY <1>10, <3>1 DEF Keyed
      <3> QED BY <1>5, <2>1, <3>2
    <2>3. /\ new \in Task /\ new.pc = t.pc /\ new.output = t.output
          /\ new.input = t.input + 1 /\ new.resize = t.resize /\ new.remote = t.remote
      BY <1>6, <1>7, <2>1 DEF Task
    <2>4. LastSize(new) = LastSize(t)
      BY <2>3 DEF LastSize
    <2>5. t.pc \in {"connecting", "connected"}
      BY <1>5, <1>10 DEF Listens
    <2>6. KeysOf(new, own)
      BY <1>5, <1>6, <2>3, <2>5 DEF KeysOf
    <2>7. /\ tasks[id] # NoTask /\ new.output <= tasks[id].output + 1
          /\ (new.pc # "over" =>
                tasks[id].pc # "over" /\ LastSize(new) = LastSize(tasks[id]))
          /\ events' \in 0..MaxEvents /\ own <= events' /\ 1 \in {0, 1}
      BY <1>1, <1>5, <1>6, <1>7, <1>9, <1>10, <2>3, <2>4, <2>5
    <2> QED BY <1>1, <1>4, <1>7, <1>8, <2>2, <2>3, <2>6, <2>7, OneTaskInv
  <1>11. CASE ~Listens(id)
    <2>1. tasks' = tasks
      BY <1>1, <1>3, <1>11 DEF Keyed
    <2>2. tasks' = [tasks EXCEPT ![id] = t]
      BY <1>2, <1>4, <1>5, <2>1
    <2>3. t.pc \notin {"connecting", "connected"}
      BY <1>5, <1>11 DEF Listens
    <2>4. KeysOf(t, own)
      BY <1>5, <1>6, <2>3 DEF KeysOf
    <2>5. CASE t # NoTask
      <3>1. /\ tasks[id] # NoTask /\ t.output <= tasks[id].output + 1
            /\ (t.pc # "over" =>
                  tasks[id].pc # "over" /\ LastSize(t) = LastSize(tasks[id]))
            /\ events' \in 0..MaxEvents /\ own <= events' /\ 1 \in {0, 1}
        BY <1>1, <1>5, <1>6, <1>7, <2>5
      <3> QED BY <1>1, <1>4, <1>6, <1>7, <1>8, <2>2, <2>4, <3>1, OneTaskInv
    <2>6. CASE t = NoTask
      <3>1. t.pc # "over" /\ LastSize(t) = {}
        BY <2>6, NoTaskType DEF LastSize
      <3>2. {sessions[active].pty_size} = LastSize(t)
        BY <1>1, <1>3, <1>5, <3>1 DEF Inv, Listed, SizesSent
      <3> QED BY <3>1, <3>2
    <2> QED BY <2>5, <2>6
  <1> QED BY <1>10, <1>11

LEMMA SessionTaskInv ==
  ASSUME Inv, NEW id \in Ids, SessionTask(id)
  PROVE  Inv'
  <1>1. PICK t, own : t = tasks[id] /\ own = owed[id]
    OBVIOUS
  <1>2. /\ tasks \in [Ids -> Task] /\ t \in Task /\ t.input \in Nat /\ t.output \in Nat
        /\ t.output <= events /\ events \in 0..MaxEvents /\ events \in Nat
        /\ owed \in [Ids -> 0..MaxEvents] /\ own \in Nat /\ own \in 0..MaxEvents
        /\ own <= events /\ KeysOf(t, own)
    BY <1>1, InvUnfolded
  <1>3. t.pc # "none" => tasks[id] # NoTask
    BY <1>1, NoTaskType
  <1>4. t.resize \in Seq(Sizes)
    BY <1>2 DEF Task
  <1>5. owed = [owed EXCEPT ![id] = own] /\ events = events + 0
    BY <1>1, <1>2
  <1>6. CASE Connected(id)
    <2>1. PICK s : s = t.status \cup {"Connected"}
      OBVIOUS
    <2>2. PICK new : new = [t EXCEPT !.pc = "connected", !.status = s]
      OBVIOUS
    <2>3. /\ t.pc = "connecting" /\ tasks' = [tasks EXCEPT ![id] = new]
          /\ UNCHANGED <<sessions, active, tabs_dirty, ui, size, opened, events, owed>>
      BY <1>1, <1>6, <2>1, <2>2 DEF Connected, TaskStep
    <2>4. /\ new \in Task /\ new.pc = "connected" /\ new.output = t.output
          /\ new.input = t.input /\ new.resize = t.resize /\ new.remote = t.remote
      BY <1>2, <2>1, <2>2 DEF Task
    <2>5. LastSize(new) = LastSize(t) /\ KeysOf(new, own)
      BY <1>2, <2>3, <2>4 DEF LastSize, KeysOf
    <2>6. /\ tasks[id] # NoTask /\ new.output <= tasks[id].output + 0
          /\ (new.pc # "over" =>
                tasks[id].pc # "over" /\ LastSize(new) = LastSize(tasks[id]))
          /\ events' = events + 0 /\ events' \in 0..MaxEvents /\ own <= events'
          /\ owed' = [owed EXCEPT ![id] = own] /\ 0 \in {0, 1}
      BY <1>1, <1>2, <1>3, <1>5, <2>3, <2>4, <2>5
    <2> QED BY <1>2, <2>3, <2>4, <2>5, <2>6, OneTaskInv
  <1>7. CASE TaskEnds(id)
    <2>1. PICK u, s : u = NoTask /\ s = t.status \cup {"Ended"}
      OBVIOUS
    <2>2. PICK new : new = [u EXCEPT !.pc = "over", !.output = t.output, !.status = s]
      OBVIOUS
    <2>3. /\ t.pc \in {"connecting", "connected"} /\ tasks' = [tasks EXCEPT ![id] = new]
          /\ UNCHANGED <<sessions, active, tabs_dirty, ui, size, opened, events, owed>>
      BY <1>1, <1>7, <2>1, <2>2 DEF TaskEnds, TaskStep
    <2>4. u \in Task /\ u.input = 0 /\ s \in SUBSET {"Connected", "Ended"}
          /\ t.output \in 0..MaxEvents
      BY <1>2, <2>1, NoTaskType DEF Task
    <2>5. new \in Task /\ new.pc = "over" /\ new.output = t.output /\ new.input = 0
      BY <2>2, <2>4 DEF Task
    <2>6. KeysOf(new, own)
      BY <1>2, <2>5 DEF KeysOf
    <2>7. /\ tasks[id] # NoTask /\ new.output <= tasks[id].output + 0
          /\ events' = events + 0 /\ events' \in 0..MaxEvents /\ own <= events'
          /\ owed' = [owed EXCEPT ![id] = own] /\ 0 \in {0, 1}
      BY <1>1, <1>2, <1>3, <1>5, <2>3, <2>5
    <2> QED BY <1>2, <2>3, <2>5, <2>6, <2>7, OneTaskInv
  <1>8. CASE Output(id)
    <2>1. PICK n : n = t.output + 1
      OBVIOUS
    <2>2. PICK new : new = [t EXCEPT !.output = n]
      OBVIOUS
    <2>3. /\ t.pc = "connected" /\ tasks' = [tasks EXCEPT ![id] = new]
          /\ events < MaxEvents /\ events' = events + 1
          /\ UNCHANGED <<sessions, active, tabs_dirty, ui, size, opened, owed>>
      BY <1>1, <1>8, <2>1, <2>2 DEF Output, TaskStep, Event
    <2>4. n \in 0..MaxEvents /\ events' \in 0..MaxEvents
      BY <1>2, <2>1, <2>3, SessionBounds
    <2>5. /\ new \in Task /\ new.pc = t.pc /\ new.output = t.output + 1
          /\ new.input = t.input /\ new.resize = t.resize /\ new.remote = t.remote
      BY <1>2, <2>1, <2>2, <2>4 DEF Task
    <2>6. LastSize(new) = LastSize(t) /\ KeysOf(new, own)
      BY <1>2, <2>3, <2>5 DEF LastSize, KeysOf
    <2>7. /\ tasks[id] # NoTask /\ new.output <= tasks[id].output + 1
          /\ (new.pc # "over" =>
                tasks[id].pc # "over" /\ LastSize(new) = LastSize(tasks[id]))
          /\ own <= events' /\ owed' = [owed EXCEPT ![id] = own] /\ 1 \in {0, 1}
      BY <1>1, <1>2, <1>3, <1>5, <2>3, <2>5, <2>6
    <2> QED BY <1>2, <2>3, <2>4, <2>5, <2>6, <2>7, OneTaskInv
  <1>9. CASE WindowChange(id)
    <2>1. PICK r, q, h : r = t.resize /\ q = Tail(r) /\ h = Head(r)
      OBVIOUS
    <2>2. PICK new : new = [t EXCEPT !.remote = {h}, !.resize = q]
      OBVIOUS
    <2>3. /\ t.pc = "connected" /\ r # <<>> /\ tasks' = [tasks EXCEPT ![id] = new]
          /\ UNCHANGED <<sessions, active, tabs_dirty, ui, size, opened, events, owed>>
      BY <1>1, <1>9, <2>1, <2>2 DEF WindowChange, TaskStep
    <2>4. /\ r \in Seq(Sizes) /\ q \in Seq(Sizes) /\ h \in Sizes
          /\ Len(q) = Len(r) - 1 /\ Len(r) \in Nat \ {0} /\ h = r[1]
          /\ \A i \in 1..(Len(r) - 1) : q[i] = r[i + 1]
      BY <1>4, <2>1, <2>3
    <2>5. {h} \in Option(Sizes)
      BY <2>4 DEF Option
    <2>6. /\ new \in Task /\ new.pc = t.pc /\ new.output = t.output
          /\ new.input = t.input /\ new.resize = q /\ new.remote = {h}
      BY <1>2, <2>2, <2>4, <2>5 DEF Task
    <2>7. LastSize(new) = LastSize(t)
      <3>1. LastSize(t) = {r[Len(r)]}
        BY <2>1, <2>3 DEF LastSize
      <3>2. CASE q = <<>>
        <4>1. Len(q) = 0 /\ Len(r) = 1
          BY <2>4, <3>2
        <4> QED BY <2>4, <2>6, <3>1, <3>2, <4>1 DEF LastSize
      <3>3. CASE q # <<>>
        <4>1. Len(q) \in 1..(Len(r) - 1)
          <5>1. Len(q) # 0 /\ Len(q) \in Nat
            BY <2>4, <3>3
          <5> QED BY <2>4, <5>1
        <4>2. q[Len(q)] = r[Len(q) + 1] /\ Len(q) + 1 = Len(r)
          BY <2>4, <4>1
        <4> QED BY <2>6, <3>1, <3>3, <4>2 DEF LastSize
      <3> QED BY <3>2, <3>3
    <2>8. KeysOf(new, own)
      BY <1>2, <2>6 DEF KeysOf
    <2>9. /\ tasks[id] # NoTask /\ new.output <= tasks[id].output + 0
          /\ (new.pc # "over" =>
                tasks[id].pc # "over" /\ LastSize(new) = LastSize(tasks[id]))
          /\ events' = events + 0 /\ events' \in 0..MaxEvents /\ own <= events'
          /\ owed' = [owed EXCEPT ![id] = own] /\ 0 \in {0, 1}
      BY <1>1, <1>2, <1>3, <1>5, <2>3, <2>6, <2>7
    <2> QED BY <1>2, <2>3, <2>6, <2>8, <2>9, OneTaskInv
  <1>10. CASE WriteKey(id)
    <2>1. PICK n, less : n = t.input - 1 /\ less = own - 1
      OBVIOUS
    <2>2. PICK new : new = [t EXCEPT !.input = n]
      OBVIOUS
    <2>3. /\ t.pc \in {"connected", "over"} /\ t.input > 0
          /\ tasks' = [tasks EXCEPT ![id] = new] /\ owed' = [owed EXCEPT ![id] = less]
          /\ UNCHANGED <<sessions, active, tabs_dirty, ui, size, opened, events>>
      BY <1>1, <1>10, <2>1, <2>2 DEF WriteKey, TaskStep
    <2>4. n \in 0..MaxEvents /\ less \in 0..MaxEvents /\ less <= events
          /\ n + 1 = t.input /\ less + 1 = own
      <3>1. t.input <= own
        BY <1>2 DEF KeysOf
      <3> QED BY <1>2, <2>1, <2>3, <3>1, SessionBounds
    <2>5. /\ new \in Task /\ new.pc = t.pc /\ new.output = t.output
          /\ new.input = n /\ new.resize = t.resize /\ new.remote = t.remote
      BY <1>2, <2>2, <2>4 DEF Task
    <2>6. LastSize(new) = LastSize(t)
      BY <2>5 DEF LastSize
    <2>7. KeysOf(new, less)
      BY <1>2, <2>1, <2>3, <2>4, <2>5 DEF KeysOf
    <2>8. /\ tasks[id] # NoTask /\ new.output <= tasks[id].output + 0
          /\ (new.pc # "over" =>
                tasks[id].pc # "over" /\ LastSize(new) = LastSize(tasks[id]))
          /\ events' = events + 0 /\ events' \in 0..MaxEvents /\ less <= events'
          /\ 0 \in {0, 1}
      BY <1>1, <1>2, <1>3, <1>5, <2>3, <2>4, <2>5, <2>6
    <2> QED BY <1>2, <2>3, <2>4, <2>5, <2>7, <2>8, OneTaskInv
  <1> QED BY <1>6, <1>7, <1>8, <1>9, <1>10 DEF SessionTask

-----------------------------------------------------------------------------
LEMMA InitInv ==
  ASSUME Init
  PROVE  Inv
  <1>1. /\ sessions = <<>> /\ active = 0 /\ tabs_dirty = FALSE /\ ui = Nothing
        /\ size \in Sizes /\ tasks = [id \in Ids |-> NoTask] /\ opened = 0
        /\ events = 0 /\ owed = [id \in Ids |-> 0]
    BY DEF Init
  <1>2. 0 \in 0..MaxEvents /\ 0 \in 0..MaxSessions
    BY SessionBounds
  <1>3. tasks \in [Ids -> Task] /\ \A id \in Ids : tasks[id] = NoTask
    BY <1>1, NoTaskType
  <1>4. \A id \in Ids : tasks[id].output <= events /\ tasks[id].input = 0
    BY <1>1, <1>3, NoTaskType
  <1>5. Listed(tasks, sessions, active, opened) /\ Chrome(sessions, active) = Nothing
    BY <1>1, <1>3, <1>4, EmptyList
  <1>6. Scalars
    <2>1. owed \in [Ids -> 0..MaxEvents] /\ \A id \in Ids : owed[id] = 0
      BY <1>1, <1>2
    <2>2. \A id \in Ids : owed[id] <= events
      BY <1>1, <2>1
    <2>3. tabs_dirty \in BOOLEAN
      BY <1>1
    <2> QED BY <1>1, <1>2, <2>1, <2>2, <2>3 DEF Scalars
  <1>7. KeysGoWhereShown
    BY <1>1, <1>4 DEF KeysGoWhereShown
  <1> QED BY <1>1, <1>5, <1>6, <1>7 DEF Inv, Shown

LEMMA NextInv ==
  ASSUME Inv, [Next]_vars
  PROVE  Inv'
  <1>1. CASE Timer
    BY <1>1, TimerInv
  <1>2. CASE Connect
    BY <1>2, ConnectInv
  <1>3. CASE Logout
    BY <1>3, LogoutInv
  <1>4. CASE Clear
    BY <1>4, ClearInv
  <1>5. CASE \E i \in Ids : SelectTab(i)
    BY <1>5, SelectTabInv
  <1>6. CASE \E i \in Ids : CloseTab(i)
    BY <1>6, CloseTabInv
  <1>7. CASE Type
    BY <1>7, TypeInv
  <1>8. CASE \E z \in Sizes : WindowResized(z)
    BY <1>8, WindowResizedInv
  <1>9. CASE \E id \in Ids : SessionTask(id)
    BY <1>9, SessionTaskInv
  <1>10. CASE UNCHANGED vars
    BY <1>10 DEF vars, Inv, Listed, SomeActive, OpeningOrder, Counted, SizesSent, LastSize,
                 Scalars, Shown, Chrome, Rendered, Nothing, KeysGoWhereShown, Listens
  <1> QED BY <1>1, <1>2, <1>3, <1>4, <1>5, <1>6, <1>7, <1>8, <1>9, <1>10 DEF Next

THEOREM Invariant == Spec => []Inv
  <1>1. Init => Inv
    BY InitInv
  <1>2. Inv /\ [Next]_vars => Inv'
    BY NextInv
  <1> QED BY <1>1, <1>2, PTL DEF Spec

(* Every variable has its type: in particular no buffer is fed more than   *)
(* was sent, and the tab that is drawn as active is a tab.                 *)
THEOREM TypeCorrect == Spec => []TypeOK
  <1>1. ASSUME Inv PROVE TypeOK
    <2>1. /\ sessions \in Seq(ActiveSession) /\ Len(sessions) \in Nat
          /\ DOMAIN sessions = 1..Len(sessions)
          /\ active \in 0..Len(sessions)
          /\ tasks \in [Ids -> Task] /\ opened \in 0..MaxSessions
          /\ events \in 0..MaxEvents /\ size \in Sizes
          /\ owed \in [Ids -> 0..MaxEvents] /\ tabs_dirty \in BOOLEAN
      BY <1>1, InvUnfolded DEF Scalars
    <2>2. [i \in DOMAIN sessions |->
             [id |-> sessions[i].id, connected |-> sessions[i].connected]]
            \in Seq([id: Ids, connected: BOOLEAN])
      <3>1. \A i \in 1..Len(sessions) :
              [id |-> sessions[i].id, connected |-> sessions[i].connected]
                \in [id: Ids, connected: BOOLEAN]
        <4> SUFFICES ASSUME NEW i \in 1..Len(sessions)
                     PROVE  [id |-> sessions[i].id, connected |-> sessions[i].connected]
                              \in [id: Ids, connected: BOOLEAN]
          OBVIOUS
        <4>1. sessions[i] \in ActiveSession
          BY <2>1
        <4>2. sessions[i].id \in Ids /\ sessions[i].connected \in BOOLEAN
          BY <4>1, SessionFields
        <4> QED BY <4>2, Zenon
      <3>2. PICK n, tabs :
              /\ n = Len(sessions)
              /\ tabs = [i \in 1..n |->
                           [id |-> sessions[i].id, connected |-> sessions[i].connected]]
        OBVIOUS
      <3>3. tabs \in [1..n -> [id: Ids, connected: BOOLEAN]]
        BY <3>1, <3>2
      <3>4. tabs \in Seq([id: Ids, connected: BOOLEAN])
        BY <2>1, <3>2, <3>3
      <3> QED BY <2>1, <3>2, <3>4
    <2>3. PICK tabs \in Seq([id: Ids, connected: BOOLEAN]) :
            tabs = [i \in DOMAIN sessions |->
                      [id |-> sessions[i].id, connected |-> sessions[i].connected]]
      BY <2>2
    <2>4. ui \in [text: Option(Text), label: {0} \cup Ids,
                  connected: BOOLEAN, tabs: Seq([id: Ids, connected: BOOLEAN]),
                  active_tab: 0..MaxSessions]
      <3>1. CASE active = 0
        <4>1. ui = [Nothing EXCEPT !.tabs = tabs]
          <5>1. Chrome(sessions, 0) = [Nothing EXCEPT !.tabs =
                  [i \in DOMAIN sessions |->
                     [id |-> sessions[i].id, connected |-> sessions[i].connected]]]
            BY DEF Chrome
          <5> QED BY <1>1, <2>3, <3>1, <5>1 DEF Inv, Shown
        <4>2. {} \in Option(Text) /\ 0 \in 0..MaxSessions
          BY SessionBounds DEF Option
        <4> QED BY <2>3, <4>1, <4>2 DEF Nothing
      <3>2. CASE active # 0
        <4>1. active \in DOMAIN sessions
          BY <2>1, <3>2
        <4>2. PICK s \in ActiveSession : s = sessions[active]
          BY <2>1, <4>1
        <4>3. active \in 0..MaxSessions
          <5>1. /\ active <= sessions[active].id /\ sessions[active].id <= opened
                /\ sessions[active].id \in Ids
            BY <1>1, <4>1, InvUnfolded
          <5> QED BY <2>1, <5>1, SessionBounds DEF Ids
        <4>4. Rendered(s) \in Option(Text)
          <5>1. [id |-> s.id, cleared |-> s.cleared, fed |-> s.fed,
                 size |-> s.pty_size] \in Text
            BY SessionFields DEF Text
          <5> QED BY <5>1 DEF Rendered, Option
        <4>5. ui = [text |-> Rendered(s), label |-> s.id, connected |-> s.connected,
                    tabs |-> tabs, active_tab |-> active]
          <5>1. Chrome(sessions, active) =
                  [text |-> Rendered(sessions[active]), label |-> sessions[active].id,
                   connected |-> sessions[active].connected,
                   tabs |-> Chrome(sessions, active).tabs, active_tab |-> active]
            BY <3>2, ChromeFields
          <5>2. Chrome(sessions, active).tabs =
                  [i \in DOMAIN sessions |->
                     [id |-> sessions[i].id, connected |-> sessions[i].connected]]
            BY ChromeFields
          <5> QED BY <1>1, <2>3, <4>2, <5>1, <5>2, Zenon DEF Inv, Shown
        <4>6. s.id \in {0} \cup Ids /\ s.connected \in BOOLEAN
          BY SessionFields
        <4> QED BY <2>3, <4>3, <4>4, <4>5, <4>6
      <3> QED BY <3>1, <3>2
    <2> QED BY <2>1, <2>4 DEF TypeOK
  <1> QED BY <1>1, Invariant, PTL

(* After every step the pane shows the active session: its text at its     *)
(* size, its name, whether it is connected, or nothing.                    *)
THEOREM ThePaneIsCurrent == Spec => []PaneShowsActive
  <1>1. ASSUME Inv PROVE PaneShowsActive
    <2>1. active \in DOMAIN sessions \/ (active = 0 /\ sessions = <<>>)
      BY <1>1, InvUnfolded
    <2> QED BY <1>1, <2>1 DEF PaneShowsActive, Inv, Shown
  <1> QED BY <1>1, Invariant, PTL

(* The index of a tab is the index of the session under it, always: none   *)
(* that ended or was closed is drawn still.                                *)
THEOREM TheTabsAreCurrent == Spec => []TabsAreSessions
  <1>1. ASSUME Inv PROVE TabsAreSessions
    BY <1>1 DEF TabsAreSessions, Inv, Shown
  <1> QED BY <1>1, Invariant, PTL

(* The size of a session's buffer is the last one on its way to the        *)
(* remote side, however often the window was resized meanwhile.            *)
THEOREM SizesArrive == Spec => []SizeOnItsWay
  <1>1. ASSUME Inv PROVE SizeOnItsWay
    BY <1>1 DEF SizeOnItsWay, Inv, Listed, SizesSent, LastSize
  <1> QED BY <1>1, Invariant, PTL

(* The remote side of a session gets the keys typed under its name, each   *)
(* once, and none of another session.                                      *)
THEOREM KeysArrive == Spec => []KeysGoWhereShown
  <1>1. ASSUME Inv PROVE KeysGoWhereShown
    BY <1>1 DEF Inv
  <1> QED BY <1>1, Invariant, PTL

-----------------------------------------------------------------------------
(* Which session is active after sessions went.                            *)

(* pump counts the sessions it removes before the active one; those that   *)
(* are left before it are the rest, so that what recompute_active returns  *)
(* is the first that stays at or after the active one, if there is one.    *)
LEMMA PumpActive ==
  ASSUME NEW ss, NEW act, SomeActive(ss, act), act # 0
  PROVE  LET C == Cardinality(Stay(ss))
         IN  \E b \in 0..C :
               /\ \A p \in 1..C : InOrder(Stay(ss))[p] < act <=> p <= b
               /\ ActiveKept(ss, act) = IF b < C THEN b + 1 ELSE C
  <1> DEFINE n == Len(ss)
             S == Stay(ss)
             R == {i \in Gone(ss) : i < act}
             L == Below(Stay(ss), act)
  <1>1. /\ ss \in Seq(ActiveSession) /\ n \in Nat /\ DOMAIN ss = 1..n /\ act \in 1..n
        /\ act \in Nat /\ act \in 1..(n + 1)
    BY DEF SomeActive
  <1>2. /\ S \in SUBSET (1..n) /\ Cardinality(S) \in Nat
        /\ Gone(ss) \in SUBSET (1..n) /\ S = (1..n) \ Gone(ss)
    BY <1>1, StayType DEF Stay, Gone
  <1>3. /\ Cardinality(L) \in 0..Cardinality(S)
        /\ \A p \in 1..Cardinality(S) : InOrder(S)[p] < act <=> p <= Cardinality(L)
    BY <1>1, <1>2, InOrderRank
  <1>4. /\ IsFiniteSet(R) /\ IsFiniteSet(L)
        /\ Cardinality(R) \in Nat /\ Cardinality(L) \in Nat
    <2>1. R \in SUBSET (1..n) /\ L \in SUBSET (1..n)
      BY <1>2 DEF Below
    <2> QED BY <1>1, <2>1, OrderExists
  <1>5. Cardinality(L) + Cardinality(R) = act - 1
    <2>1. \A i \in 1..n : i \in Nat
      OBVIOUS
    <2>2. L \cap R = {}
      BY <1>2 DEF Below
    <2>3. L \cup R = 1..(act - 1)
      <3>1. \A i \in L \cup R : i \in 1..(act - 1)
        BY <1>1, <1>2, <2>1 DEF Below
      <3>2. \A i \in 1..(act - 1) : i \in 1..n /\ i < act
        BY <1>1
      <3>3. \A i \in 1..(act - 1) : i \in L \cup R
        BY <1>2, <3>2 DEF Below
      <3> QED BY <3>1, <3>3
    <2> HIDE DEF L, R
    <2>4. Cardinality(L \cup R) = Cardinality(L) + Cardinality(R) - Cardinality(L \cap R)
      BY <1>4, FS_Union
    <2>5. Cardinality(L \cap R) = 0
      BY <2>2, FS_EmptySet
    <2>6. Cardinality(1..(act - 1)) = act - 1
      <3>1. 1 \in Int /\ act - 1 \in Int
        BY <1>1
      <3>2. Cardinality(1..(act - 1)) =
              IF 1 > act - 1 THEN 0 ELSE (act - 1) - 1 + 1
        BY <3>1, FS_Interval
      <3> QED BY <1>1, <3>2
    <2>7. PICK l, r : l = Cardinality(L) /\ r = Cardinality(R)
      OBVIOUS
    <2>8. l \in Nat /\ r \in Nat /\ act - 1 = l + r - 0
      BY <1>4, <2>3, <2>4, <2>5, <2>6, <2>7
    <2> QED BY <2>7, <2>8
  <1>6. PICK b, r, c : b = Cardinality(L) /\ r = Cardinality(R) /\ c = Cardinality(S)
    OBVIOUS
  <1>7. ActiveKept(ss, act) = IF b < c THEN b + 1 ELSE c
    <2>1. CASE Gone(ss) = {}
      <3>1. ActiveKept(ss, act) = act /\ R = {}
        BY <2>1 DEF ActiveKept
      <3>2. r = 0
        BY <1>6, <3>1, FS_EmptySet
      <3>3. S = 1..n
        BY <1>2, <2>1
      <3>4. c = n
        BY <1>1, <1>2, <1>6, <3>3, InOrderBounds
      <3> HIDE DEF L, R, S, n
      <3>5. b + r = act - 1 /\ b \in Nat
        BY <1>4, <1>5, <1>6
      <3> QED BY <1>1, <3>1, <3>2, <3>4, <3>5
    <2>2. CASE Gone(ss) # {}
      <3>1. ActiveKept(ss, act) = recompute_active(act, r, c)
        BY <1>6, <2>2 DEF ActiveKept, Stay
      <3> HIDE DEF L, R, S, n
      <3>2. b + r = act - 1 /\ b \in Nat /\ r \in Nat /\ c \in Nat
        BY <1>2, <1>4, <1>5, <1>6
      <3>3. recompute_active(act, r, c) = IF b < c THEN b + 1 ELSE c
        BY <1>1, <3>2 DEF recompute_active
      <3> QED BY <3>1, <3>3
    <2> QED BY <2>1, <2>2
  <1> HIDE DEF L, R
  <1>8. /\ b \in 0..c
        /\ \A p \in 1..c : InOrder(S)[p] < act <=> p <= b
    BY <1>3, <1>6
  <1> QED BY <1>6, <1>7, <1>8

(* Followed, when the p-th session that stays was the g[p]-th before.      *)
LEMMA FollowedBy ==
  ASSUME Inv, active # 0, NEW c \in Nat, NEW b \in 0..c,
         NEW g \in [1..c -> DOMAIN sessions],
         \A p, q \in 1..c : p < q => g[p] < g[q],
         \A p \in 1..c : g[p] < active <=> p <= b,
         DOMAIN sessions' = 1..c, Len(sessions') = c,
         \A p \in 1..c : sessions'[p].id = sessions[g[p]].id,
         active' = IF b < c THEN b + 1 ELSE c
  PROVE  Followed
  <1>1. /\ Len(sessions) \in Nat /\ DOMAIN sessions = 1..Len(sessions)
        /\ active \in 1..Len(sessions)
        /\ \A i, j \in DOMAIN sessions : sessions[i].id = sessions[j].id => i = j
    BY InvUnfolded
  <1>2. \A p \in 1..c : g[p] \in 1..Len(sessions) /\ g[p] \in Nat
    BY <1>1
  <1>3. \A i \in SurvivorsRight : \E p \in 1..c : i = g[p] /\ b < p
    <2> SUFFICES ASSUME NEW i \in SurvivorsRight
                 PROVE  \E p \in 1..c : i = g[p] /\ b < p
      OBVIOUS
    <2>1. i \in DOMAIN sessions /\ i >= active
          /\ \E j \in DOMAIN sessions' : sessions'[j].id = sessions[i].id
      BY DEF SurvivorsRight
    <2>2. PICK p \in 1..c : sessions'[p].id = sessions[i].id
      BY <2>1
    <2>3. i = g[p]
      BY <1>1, <2>1, <2>2
    <2>4. ~(g[p] < active)
      BY <1>1, <1>2, <2>1, <2>3
    <2> QED BY <2>3, <2>4
  <1>4. CASE b < c
    <2>1. b + 1 \in 1..c /\ active' = b + 1
      BY <1>4
    <2>2. PICK m, i : m = b + 1 /\ i = g[m]
      OBVIOUS
    <2>3. m \in 1..c /\ ~(m <= b) /\ active' = m
      BY <2>1, <2>2
    <2>4. i \in DOMAIN sessions /\ i >= active /\ sessions'[m].id = sessions[i].id
      BY <1>1, <1>2, <2>2, <2>3
    <2>5. i \in SurvivorsRight
      BY <2>3, <2>4 DEF SurvivorsRight
    <2>6. \A j \in SurvivorsRight : i <= j
      <3> SUFFICES ASSUME NEW j \in SurvivorsRight PROVE i <= j
        OBVIOUS
      <3>1. PICK p \in 1..c : j = g[p] /\ b < p
        BY <1>3
      <3>2. m = p \/ m < p
        BY <2>2, <3>1
      <3> QED BY <1>2, <2>2, <2>3, <3>1, <3>2
    <2> QED BY <2>3, <2>4, <2>5, <2>6 DEF Followed
  <1>5. CASE ~(b < c)
    <2>1. b = c /\ active' = Len(sessions')
      BY <1>5
    <2>2. SurvivorsRight = {}
      BY <1>3, <2>1
    <2> QED BY <2>1, <2>2 DEF Followed
  <1> QED BY <1>4, <1>5

LEMMA TimerFollows ==
  ASSUME Inv, Timer
  PROVE  Followed
  <1> DEFINE C == Cardinality(Stay(sessions))
             g == InOrder(Stay(sessions))
  <1>1. /\ PumpSessions(tasks, sessions, Kept(sessions), ActiveKept(sessions, active))
        /\ Scalars /\ Drainable(sessions) /\ SomeActive(sessions, active)
    BY InvUnfolded, PumpOnce DEF Timer, Inv, Listed
  <1>2. /\ active' = ActiveKept(sessions, active)
        /\ Len(sessions') = C /\ DOMAIN sessions' = 1..C
        /\ \A p \in 1..C : sessions'[p].id = Passed(sessions)[p].id
    BY <1>1, PumpList
  <1>3. /\ \A p \in 1..C : Passed(sessions)[p].id = sessions[g[p]].id
        /\ C \in Nat /\ g \in [1..C -> Stay(sessions)]
        /\ \A p, q \in 1..C : p < q => g[p] < g[q]
    BY <1>1, PassedFields, StayType, InOrderType DEF Drainable
  <1>4. g \in [1..C -> DOMAIN sessions]
    <2>1. Stay(sessions) \subseteq DOMAIN sessions
      BY DEF Stay
    <2> QED BY <1>3, <2>1
  <1>5. CASE active = 0
    <2>1. sessions = <<>>
      BY <1>1, <1>5 DEF SomeActive
    <2>2. DOMAIN sessions = {}
      BY <2>1
    <2>3. C = 0
      BY <2>2, FS_EmptySet DEF Stay
    <2>4. SomeActive(sessions', active')
      BY <1>1, PumpList
    <2>5. sessions' = <<>> /\ active' = 0
      <3>1. sessions' \in Seq(ActiveSession) /\ Len(sessions') = 0
        BY <1>2, <2>3, <2>4 DEF SomeActive
      <3>2. sessions' = <<>>
        BY <3>1
      <3> QED BY <2>4, <3>2 DEF SomeActive
    <2> QED BY <2>5 DEF Followed
  <1>6. CASE active # 0
    <2>1. \E b \in 0..C :
            /\ \A p \in 1..C : g[p] < active <=> p <= b
            /\ ActiveKept(sessions, active) = IF b < C THEN b + 1 ELSE C
      BY <1>1, <1>6, PumpActive
    <2> HIDE DEF C, g
    <2>2. PICK b \in 0..C :
            /\ \A p \in 1..C : g[p] < active <=> p <= b
            /\ ActiveKept(sessions, active) = IF b < C THEN b + 1 ELSE C
      BY <2>1
    <2>3. \A p \in 1..C : sessions'[p].id = sessions[g[p]].id
      BY <1>2, <1>3
    <2>4. active' = IF b < C THEN b + 1 ELSE C
      BY <1>2, <2>2
    <2> QED BY <1>2, <1>3, <1>4, <1>6, <2>2, <2>3, <2>4, FollowedBy
  <1> QED BY <1>5, <1>6

(* The session that is closed leaves a gap in the indexes; recompute_active*)
(* closes it, before pump counts what else has gone.                       *)
LEMMA CloseTabFollows ==
  ASSUME Inv, NEW i \in Ids, CloseTab(i)
  PROVE  Followed
  <1>1. PICK rest, before, act, tsk :
          /\ rest = SubSeq(sessions, 1, i - 1) \o SubSeq(sessions, i + 1, Len(sessions))
          /\ before = IF i < active THEN 1 ELSE 0
          /\ act = IF active = 0 THEN 0
                   ELSE recompute_active(active, before, Len(rest))
          /\ tsk = Aborted({sessions[i].id})
    OBVIOUS
  <1>2. i <= Len(sessions) /\ PumpSessions(tsk, rest, Kept(rest), ActiveKept(rest, act))
    BY <1>1, PumpOnce DEF CloseTab
  <1>3. PICK n, a : n = Len(sessions) /\ a = active
    OBVIOUS
  <1>4. /\ sessions \in Seq(ActiveSession) /\ n \in Nat /\ DOMAIN sessions = 1..n
        /\ a \in 0..n /\ (a = 0 <=> n = 0) /\ Scalars /\ Drainable(sessions)
    <2>1. sessions = <<>> <=> Len(sessions) = 0
      BY InvUnfolded
    <2> QED BY <1>3, <2>1, InvUnfolded
  <1>5. i \in 1..n /\ a \in 1..n /\ a # 0
    BY <1>2, <1>3, <1>4 DEF Ids
  <1>6. /\ rest \in Seq(ActiveSession) /\ Len(rest) = n - 1 /\ DOMAIN rest = 1..(n - 1)
        /\ \A j \in 1..(n - 1) : rest[j] = IF j < i THEN sessions[j] ELSE sessions[j + 1]
    <2>1. i \in DOMAIN sessions
      BY <1>4, <1>5
    <2>2. /\ rest \in Seq(ActiveSession) /\ Len(rest) = Len(sessions) - 1
          /\ DOMAIN rest = 1..(Len(sessions) - 1)
          /\ \A j \in 1..(Len(sessions) - 1) :
               rest[j] = IF j < i THEN sessions[j] ELSE sessions[j + 1]
      BY <1>1, <1>4, <2>1, WithoutFields
    <2> QED BY <1>3, <2>2
  <1>7. PICK old : old = [j \in 1..(n - 1) |-> IF j < i THEN j ELSE j + 1]
    OBVIOUS
  <1>8. /\ old \in [1..(n - 1) -> 1..n]
        /\ \A j \in 1..(n - 1) : rest[j] = sessions[old[j]]
        /\ \A j, k \in 1..(n - 1) : j < k => old[j] < old[k]
    BY <1>4, <1>5, <1>6, <1>7
  <1>9. /\ act = recompute_active(a, before, n - 1)
        /\ before = 0 \/ before = 1
        /\ before = 1 <=> i < a
    <2>1. act = recompute_active(active, before, Len(rest))
      BY <1>1, <1>3, <1>5, Zenon
    <2>2. before = IF i < a THEN 1 ELSE 0
      BY <1>1, <1>3
    <2> QED BY <1>3, <1>6, <2>1, <2>2
  <1>10. /\ act \in 0..(n - 1) /\ (act = 0 <=> n - 1 = 0)
         /\ i < a => act = a - 1
         /\ ~(i < a) /\ a <= n - 1 => act = a
         /\ ~(i < a) /\ ~(a <= n - 1) => act = n - 1 /\ a = n
    <2>1. CASE i < a
      BY <1>4, <1>5, <1>9, <2>1 DEF recompute_active
    <2>2. CASE ~(i < a)
      BY <1>4, <1>5, <1>9, <2>2 DEF recompute_active
    <2> QED BY <2>1, <2>2
  <1>11. SomeActive(rest, act)
    <2>1. rest = <<>> <=> n - 1 = 0
      <3>1. rest = <<>> <=> Len(rest) = 0
        BY <1>6, EmptySeq
      <3> QED BY <1>6, <3>1
    <2> QED BY <1>6, <1>10, <2>1 DEF SomeActive
  <1>12. Drainable(rest)
    <2>1. \A j \in 1..(n - 1) : rest[j].fed + tasks[rest[j].id].output <= events
      BY <1>4, <1>8 DEF Drainable
    <2> QED BY <1>4, <1>6, <2>1 DEF Drainable
  <1>13. PICK c, f : c = Cardinality(Stay(rest)) /\ f = InOrder(Stay(rest))
    OBVIOUS
  <1>14. /\ active' = ActiveKept(rest, act)
         /\ Len(sessions') = c /\ DOMAIN sessions' = 1..c
         /\ \A p \in 1..c : sessions'[p].id = Passed(rest)[p].id
    BY <1>2, <1>4, <1>11, <1>12, <1>13, PumpList
  <1>15. \A p \in 1..c : Passed(rest)[p].id = rest[f[p]].id
    BY <1>4, <1>12, <1>13, PassedFields
  <1>16. /\ c \in Nat /\ f \in [1..c -> Stay(rest)]
         /\ \A p, q \in 1..c : p < q => f[p] < f[q]
         /\ Stay(rest) \subseteq 1..(n - 1)
    BY <1>4, <1>5, <1>6, <1>13, StayType, InOrderType
  <1>17. \A p \in 1..c : f[p] \in 1..(n - 1)
    BY <1>16
  <1>18. PICK g : g = [p \in 1..c |-> old[f[p]]]
    OBVIOUS
  <1>19. /\ g \in [1..c -> DOMAIN sessions]
         /\ \A p, q \in 1..c : p < q => g[p] < g[q]
         /\ \A p \in 1..c : sessions'[p].id = sessions[g[p]].id
    BY <1>4, <1>8, <1>14, <1>15, <1>16, <1>17, <1>18
  <1>20. ASSUME act # 0
         PROVE  \E b \in 0..c : /\ \A p \in 1..c : f[p] < act <=> p <= b
                                /\ active' = IF b < c THEN b + 1 ELSE c
    BY <1>11, <1>13, <1>14, <1>20, PumpActive
  <1>21. \E b \in 0..c : /\ \A p \in 1..c : g[p] < a <=> p <= b
                         /\ active' = IF b < c THEN b + 1 ELSE c
    <2>1. CASE act = 0
      <3>1. n - 1 = 0
        BY <1>10, <2>1
      <3>2. c = 0
        <4>1. Stay(rest) = {}
          BY <1>16, <3>1
        <4> QED BY <1>13, <4>1, FS_EmptySet
      <3>3. active' = 0
        <4>1. ActiveKept(rest, act) = 0
          BY <1>11, <1>13, <3>2, ActiveKeptType
        <4> QED BY <1>14, <4>1
      <3>4. 0 \in 0..c /\ (\A p \in 1..c : g[p] < a <=> p <= 0)
            /\ active' = IF 0 < c THEN 0 + 1 ELSE c
        BY <3>2, <3>3
      <3> QED BY <3>4
    <2>2. CASE act # 0
      <3>1. PICK b \in 0..c : /\ \A p \in 1..c : f[p] < act <=> p <= b
                              /\ active' = IF b < c THEN b + 1 ELSE c
        BY <1>20, <2>2
      <3>2. \A p \in 1..c : g[p] = IF f[p] < i THEN f[p] ELSE f[p] + 1
        BY <1>7, <1>17, <1>18
      <3>3. CASE i < a \/ a <= n - 1
        <4>1. \A p \in 1..c : g[p] < a <=> f[p] < act
          BY <1>4, <1>5, <1>10, <1>17, <3>2, <3>3
        <4> QED BY <3>1, <4>1
      <3>4. CASE ~(i < a) /\ ~(a <= n - 1)
        <4>1. act = n - 1 /\ a = n /\ i = n
          BY <1>5, <1>10, <3>4
        <4>2. \A p \in 1..c : g[p] < a /\ f[p] <= n - 1
          BY <1>4, <1>17, <3>2, <4>1
        <4>3. b < c => b + 1 = c
          <5> SUFFICES ASSUME b < c, b + 1 # c PROVE FALSE
            OBVIOUS
          <5>1. PICK p, q : p = b + 1 /\ q = b + 2
            OBVIOUS
          <5>2. p \in 1..c /\ q \in 1..c /\ p < q /\ ~(p <= b)
            BY <1>16, <5>1
          <5>3. f[p] < f[q] /\ ~(f[p] < n - 1) /\ f[q] <= n - 1
            BY <1>16, <3>1, <4>1, <4>2, <5>2
          <5> QED BY <1>4, <1>17, <5>2, <5>3
        <4>4. active' = c
          BY <1>16, <3>1, <4>3
        <4>5. c \in 0..c /\ (\A p \in 1..c : g[p] < a <=> p <= c)
              /\ active' = IF c < c THEN c + 1 ELSE c
          BY <1>16, <4>2, <4>4
        <4> QED BY <4>5
      <3> QED BY <3>3, <3>4
    <2> QED BY <2>1, <2>2
  <1> QED BY <1>3, <1>5, <1>14, <1>16, <1>19, <1>21, FollowedBy

(* When tabs close or sessions end, in any number and order, the active    *)
(* session stays active, or its next neighbour on the right that stays     *)
(* takes over, or else the last one.                                       *)
THEOREM TheActiveIsFollowed == Spec => ActiveFollows
  <1>1. ASSUME Inv, [Next]_vars
        PROVE  [~Followed => ~Timer /\ \A i \in Ids : ~CloseTab(i)]_vars
    BY <1>1, TimerFollows, CloseTabFollows
  <1> QED BY <1>1, Invariant, PTL DEF ActiveFollows, Spec
=============================================================================
