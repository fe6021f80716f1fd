------------------------------ MODULE Utf8Proofs ------------------------------
(***************************************************************************)
(* The decoder of Utf8, for any output cut in any way: what it computes    *)
(* does not depend on the cuts, text arrives as it was sent, bytes that    *)
(* are no text do bounded damage, and only characters are fed.             *)
(*                                                                         *)
(* The decoder is a recursive function on the positions of the output.     *)
(* That such a function exists, and what it computes, is proved by         *)
(* induction on the number of bytes that are left (AllNumbers).            *)
(***************************************************************************)
EXTENDS Utf8, SequenceTheorems, WellFoundedInduction, TLAPS

Octet == 0..255

-----------------------------------------------------------------------------
(* Induction on the numbers, for a set instead of a predicate.             *)
LEMMA LeastNumber ==
  ASSUME NEW T \in SUBSET Nat, T # {}
  PROVE  \E x \in T : \A y \in T : x <= y
  <1>1. \E R : /\ IsWellFoundedOn(R, Nat)
               /\ \A x, y \in Nat : x < y => <<x, y>> \in R
    <2>1. IsWellFoundedOn(OpToRel(<, Nat), Nat)
      BY NatLessThanWellFounded
    <2>2. \A x, y \in Nat : x < y => <<x, y>> \in OpToRel(<, Nat)
      BY DEF OpToRel
    <2> QED BY <2>1, <2>2
  <1>2. PICK R : /\ IsWellFoundedOn(R, Nat)
                 /\ \A x, y \in Nat : x < y => <<x, y>> \in R
    BY <1>1
  <1>3. IsWellFoundedOn(R, Nat) /\ T \subseteq Nat
    BY <1>2
  <1>4. \E z \in T : \A y \in T : <<y, z>> \notin R
    BY <1>3, WFMin, Zenon
  <1>5. PICK z \in T : \A y \in T : <<y, z>> \notin R
    BY <1>4
  <1>6. \A y \in T : z <= y
    <2> SUFFICES ASSUME NEW y \in T PROVE z <= y
      OBVIOUS
    <2>1. y \in Nat /\ z \in Nat /\ ~(y < z)
      BY <1>2, <1>3, <1>5
    <2> QED BY <2>1
  <1> QED BY <1>6

(* What holds of a number if it holds of all smaller ones, holds of all.   *)
LEMMA AllNumbers ==
  ASSUME NEW G, \A n \in Nat : (\A m \in Nat : m < n => m \in G) => n \in G
  PROVE  Nat \subseteq G
  <1> SUFFICES ASSUME Nat \ G # {} PROVE FALSE
    OBVIOUS
  <1>1. PICK x \in Nat \ G : \A y \in Nat \ G : x <= y
    BY LeastNumber
  <1>2. \A m \in Nat : m < x => m \in G
    BY <1>1
  <1> QED BY <1>1, <1>2

-----------------------------------------------------------------------------
(* The decoder computes what its equation says.                            *)

(* No byte announces more than four, and every one is consumed.            *)
LEMMA AnnouncedType ==
  ASSUME NEW b \in Octet
  PROVE  /\ utf8_len(b) \in 0..4 /\ Announced(b) \in 1..4
         /\ utf8_len(b) # 0 => Announced(b) = utf8_len(b)
  <1>1. b \in Int /\ utf8_len(b) \in 0..4
    BY DEF Octet, utf8_len
  <1> QED BY <1>1 DEF Announced

(* The bytes after the first i.                                            *)
Rest(s, i) == SubSeq(s, i + 1, Len(s))

(* What is there after the first i.                                        *)
LEMMA RestFields ==
  ASSUME NEW S, NEW s \in Seq(S), NEW i \in 0..Len(s)
  PROVE  /\ Rest(s, i) \in Seq(S) /\ Len(Rest(s, i)) = Len(s) - i
         /\ \A j \in 1..(Len(s) - i) : Rest(s, i)[j] = s[i + j]
  <1>1. PICK n, m : n = Len(s) /\ m = i + 1
    OBVIOUS
  <1>2. n \in Int /\ m \in Int /\ n - m + 1 = n - i /\ m \in 1..(n + 1)
    BY <1>1
  <1>3. \A j \in m..n : s[j] \in S
    BY <1>1, <1>2
  <1>4. /\ SubSeq(s, m, n) \in Seq(S)
        /\ Len(SubSeq(s, m, n)) = IF m <= n THEN n - m + 1 ELSE 0
        /\ \A j \in 1..(n - m + 1) : SubSeq(s, m, n)[j] = s[m + j - 1]
    BY <1>2, <1>3, SubSeqProperties
  <1>5. Rest(s, i) = SubSeq(s, m, n)
    BY <1>1 DEF Rest
  <1>6. \A j \in 1..(n - i) : m + j - 1 = i + j /\ j \in 1..(n - m + 1)
    BY <1>1, <1>2
  <1>7. Len(Rest(s, i)) = n - i
    BY <1>1, <1>2, <1>4, <1>5
  <1> QED BY <1>1, <1>4, <1>5, <1>6, <1>7

Halts(s, i) == i = Len(s) \/ Incomplete(s, i)

(* A turn of the loop at i, if f is what the rest of the loop gives.       *)
FromHere(s, f, i) ==
  IF Halts(s, i) THEN [fed |-> <<>>, pending |-> Rest(s, i)]
  ELSE [fed |-> <<Char(s, i)>> \o f[i + Announced(s[i + 1])].fed,
        pending |-> f[i + Announced(s[i + 1])].pending]

(* A character that is complete ends within the output.                    *)
LEMMA TurnAdvances ==
  ASSUME NEW s \in Seq(Octet), NEW i \in 0..Len(s), ~Halts(s, i)
  PROVE  /\ i + 1 \in 1..Len(s) /\ s[i + 1] \in Octet
         /\ Announced(s[i + 1]) \in 1..4
         /\ i + Announced(s[i + 1]) \in (i + 1)..Len(s)
  <1>1. Len(s) \in Nat /\ i \in Nat /\ i # Len(s) /\ ~Incomplete(s, i)
    BY DEF Halts
  <1>2. i + 1 \in 1..Len(s) /\ s[i + 1] \in Octet
    BY <1>1
  <1>3. PICK b : b = s[i + 1]
    OBVIOUS
  <1>4. /\ utf8_len(b) \in 0..4 /\ Announced(b) \in 1..4
        /\ Announced(b) = IF utf8_len(b) = 0 THEN 1 ELSE utf8_len(b)
    BY <1>2, <1>3, AnnouncedType DEF Announced
  <1>5. ~(i + utf8_len(b) > Len(s))
    BY <1>1, <1>3 DEF Incomplete
  <1>6. i + Announced(b) \in (i + 1)..Len(s)
    BY <1>1, <1>2, <1>4, <1>5
  <1> QED BY <1>2, <1>3, <1>4, <1>6

(* Built from the end of the output to its beginning.                      *)
LEMMA DecoderExists ==
  ASSUME NEW s \in Seq(Octet)
  PROVE  \E f : f = [i \in 0..Len(s) |-> FromHere(s, f, i)]
  <1> DEFINE n == Len(s)
             Good(m) == \E f : f = [i \in (n - m)..n |-> FromHere(s, f, i)]
             G == {m \in Nat : m <= n => Good(m)}
  <1>1. n \in Nat
    OBVIOUS
  <1>2. ASSUME NEW m \in Nat, \A k \in Nat : k < m => k \in G
        PROVE  m \in G
    <2> SUFFICES ASSUME m <= n PROVE Good(m)
      OBVIOUS
    <2> DEFINE p == n - m
    <2>1. p \in 0..n
      BY <1>1
    <2>2. \E f : f = [i \in (p + 1)..n |-> FromHere(s, f, i)]
      <3>1. CASE m = 0
        <4>1. (p + 1)..n = {}
          BY <1>1, <3>1
        <4> DEFINE f == [i \in {} |-> {}]
        <4>2. f = [i \in (p + 1)..n |-> FromHere(s, f, i)]
          BY <4>1
        <4> QED BY <4>2
      <3>2. CASE m # 0
        <4>1. m - 1 \in Nat /\ m - 1 < m /\ m - 1 <= n /\ p + 1 = n - (m - 1)
          BY <1>1, <3>2
        <4>2. m - 1 \in G
          BY <1>2, <4>1
        <4>3. Good(m - 1)
          BY <4>1, <4>2
        <4> QED BY <4>1, <4>3
      <3> QED BY <3>1, <3>2
    <2>3. PICK f : f = [i \in (p + 1)..n |-> FromHere(s, f, i)]
      BY <2>2
    <2> DEFINE g == [i \in p..n |-> IF i = p THEN FromHere(s, f, p) ELSE f[i]]
    <2>4. \A i \in (p + 1)..n : g[i] = f[i] /\ i # p /\ i \in p..n
      BY <1>1, <2>1
    <2>5. ASSUME NEW i \in p..n PROVE FromHere(s, g, i) = FromHere(s, f, i)
      <3>1. i \in 0..Len(s)
        BY <1>1, <2>1
      <3>2. CASE Halts(s, i)
        BY <3>2 DEF FromHere
      <3>3. CASE ~Halts(s, i)
        <4>1. PICK j : j = i + Announced(s[i + 1])
          OBVIOUS
        <4>2. j \in (i + 1)..Len(s)
          BY <3>1, <3>3, <4>1, TurnAdvances
        <4>3. j \in (p + 1)..n
          BY <1>1, <2>1, <4>2
        <4>4. g[j] = f[j]
          BY <2>4, <4>3
        <4> HIDE DEF g
        <4> QED BY <4>1, <4>4 DEF FromHere
      <3> QED BY <3>2, <3>3
    <2>6. ASSUME NEW i \in p..n PROVE g[i] = FromHere(s, g, i)
      <3>1. FromHere(s, g, i) = FromHere(s, f, i)
        BY <2>5
      <3>2. CASE i = p
        <4>1. g[i] = FromHere(s, f, p)
          BY <3>2
        <4> QED BY <3>1, <3>2, <4>1
      <3>3. CASE i # p
        <4>1. i \in (p + 1)..n
          BY <1>1, <2>1, <3>3
        <4>2. g[i] = f[i]
          BY <2>4, <4>1
        <4>3. f[i] = FromHere(s, f, i)
          BY <2>3, <4>1
        <4> QED BY <3>1, <4>2, <4>3
      <3> QED BY <3>2, <3>3
    <2>7. g = [i \in p..n |-> FromHere(s, g, i)]
      <3>1. g = [i \in p..n |-> g[i]]
        OBVIOUS
      <3> HIDE DEF g
      <3> QED BY <2>6, <3>1
    <2> QED BY <2>7
  <1>3. Nat \subseteq G
    <2> HIDE DEF G
    <2> QED BY <1>2, AllNumbers
  <1>4. n \in G /\ n <= n
    BY <1>1, <1>3
  <1>5. Good(n)
    BY <1>4
  <1>6. (n - n)..n = 0..Len(s)
    BY <1>1
  <1> QED BY <1>5, <1>6

From(s) == CHOOSE f : f = [i \in 0..Len(s) |-> FromHere(s, f, i)]

(* The loop, and what Decoded takes of it.                                 *)
LEMMA FromEquation ==
  ASSUME NEW s \in Seq(Octet)
  PROVE  /\ Decoded(s) = From(s)[0]
         /\ \A i \in 0..Len(s) : From(s)[i] = FromHere(s, From(s), i)
  <1>1. From(s) = [i \in 0..Len(s) |-> FromHere(s, From(s), i)]
    <2>1. \E f : f = [i \in 0..Len(s) |-> FromHere(s, f, i)]
      BY DecoderExists
    <2> QED BY <2>1, Zenon DEF From
  <1>2. Decoded(s) = From(s)[0]
    BY DEF Decoded, From, FromHere, Halts, Rest
  <1>3. ASSUME NEW i \in 0..Len(s) PROVE From(s)[i] = FromHere(s, From(s), i)
    <2>1. PICK f : f = From(s)
      OBVIOUS
    <2>2. f = [j \in 0..Len(s) |-> FromHere(s, f, j)]
      BY <1>1, <2>1, Zenon
    <2>3. f[i] = FromHere(s, f, i)
      BY <2>2, Zenon
    <2> QED BY <2>1, <2>3, Zenon
  <1> QED BY <1>2, <1>3

(* Whether a character is complete, and which, does not depend on what was *)
(* decoded before it.                                                      *)
LEMMA SameFurtherOn ==
  ASSUME NEW s \in Seq(Octet), NEW p \in 0..Len(s), NEW q \in 0..(Len(s) - p)
  PROVE  /\ p + q \in 0..Len(s)
         /\ Halts(s, p + q) <=> Halts(Rest(s, p), q)
         /\ Rest(s, p + q) = Rest(Rest(s, p), q)
         /\ ~Halts(s, p + q) => /\ s[p + q + 1] = Rest(s, p)[q + 1]
                                /\ Char(s, p + q) = Char(Rest(s, p), q)
  <1>1. PICK n, t : n = Len(s) /\ t = Rest(s, p)
    OBVIOUS
  <1>2. /\ n \in Nat /\ p \in 0..n /\ q \in 0..(n - p) /\ p + q \in 0..n
        /\ t \in Seq(Octet) /\ Len(t) = n - p
        /\ \A j \in 1..(n - p) : t[j] = s[p + j]
    <2>1. /\ Rest(s, p) \in Seq(Octet) /\ Len(Rest(s, p)) = Len(s) - p
          /\ \A j \in 1..(Len(s) - p) : Rest(s, p)[j] = s[p + j]
      BY RestFields
    <2>2. n \in Nat /\ p \in 0..n /\ q \in 0..(n - p)
      BY <1>1
    <2>3. p + q \in 0..n
      BY <2>2
    <2> QED BY <1>1, <2>1, <2>2, <2>3
  <1>3. q # n - p => q + 1 \in 1..(n - p) /\ t[q + 1] = s[p + q + 1]
    <2> SUFFICES ASSUME q # n - p
                 PROVE  q + 1 \in 1..(n - p) /\ t[q + 1] = s[p + q + 1]
      OBVIOUS
    <2>1. q + 1 \in 1..(n - p) /\ p + (q + 1) = p + q + 1
      BY <1>2
    <2> QED BY <1>2, <2>1
  <1>4. Halts(s, p + q) <=> Halts(t, q)
    <2>1. CASE q = n - p
      BY <1>1, <1>2, <2>1 DEF Halts
    <2>2. CASE q # n - p
      <3>1. PICK b : b = t[q + 1] /\ b = s[p + q + 1]
        BY <1>3, <2>2
      <3>2. b \in Octet
        <4>1. q + 1 \in 1..Len(t) /\ t \in Seq(Octet)
          BY <1>2, <1>3, <2>2
        <4>2. t[q + 1] \in Octet
          BY <4>1, ElementOfSeq
        <4> QED BY <3>1, <4>2
      <3>3. utf8_len(b) \in 0..4
        BY <3>2, AnnouncedType
      <3>4. (p + q) + utf8_len(b) > n <=> q + utf8_len(b) > n - p
        BY <1>2, <3>3
      <3>5. p + q # n
        BY <1>2, <2>2
      <3> QED BY <1>1, <1>2, <2>2, <3>1, <3>4, <3>5 DEF Halts, Incomplete
    <2> QED BY <2>1, <2>2
  <1>5. Rest(s, p + q) = Rest(t, q)
    <2>1. /\ Rest(s, p + q) \in Seq(Octet) /\ Len(Rest(s, p + q)) = n - (p + q)
          /\ \A j \in 1..(n - (p + q)) : Rest(s, p + q)[j] = s[p + q + j]
      BY <1>1, <1>2, RestFields
    <2>2. /\ Rest(t, q) \in Seq(Octet) /\ Len(Rest(t, q)) = (n - p) - q
          /\ \A j \in 1..((n - p) - q) : Rest(t, q)[j] = t[q + j]
      <3>1. q \in 0..Len(t) /\ t \in Seq(Octet)
        BY <1>2
      <3>2. /\ Rest(t, q) \in Seq(Octet) /\ Len(Rest(t, q)) = Len(t) - q
            /\ \A j \in 1..(Len(t) - q) : Rest(t, q)[j] = t[q + j]
        BY <3>1, RestFields
      <3> QED BY <1>2, <3>2
    <2>3. ASSUME NEW j \in 1..(n - (p + q)) PROVE Rest(s, p + q)[j] = Rest(t, q)[j]
      <3>1. j \in 1..((n - p) - q) /\ q + j \in 1..(n - p) /\ p + (q + j) = p + q + j
        BY <1>2
      <3> QED BY <1>2, <2>1, <2>2, <3>1
    <2>4. Len(Rest(s, p + q)) = Len(Rest(t, q))
      BY <1>2, <2>1, <2>2
    <2> QED BY <2>1, <2>2, <2>3, <2>4, SeqEqual
  <1>6. ASSUME ~Halts(s, p + q)
        PROVE  s[p + q + 1] = t[q + 1] /\ Char(s, p + q) = Char(t, q)
    <2>1. q # n - p
      BY <1>1, <1>2, <1>6 DEF Halts
    <2>2. PICK b, a : b = t[q + 1] /\ b = s[p + q + 1] /\ a = Announced(b)
      BY <1>3, <2>1
    <2>3. a \in 1..4 /\ p + q + a \in 1..n
      <3>1. a \in 1..4 /\ p + q + a \in (p + q + 1)..n
        BY <1>1, <1>2, <1>6, <2>2, TurnAdvances
      <3> QED BY <1>2, <3>1
    <2>4. SubSeq(s, (p + q) + 1, (p + q) + a) = SubSeq(t, q + 1, q + a)
      <3>0. PICK m, k : m = (p + q) + 1 /\ k = (p + q) + a
        OBVIOUS
      <3>1. PICK c, d : c = SubSeq(s, m, k) /\ d = SubSeq(t, m - p, k - p)
        OBVIOUS
      <3>2. /\ m \in Int /\ k \in Int /\ m - p \in Int /\ k - p \in Int
            /\ m - p = q + 1 /\ k - p = q + a /\ m <= k /\ k - m + 1 = a
            /\ (k - p) - (m - p) + 1 = a /\ m - p <= k - p
            /\ m..k \subseteq 1..n /\ (m - p)..(k - p) \subseteq 1..(n - p)
        BY <1>2, <2>3, <3>0
      <3>3. \A j \in m..k : s[j] \in Octet
        <4>1. Len(s) = n
          BY <1>1
        <4>2. ASSUME NEW j \in m..k  PROVE  j \in 1..Len(s)
          BY <3>2, <4>1
        <4> QED BY <4>1, <4>2, ElementOfSeq
      <3>4. \A j \in (m - p)..(k - p) : t[j] \in Octet
        <4>1. t \in Seq(Octet) /\ Len(t) = n - p
          BY <1>2
        <4>2. ASSUME NEW j \in (m - p)..(k - p)  PROVE  j \in 1..Len(t)
          BY <3>2, <4>1
        <4> QED BY <4>1, <4>2, ElementOfSeq
      <3>5. /\ c \in Seq(Octet) /\ Len(c) = a
            /\ \A j \in 1..a : c[j] = s[m + j - 1]
        <4>1. /\ SubSeq(s, m, k) \in Seq(Octet)
              /\ Len(SubSeq(s, m, k)) = IF m <= k THEN k - m + 1 ELSE 0
              /\ \A j \in 1..(k - m + 1) : SubSeq(s, m, k)[j] = s[m + j - 1]
          BY <3>2, <3>3, SubSeqProperties
        <4> QED BY <3>1, <3>2, <4>1
      <3>6. /\ d \in Seq(Octet) /\ Len(d) = a
            /\ \A j \in 1..a : d[j] = t[(m - p) + j - 1]
        <4>1. PICK u, v : u = m - p /\ v = k - p
          OBVIOUS
        <4>2. u \in Int /\ v \in Int /\ \A j \in u..v : t[j] \in Octet
          BY <3>2, <3>4, <4>1
        <4>3. /\ SubSeq(t, u, v) \in Seq(Octet)
              /\ Len(SubSeq(t, u, v)) = IF u <= v THEN v - u + 1 ELSE 0
              /\ \A j \in 1..(v - u + 1) : SubSeq(t, u, v)[j] = t[u + j - 1]
          BY <4>2, SubSeqProperties
        <4> QED BY <3>1, <3>2, <4>1, <4>3
      <3>7. ASSUME NEW j \in 1..a PROVE c[j] = d[j]
        <4>1. (m - p) + j - 1 \in 1..(n - p) /\ p + ((m - p) + j - 1) = m + j - 1
          BY <1>2, <2>3, <3>0
        <4> QED BY <1>2, <3>5, <3>6, <4>1
      <3>8. c = d
        BY <3>5, <3>6, <3>7, SeqEqual
      <3> QED BY <3>0, <3>1, <3>2, <3>8
    <2> QED BY <2>2, <2>4 DEF Char
  <1> QED BY <1>1, <1>2, <1>4, <1>5, <1>6

(* The rest is decoded as if nothing had been before it.                   *)
LEMMA FromIsDecoded ==
  ASSUME NEW s \in Seq(Octet), NEW p \in 0..Len(s)
  PROVE  From(s)[p] = Decoded(Rest(s, p))
  <1>1. PICK n, t : n = Len(s) /\ t = Rest(s, p)
    OBVIOUS
  <1>2. /\ n \in Nat /\ p \in 0..n /\ t \in Seq(Octet) /\ Len(t) = n - p
        /\ n - p \in Nat
    BY <1>1, RestFields
  <1> DEFINE G == {m \in Nat : \A q \in 0..(n - p) :
                                 q + m = n - p => From(s)[p + q] = From(t)[q]}
  <1>3. ASSUME NEW m \in Nat, \A k \in Nat : k < m => k \in G
        PROVE  m \in G
    <2> SUFFICES ASSUME NEW q \in 0..(n - p), q + m = n - p
                 PROVE  From(s)[p + q] = From(t)[q]
      OBVIOUS
    <2>1. /\ p + q \in 0..n /\ Rest(s, p + q) = Rest(t, q)
          /\ Halts(s, p + q) <=> Halts(t, q)
          /\ ~Halts(s, p + q) => /\ s[p + q + 1] = t[q + 1]
                                 /\ Char(s, p + q) = Char(t, q)
      BY <1>1, <1>2, SameFurtherOn
    <2>2. /\ From(s)[p + q] = FromHere(s, From(s), p + q)
          /\ From(t)[q] = FromHere(t, From(t), q)
      BY <1>1, <1>2, <2>1, FromEquation
    <2>3. CASE Halts(s, p + q)
      BY <2>1, <2>2, <2>3 DEF FromHere
    <2>4. CASE ~Halts(s, p + q)
      <3>1. PICK a, r : a = Announced(t[q + 1]) /\ r = q + a
        OBVIOUS
      <3>2. a \in 1..4 /\ r \in (q + 1)..(n - p)
        BY <1>2, <2>1, <2>4, <3>1, TurnAdvances
      <3>3. From(s)[p + r] = From(t)[r]
        <4>1. r \in 0..(n - p) /\ n - p - r \in Nat /\ n - p - r < m /\ r + (n - p - r) = n - p
          BY <1>2, <3>2
        <4>2. n - p - r \in G
          BY <1>3, <4>1
        <4> QED BY <4>1, <4>2
      <3>4. p + r = (p + q) + Announced(s[p + q + 1])
        BY <1>2, <2>1, <2>4, <3>1, <3>2
      <3> QED BY <2>1, <2>2, <2>4, <3>1, <3>3, <3>4 DEF FromHere
    <2> QED BY <2>3, <2>4
  <1>4. Nat \subseteq G
    <2> HIDE DEF G
    <2> QED BY <1>3, AllNumbers
  <1>5. n - p \in G /\ 0 \in 0..(n - p) /\ 0 + (n - p) = n - p /\ p + 0 = p
    BY <1>2, <1>4
  <1>6. From(s)[p] = From(t)[0]
    BY <1>5
  <1> QED BY <1>1, <1>2, <1>6, FromEquation

(* The decoder, one character at a time.                                   *)
LEMMA Unfold ==
  ASSUME NEW s \in Seq(Octet)
  PROVE  /\ Halts(s, 0) => Decoded(s) = [fed |-> <<>>, pending |-> s]
         /\ ~Halts(s, 0) =>
              LET a == Announced(s[1])
              IN  /\ s # <<>> /\ s[1] \in Octet /\ a \in 1..Len(s) /\ a \in 1..4
                  /\ Rest(s, a) \in Seq(Octet) /\ Len(Rest(s, a)) = Len(s) - a
                  /\ Decoded(s) = [fed |-> <<Char(s, 0)>> \o Decoded(Rest(s, a)).fed,
                                   pending |-> Decoded(Rest(s, a)).pending]
  <1>1. Len(s) \in Nat /\ 0 \in 0..Len(s)
    OBVIOUS
  <1>2. Decoded(s) = FromHere(s, From(s), 0)
    BY <1>1, FromEquation
  <1>3. ASSUME Halts(s, 0) PROVE Decoded(s) = [fed |-> <<>>, pending |-> s]
    <2>1. Rest(s, 0) = s
      <3>1. /\ Rest(s, 0) \in Seq(Octet) /\ Len(Rest(s, 0)) = Len(s) - 0
            /\ \A j \in 1..(Len(s) - 0) : Rest(s, 0)[j] = s[0 + j]
        BY <1>1, RestFields
      <3>2. \A j \in 1..Len(s) : 0 + j = j
        OBVIOUS
      <3>3. Len(Rest(s, 0)) = Len(s) /\ \A j \in 1..Len(Rest(s, 0)) : Rest(s, 0)[j] = s[j]
        BY <1>1, <3>1, <3>2
      <3> QED BY <3>1, <3>3, SeqEqual
    <2> QED BY <1>2, <1>3, <2>1 DEF FromHere
  <1>4. ASSUME ~Halts(s, 0)
        PROVE  LET a == Announced(s[1])
               IN  /\ s # <<>> /\ s[1] \in Octet /\ a \in 1..Len(s) /\ a \in 1..4
                   /\ Rest(s, a) \in Seq(Octet) /\ Len(Rest(s, a)) = Len(s) - a
                   /\ Decoded(s) = [fed |-> <<Char(s, 0)>> \o Decoded(Rest(s, a)).fed,
                                    pending |-> Decoded(Rest(s, a)).pending]
    <2>1. PICK a : a = Announced(s[1])
      OBVIOUS
    <2>2. /\ 0 + 1 \in 1..Len(s) /\ s[0 + 1] \in Octet
          /\ Announced(s[0 + 1]) \in 1..4
          /\ 0 + Announced(s[0 + 1]) \in (0 + 1)..Len(s)
      BY <1>1, <1>4, TurnAdvances
    <2>3. s[1] \in Octet /\ a \in 1..Len(s) /\ a \in 1..4 /\ 0 + a = a /\ a \in 0..Len(s)
      BY <1>1, <2>1, <2>2
    <2>4. s # <<>>
      BY <1>1, <2>3
    <2>5. Rest(s, a) \in Seq(Octet) /\ Len(Rest(s, a)) = Len(s) - a
      BY <2>3, RestFields
    <2>6. From(s)[a] = Decoded(Rest(s, a))
      BY <2>3, FromIsDecoded
    <2>7. 0 + 1 = 1
      OBVIOUS
    <2>8. Decoded(s) = [fed |-> <<Char(s, 0)>> \o From(s)[a].fed,
                        pending |-> From(s)[a].pending]
      BY <1>2, <1>4, <2>1, <2>3, <2>7 DEF FromHere
    <2> QED BY <2>1, <2>3, <2>4, <2>5, <2>6, <2>8
  <1> QED BY <1>3, <1>4

(* Some character, or nothing at all.                                      *)
LEMMA CharType ==
  ASSUME NEW s \in Seq(Octet), ~Halts(s, 0)
  PROVE  Char(s, 0) \in Seq(Octet)
  <1>1. PICK a : a = Announced(s[1])
    OBVIOUS
  <1>2. a \in 1..Len(s) /\ Len(s) \in Nat
    <2>1. Announced(s[1]) \in 1..Len(s)
      BY Unfold
    <2> QED BY <1>1, <2>1
  <1>3. SubSeq(s, 0 + 1, 0 + a) \in Seq(Octet)
    BY <1>2
  <1>4. <<>> \in Seq(Octet) /\ 0 + 1 = 1
    OBVIOUS
  <1> QED BY <1>1, <1>3, <1>4 DEF Char, REPLACEMENT

(* What is decoded is a sequence of characters, and what is left is the    *)
(* beginning of another.                                                   *)
LEMMA DecodedType ==
  ASSUME NEW s \in Seq(Octet)
  PROVE  /\ Decoded(s).fed \in Seq(Seq(Octet))
         /\ Decoded(s).pending \in Seq(Octet) /\ Halts(Decoded(s).pending, 0)
         /\ Decoded(s) = [fed |-> Decoded(s).fed, pending |-> Decoded(s).pending]
  <1> DEFINE Fine(t) == /\ Decoded(t).fed \in Seq(Seq(Octet))
                        /\ Decoded(t).pending \in Seq(Octet)
                        /\ Halts(Decoded(t).pending, 0)
             G == {m \in Nat : \A t \in Seq(Octet) : Len(t) = m => Fine(t)}
  <1>1. ASSUME NEW m \in Nat, \A k \in Nat : k < m => k \in G
        PROVE  m \in G
    <2> SUFFICES ASSUME NEW t \in Seq(Octet), Len(t) = m PROVE Fine(t)
      OBVIOUS
    <2>1. CASE Halts(t, 0)
      <3>1. Decoded(t) = [fed |-> <<>>, pending |-> t]
        BY <2>1, Unfold
      <3>2. <<>> \in Seq(Seq(Octet))
        OBVIOUS
      <3> QED BY <2>1, <3>1, <3>2
    <2>2. CASE ~Halts(t, 0)
      <3>1. PICK a, r : a = Announced(t[1]) /\ r = Rest(t, a)
        OBVIOUS
      <3>2. /\ a \in 1..Len(t) /\ r \in Seq(Octet) /\ Len(r) = Len(t) - a
            /\ Decoded(t) = [fed |-> <<Char(t, 0)>> \o Decoded(r).fed,
                             pending |-> Decoded(r).pending]
        BY <2>2, <3>1, Unfold
      <3>3. Len(r) \in Nat /\ Len(r) < m
        BY <3>2
      <3>4. Fine(r)
        BY <1>1, <3>2, <3>3
      <3>5. <<Char(t, 0)>> \in Seq(Seq(Octet))
        BY <2>2, CharType
      <3>6. <<Char(t, 0)>> \o Decoded(r).fed \in Seq(Seq(Octet))
        BY <3>4, <3>5, ConcatProperties
      <3> QED BY <3>2, <3>4, <3>6
    <2> QED BY <2>1, <2>2
  <1>2. Nat \subseteq G
    <2> HIDE DEF G
    <2> QED BY <1>1, AllNumbers
  <1>3. Len(s) \in G
    BY <1>2
  <1>4. Fine(s)
    BY <1>3
  <1>5. \E f, p : Decoded(s) = [fed |-> f, pending |-> p]
    <2>1. CASE Halts(s, 0)
      <3>1. Decoded(s) = [fed |-> <<>>, pending |-> s]
        BY <2>1, Unfold
      <3> QED BY <3>1
    <2>2. CASE ~Halts(s, 0)
      <3>1. PICK r : r = Decoded(Rest(s, Announced(s[1])))
        OBVIOUS
      <3>2. Decoded(s) = [fed |-> <<Char(s, 0)>> \o r.fed, pending |-> r.pending]
        BY <2>2, <3>1, Unfold
      <3> QED BY <3>2
    <2> QED BY <2>1, <2>2
  <1>6. Decoded(s) = [fed |-> Decoded(s).fed, pending |-> Decoded(s).pending]
    BY <1>5
  <1> QED BY <1>4, <1>6

(* What comes later does not change what is decoded already.               *)
LEMMA Prefix ==
  ASSUME NEW s \in Seq(Octet), NEW d \in Seq(Octet), ~Halts(s, 0)
  PROVE  LET a == Announced(s[1])
         IN  /\ ~Halts(s \o d, 0) /\ (s \o d)[1] = s[1]
             /\ Char(s \o d, 0) = Char(s, 0)
             /\ Rest(s \o d, a) = Rest(s, a) \o d
  <1>1. PICK a, n, m, t : /\ a = Announced(s[1]) /\ n = Len(s) /\ m = Len(d)
                          /\ t = s \o d
    OBVIOUS
  <1>2. a \in 1..n /\ a \in 1..4 /\ s[1] \in Octet /\ n \in Nat /\ m \in Nat
    <2>1. /\ s[1] \in Octet /\ Announced(s[1]) \in 1..Len(s)
          /\ Announced(s[1]) \in 1..4
      BY Unfold
    <2>2. Len(s) \in Nat /\ Len(d) \in Nat
      OBVIOUS
    <2> QED BY <1>1, <2>1, <2>2
  <1>3. /\ t \in Seq(Octet) /\ Len(t) = n + m
        /\ \A i \in 1..(n + m) : t[i] = IF i <= n THEN s[i] ELSE d[i - n]
    BY <1>1, ConcatProperties
  <1>4. t[1] = s[1]
    <2>1. 1 \in 1..(n + m) /\ 1 <= n
      BY <1>2
    <2> QED BY <1>3, <2>1
  <1>5. ~Halts(t, 0)
    <2>1. utf8_len(s[1]) \in 0..4
      BY <1>2, AnnouncedType
    <2>2. 0 + 1 = 1 /\ n # 0 /\ ~(0 + utf8_len(s[1]) > n)
      BY <1>1, <1>2 DEF Halts, Incomplete
    <2>3. n + m # 0 /\ ~(0 + utf8_len(s[1]) > n + m)
      BY <1>2, <2>1, <2>2
    <2> QED BY <1>3, <1>4, <2>2, <2>3 DEF Halts, Incomplete
  <1>6. SubSeq(t, 0 + 1, 0 + a) = SubSeq(s, 0 + 1, 0 + a)
    <2>1. PICK u, v, x, y : u = 0 + 1 /\ v = 0 + a /\ x = SubSeq(t, u, v) /\ y = SubSeq(s, u, v)
      OBVIOUS
    <2>2. u \in Int /\ v \in Int /\ u = 1 /\ v = a /\ v - u + 1 = a /\ u <= v
      BY <1>2, <2>1
    <2>3. \A j \in u..v : s[j] \in Octet /\ t[j] = s[j]
      BY <1>1, <1>2, <1>3, <2>2
    <2>4. /\ SubSeq(t, u, v) \in Seq(Octet)
          /\ Len(SubSeq(t, u, v)) = IF u <= v THEN v - u + 1 ELSE 0
          /\ \A j \in 1..(v - u + 1) : SubSeq(t, u, v)[j] = t[u + j - 1]
      BY <2>2, <2>3, SubSeqProperties
    <2>5. /\ SubSeq(s, u, v) \in Seq(Octet)
          /\ Len(SubSeq(s, u, v)) = IF u <= v THEN v - u + 1 ELSE 0
          /\ \A j \in 1..(v - u + 1) : SubSeq(s, u, v)[j] = s[u + j - 1]
      BY <2>2, <2>3, SubSeqProperties
    <2>6. \A j \in 1..a : u + j - 1 \in u..v
      BY <1>2, <2>2
    <2>7. Len(x) = Len(y) /\ \A j \in 1..Len(x) : x[j] = y[j]
      BY <1>2, <2>1, <2>2, <2>3, <2>4, <2>5, <2>6
    <2> QED BY <2>1, <2>4, <2>5, <2>7, SeqEqual
  <1>7. Char(t, 0) = Char(s, 0)
    <2>1. 0 + 1 = 1
      OBVIOUS
    <2> QED BY <1>1, <1>4, <1>6, <2>1 DEF Char
  <1>8. Rest(t, a) = Rest(s, a) \o d
    <2>1. PICK x, r, y : x = Rest(t, a) /\ r = Rest(s, a) /\ y = r \o d
      OBVIOUS
    <2>2. a \in 0..n /\ a \in 0..(n + m)
      BY <1>2
    <2>3. /\ x \in Seq(Octet) /\ Len(x) = (n + m) - a
          /\ \A j \in 1..((n + m) - a) : x[j] = t[a + j]
      <3>1. a \in 0..Len(t)
        BY <1>3, <2>2
      <3>2. /\ Rest(t, a) \in Seq(Octet) /\ Len(Rest(t, a)) = Len(t) - a
            /\ \A j \in 1..(Len(t) - a) : Rest(t, a)[j] = t[a + j]
        BY <1>3, <3>1, RestFields
      <3> QED BY <1>3, <2>1, <3>2
    <2>4. /\ r \in Seq(Octet) /\ Len(r) = n - a
          /\ \A j \in 1..(n - a) : r[j] = s[a + j]
      <3>1. /\ Rest(s, a) \in Seq(Octet) /\ Len(Rest(s, a)) = Len(s) - a
            /\ \A j \in 1..(Len(s) - a) : Rest(s, a)[j] = s[a + j]
        BY <1>1, <2>2, RestFields
      <3> QED BY <1>1, <2>1, <3>1
    <2>5. /\ y \in Seq(Octet) /\ Len(y) = (n - a) + m
          /\ \A j \in 1..((n - a) + m) : y[j] = IF j <= n - a THEN r[j] ELSE d[j - (n - a)]
      <3>1. /\ r \o d \in Seq(Octet) /\ Len(r \o d) = Len(r) + Len(d)
            /\ \A j \in 1..(Len(r) + Len(d)) :
                 (r \o d)[j] = IF j <= Len(r) THEN r[j] ELSE d[j - Len(r)]
        BY <2>4, ConcatProperties
      <3> QED BY <1>1, <2>1, <2>4, <3>1
    <2>6. ASSUME NEW j \in 1..((n + m) - a) PROVE x[j] = y[j]
      <3>1. a + j \in 1..(n + m) /\ j \in 1..((n - a) + m) /\ (a + j) - n = j - (n - a)
        BY <1>2
      <3>2. CASE j <= n - a
        <4>1. a + j <= n /\ j \in 1..(n - a)
          BY <1>2, <3>2
        <4> QED BY <1>3, <2>3, <2>4, <2>5, <3>1, <3>2, <4>1
      <3>3. CASE ~(j <= n - a)
        <4>1. ~(a + j <= n)
          BY <1>2, <3>3
        <4> QED BY <1>3, <2>3, <2>5, <3>1, <3>3, <4>1
      <3> QED BY <3>2, <3>3
    <2>7. Len(x) = Len(y) /\ \A j \in 1..Len(x) : x[j] = y[j]
      BY <1>2, <2>3, <2>5, <2>6
    <2> QED BY <2>1, <2>3, <2>5, <2>7, SeqEqual
  <1> QED BY <1>1, <1>4, <1>5, <1>7, <1>8

(* Parts that are put together in another order.                           *)
LEMMA Associative ==
  ASSUME NEW S, NEW s \in Seq(S), NEW t \in Seq(S), NEW u \in Seq(S)
  PROVE  (s \o t) \o u = s \o (t \o u)
  BY ConcatAssociative

(* Decoding goes on where it stopped.                                      *)
LEMMA Continue ==
  ASSUME NEW s \in Seq(Octet), NEW d \in Seq(Octet)
  PROVE  LET r == Decoded(s)
         IN  Decoded(s \o d) = [fed |-> r.fed \o feed(r.pending, d).fed,
                                pending |-> feed(r.pending, d).pending]
  <1> DEFINE Goes(t) ==
               Decoded(t \o d) =
                 [fed |-> Decoded(t).fed \o Decoded(Decoded(t).pending \o d).fed,
                  pending |-> Decoded(Decoded(t).pending \o d).pending]
             G == {m \in Nat : \A t \in Seq(Octet) : Len(t) = m => Goes(t)}
  <1>1. ASSUME NEW m \in Nat, \A k \in Nat : k < m => k \in G
        PROVE  m \in G
    <2> SUFFICES ASSUME NEW t \in Seq(Octet), Len(t) = m PROVE Goes(t)
      OBVIOUS
    <2>1. t \o d \in Seq(Octet)
      BY ConcatProperties
    <2>2. CASE Halts(t, 0)
      <3>1. Decoded(t) = [fed |-> <<>>, pending |-> t]
        BY <2>2, Unfold
      <3>2. PICK x : x = Decoded(t \o d)
        OBVIOUS
      <3>3. x.fed \in Seq(Seq(Octet)) /\ x = [fed |-> x.fed, pending |-> x.pending]
        BY <2>1, <3>2, DecodedType
      <3>4. <<>> \o x.fed = x.fed
        BY <3>3, ConcatEmptySeq
      <3>5. Decoded(t).fed = <<>> /\ Decoded(t).pending = t
        BY <3>1
      <3> QED BY <3>2, <3>3, <3>4, <3>5
    <2>3. CASE ~Halts(t, 0)
      <3>1. PICK a, r, c : a = Announced(t[1]) /\ r = Rest(t, a) /\ c = <<Char(t, 0)>>
        OBVIOUS
      <3>2. /\ a \in 1..Len(t) /\ r \in Seq(Octet) /\ Len(r) = Len(t) - a
            /\ Decoded(t) = [fed |-> c \o Decoded(r).fed, pending |-> Decoded(r).pending]
        BY <2>3, <3>1, Unfold
      <3>3. /\ ~Halts(t \o d, 0) /\ (t \o d)[1] = t[1] /\ Char(t \o d, 0) = Char(t, 0)
            /\ Rest(t \o d, a) = r \o d
        BY <2>3, <3>1, Prefix
      <3>4. Decoded(t \o d) = [fed |-> c \o Decoded(r \o d).fed,
                               pending |-> Decoded(r \o d).pending]
        <4>1. PICK x : x = t \o d
          OBVIOUS
        <4>2. x \in Seq(Octet) /\ ~Halts(x, 0) /\ Announced(x[1]) = a /\ Rest(x, a) = r \o d
              /\ <<Char(x, 0)>> = c
          BY <2>1, <3>1, <3>3, <4>1
        <4>3. Decoded(x) = [fed |-> <<Char(x, 0)>> \o Decoded(Rest(x, a)).fed,
                            pending |-> Decoded(Rest(x, a)).pending]
          BY <4>2, Unfold
        <4> QED BY <4>1, <4>2, <4>3
      <3>5. Goes(r)
        <4>1. Len(r) \in Nat /\ Len(r) < m
          BY <3>2
        <4> QED BY <1>1, <3>2, <4>1
      <3>6. PICK p, f, y : /\ p = Decoded(r).pending /\ f = Decoded(r).fed
                           /\ y = Decoded(p \o d)
        OBVIOUS
      <3>7. /\ f \in Seq(Seq(Octet)) /\ p \in Seq(Octet) /\ c \in Seq(Seq(Octet))
            /\ y.fed \in Seq(Seq(Octet))
        <4>1. f \in Seq(Seq(Octet)) /\ p \in Seq(Octet)
          BY <3>2, <3>6, DecodedType
        <4>2. p \o d \in Seq(Octet)
          BY <4>1, ConcatProperties
        <4>3. y.fed \in Seq(Seq(Octet))
          BY <3>6, <4>2, DecodedType
        <4>4. Char(t, 0) \in Seq(Octet)
          BY <2>3, CharType
        <4> QED BY <3>1, <4>1, <4>3, <4>4
      <3>8. Decoded(r \o d) = [fed |-> f \o y.fed, pending |-> y.pending]
        BY <3>5, <3>6
      <3>9. c \o (f \o y.fed) = (c \o f) \o y.fed
        <4>1. PICK z : z = y.fed
          OBVIOUS
        <4>2. PICK S : S = Seq(Octet)
          OBVIOUS
        <4>3. c \in Seq(S) /\ f \in Seq(S) /\ z \in Seq(S)
          BY <3>7, <4>1, <4>2
        <4>4. (c \o f) \o z = c \o (f \o z)
          BY <4>3, Associative
        <4> QED BY <4>1, <4>4
      <3>10. Decoded(t).fed = c \o f /\ Decoded(t).pending = p
        BY <3>2, <3>6
      <3>11. Decoded(t \o d) = [fed |-> c \o (f \o y.fed), pending |-> y.pending]
        BY <3>4, <3>8
      <3> QED BY <3>6, <3>9, <3>10, <3>11
    <2> QED BY <2>2, <2>3
  <1>2. Nat \subseteq G
    <2> HIDE DEF G
    <2> QED BY <1>1, AllNumbers
  <1>3. Len(s) \in G
    <2>1. Len(s) \in Nat
      OBVIOUS
    <2> QED BY <1>2, <2>1
  <1>4. Goes(s)
    BY <1>3
  <1> QED BY <1>4 DEF feed

-----------------------------------------------------------------------------
(* The bytes that announce exactly what they are: one character.           *)
LEMMA OneTurn ==
  ASSUME NEW s \in Seq(Octet), s # <<>>, Announced(s[1]) = Len(s)
  PROVE  ~Halts(s, 0) /\ Decoded(s) = [fed |-> <<Char(s, 0)>>, pending |-> <<>>]
  <1>1. PICK n : n = Len(s)
    OBVIOUS
  <1>2. n \in Nat /\ n # 0 /\ 1 \in 1..n /\ s[1] \in Octet
    BY <1>1
  <1>3. ~Halts(s, 0)
    <2>1. utf8_len(s[1]) \in 0..4 /\ (utf8_len(s[1]) # 0 => utf8_len(s[1]) = n)
      BY <1>1, <1>2, AnnouncedType
    <2>2. ~(0 + utf8_len(s[1]) > n) /\ 0 + 1 = 1
      BY <1>2, <2>1
    <2> QED BY <1>1, <1>2, <2>2 DEF Halts, Incomplete
  <1>4. PICK r : r = Rest(s, n)
    OBVIOUS
  <1>5. /\ r \in Seq(Octet) /\ Len(r) = n - n
        /\ Decoded(s) = [fed |-> <<Char(s, 0)>> \o Decoded(r).fed,
                         pending |-> Decoded(r).pending]
    BY <1>1, <1>3, <1>4, Unfold
  <1>6. r = <<>>
    <2>1. Len(r) = 0
      BY <1>2, <1>5
    <2> QED BY <1>5, <2>1
  <1>7. Decoded(<<>>) = [fed |-> <<>>, pending |-> <<>>]
    <2>1. <<>> \in Seq(Octet) /\ Len(<<>>) = 0
      OBVIOUS
    <2>2. Halts(<<>>, 0)
      BY <2>1 DEF Halts
    <2> QED BY <2>1, <2>2, Unfold
  <1>8. <<Char(s, 0)>> \o <<>> = <<Char(s, 0)>>
    <2>1. <<Char(s, 0)>> \in Seq(Seq(Octet))
      BY <1>3, CharType
    <2> QED BY <2>1, ConcatEmptySeq
  <1> QED BY <1>3, <1>5, <1>6, <1>7, <1>8

(* Every encoding is well-formed, and its first byte announces its length. *)
LEMMA EncodedFields ==
  ASSUME NEW n, Scalar(n)
  PROVE  LET c == Encoded(n)
         IN  /\ c \in Seq(Octet) /\ c # <<>>
             /\ utf8_len(c[1]) = Len(c) /\ Len(c) \in 1..4 /\ WellFormed(c)
  <1>1. n \in Nat /\ n <= 1114111 /\ (n < 55296 \/ n > 57343)
    BY SMT DEF Scalar
  <1>2. CASE n < 128
    <2>1. Encoded(n) = <<n>>
      BY <1>1, <1>2, SMT DEF Encoded
    <2>2. utf8_len(n) = 1 /\ n \in Octet /\ n \in 0..127
      BY <1>1, <1>2, SMT DEF utf8_len, Octet
    <2>3. WellFormed(<<n>>)
      BY <2>2 DEF WellFormed
    <2> QED BY <2>1, <2>2, <2>3
  <1>3. CASE n >= 128 /\ n < 2048
    <2>1. PICK a, b : a = 192 + (n \div 64) /\ b = 128 + (n % 64)
      OBVIOUS
    <2>2. Encoded(n) = <<a, b>>
      BY <1>1, <1>3, <2>1, SMT DEF Encoded
    <2>3. a \in 194..223 /\ b \in 128..191
      BY <1>1, <1>3, <2>1, SMT
    <2>4. utf8_len(a) = 2 /\ a \in Octet /\ b \in Octet
      BY <2>3 DEF utf8_len, Octet
    <2>5. WellFormed(<<a, b>>)
      BY <2>3 DEF WellFormed
    <2> QED BY <2>2, <2>4, <2>5
  <1>4. CASE n >= 2048 /\ n < 65536
    <2>1. PICK a, b, d : /\ a = 224 + (n \div 4096) /\ b = 128 + ((n \div 64) % 64)
                         /\ d = 128 + (n % 64)
      OBVIOUS
    <2>2. Encoded(n) = <<a, b, d>>
      BY <1>1, <1>4, <2>1, SMT DEF Encoded
    <2>3. /\ a \in 224..239 /\ b \in 128..191 /\ d \in 128..191
          /\ a = 224 => b >= 160
          /\ a = 237 => b < 160
      BY <1>1, <1>4, <2>1, SMT
    <2>4. utf8_len(a) = 3 /\ a \in Octet /\ b \in Octet /\ d \in Octet
      BY <2>3 DEF utf8_len, Octet
    <2>5. WellFormed(<<a, b, d>>)
      BY <2>3 DEF WellFormed
    <2> QED BY <2>2, <2>4, <2>5
  <1>5. CASE n >= 65536
    <2>1. PICK a, b, d, e :
            /\ a = 240 + (n \div 262144) /\ b = 128 + ((n \div 4096) % 64)
            /\ d = 128 + ((n \div 64) % 64) /\ e = 128 + (n % 64)
      OBVIOUS
    <2>2. Encoded(n) = <<a, b, d, e>>
      BY <1>1, <1>5, <2>1, SMT DEF Encoded
    <2>3. /\ a \in 240..244 /\ b \in 128..191 /\ d \in 128..191 /\ e \in 128..191
          /\ a = 240 => b >= 144
          /\ a = 244 => b < 144
      BY <1>1, <1>5, <2>1, SMT
    <2>4. utf8_len(a) = 4 /\ a \in Octet /\ b \in Octet /\ d \in Octet /\ e \in Octet
      BY <2>3 DEF utf8_len, Octet
    <2>5. WellFormed(<<a, b, d, e>>)
      BY <2>3 DEF WellFormed
    <2> QED BY <2>2, <2>4, <2>5
  <1>6. \/ n < 128 \/ (n >= 128 /\ n < 2048)
        \/ (n >= 2048 /\ n < 65536) \/ n >= 65536
    BY <1>1, SMT
  <1> QED BY <1>2, <1>3, <1>4, <1>5, <1>6, SMT

(* A character that arrives whole is the one that was sent.                *)
LEMMA OneCharacter ==
  ASSUME NEW c \in Chars
  PROVE  /\ c \in Seq(Octet) /\ c # <<>> /\ Len(c) \in 1..4
         /\ Decoded(c) = [fed |-> <<c>>, pending |-> <<>>]
  <1>1. PICK n \in Scalars : c = Encoded(n)
    BY DEF Chars
  <1>2. Scalar(n)
    BY Utf8Bounds DEF Utf8Bounds
  <1>3. /\ c \in Seq(Octet) /\ c # <<>>
        /\ utf8_len(c[1]) = Len(c) /\ Len(c) \in 1..4 /\ WellFormed(c)
    BY <1>1, <1>2, EncodedFields
  <1>4. Announced(c[1]) = Len(c) /\ utf8_len(c[1]) > 0
    BY <1>3 DEF Announced
  <1>5. Decoded(c) = [fed |-> <<Char(c, 0)>>, pending |-> <<>>]
    BY <1>3, <1>4, OneTurn
  <1>6. Char(c, 0) = c
    <2>1. SubSeq(c, 1, Len(c)) = c
      <3>1. 1 \in Int /\ Len(c) \in Int /\ \A i \in 1..Len(c) : c[i] \in Octet
        BY <1>3
      <3>2. /\ SubSeq(c, 1, Len(c)) \in Seq(Octet)
            /\ Len(SubSeq(c, 1, Len(c))) = IF 1 <= Len(c) THEN Len(c) - 1 + 1 ELSE 0
            /\ \A i \in 1..(Len(c) - 1 + 1) : SubSeq(c, 1, Len(c))[i] = c[1 + i - 1]
        BY <3>1, SubSeqProperties
      <3>3. Len(c) - 1 + 1 = Len(c) /\ 1 <= Len(c) /\ \A i \in 1..Len(c) : 1 + i - 1 = i
        BY <1>3
      <3>4. /\ Len(SubSeq(c, 1, Len(c))) = Len(c)
            /\ \A i \in 1..Len(c) : SubSeq(c, 1, Len(c))[i] = c[i]
        BY <3>2, <3>3
      <3> QED BY <1>3, <3>2, <3>4, SeqEqual
    <2>2. 0 + 1 = 1 /\ 0 + Len(c) = Len(c)
      BY <1>3
    <2> QED BY <1>3, <1>4, <2>1, <2>2 DEF Char
  <1> QED BY <1>3, <1>5, <1>6

-----------------------------------------------------------------------------
(* However the output is cut.                                              *)

DecoderInv == sent \in Seq(Octet) /\ CutsDoNotMatter

(* A packet is a sequence of bytes.                                        *)
LEMMA StringsType ==
  ASSUME NEW n, NEW data \in Strings(n)
  PROVE  data \in Seq(Octet)
  <1>1. PICK m \in 0..n : data \in [1..m -> Bytes]
    BY DEF Strings
  <1>2. Bytes \subseteq Octet
    BY Utf8Bounds DEF Utf8Bounds, Octet
  <1>3. data \in [1..m -> Octet] /\ m \in Nat
    BY <1>1, <1>2
  <1> QED BY <1>3

(* A call of feed goes on exactly where the last one stopped.              *)
THEOREM OutputIsDecoded == DecoderSpec => []DecoderInv
  <1>1. DecoderInit => DecoderInv
    <2> SUFFICES ASSUME DecoderInit PROVE DecoderInv
      OBVIOUS
    <2>1. sent = <<>> /\ fed = <<>> /\ pending = <<>>
      BY DEF DecoderInit
    <2>2. <<>> \in Seq(Octet) /\ Len(<<>>) = 0
      OBVIOUS
    <2>3. Decoded(<<>>) = [fed |-> <<>>, pending |-> <<>>]
      <3>1. Halts(<<>>, 0)
        BY <2>2 DEF Halts
      <3> QED BY <2>2, <3>1, Unfold
    <2> QED BY <2>1, <2>2, <2>3 DEF DecoderInv, CutsDoNotMatter
  <1>2. DecoderInv /\ [Packet]_DecoderVars => DecoderInv'
    <2> SUFFICES ASSUME DecoderInv, [Packet]_DecoderVars PROVE DecoderInv'
      OBVIOUS
    <2>1. CASE Packet
      <3>1. PICK data \in Strings(MaxBytes - Len(sent)) :
              /\ sent' = sent \o data
              /\ fed' = fed \o feed(pending, data).fed
              /\ pending' = feed(pending, data).pending
        BY <2>1 DEF Packet
      <3>2. sent \in Seq(Octet) /\ data \in Seq(Octet)
        BY StringsType DEF DecoderInv
      <3>3. fed = Decoded(sent).fed /\ pending = Decoded(sent).pending
        <4>1. [fed |-> fed, pending |-> pending] = Decoded(sent)
          BY DEF DecoderInv, CutsDoNotMatter
        <4> QED BY <4>1
      <3>4. Decoded(sent \o data) =
              [fed |-> fed \o feed(pending, data).fed,
               pending |-> feed(pending, data).pending]
        BY <3>2, <3>3, Continue
      <3>5. sent \o data \in Seq(Octet)
        BY <3>2, ConcatProperties
      <3> QED BY <3>1, <3>4, <3>5 DEF DecoderInv, CutsDoNotMatter
    <2>2. CASE UNCHANGED DecoderVars
      BY <2>2 DEF DecoderInv, CutsDoNotMatter, DecoderVars
    <2> QED BY <2>1, <2>2
  <1> QED BY <1>1, <1>2, PTL DEF DecoderSpec

(* The characters fed and the bytes kept are those of the whole output     *)
(* decoded at once, wherever it was cut.                                   *)
THEOREM CutsNeverMatter == DecoderSpec => []CutsDoNotMatter
  <1>1. DecoderInv => CutsDoNotMatter
    BY DEF DecoderInv
  <1> QED BY <1>1, OutputIsDecoded, PTL

(* The next packet is decoded from what the last one left.                 *)
LEMMA StartsOver ==
  ASSUME NEW c \in Seq(Octet)
  PROVE  feed(<<>>, c) = Decoded(c)
  <1>1. <<>> \o c = c
    BY ConcatEmptySeq
  <1> QED BY <1>1 DEF feed

-----------------------------------------------------------------------------
(* Text: the bytes of a sequence of characters, one after the other.       *)

(* The first i characters, if f is what the first i - 1 are.               *)
JoinedHere(text, f, i) == IF i = 1 THEN text[i] ELSE f[i - 1] \o text[i]

(* Built from the first character to the last.                             *)
LEMMA JoinExists ==
  ASSUME NEW text, NEW n \in Nat
  PROVE  \E f : f = [i \in 1..n |-> JoinedHere(text, f, i)]
  <1> DEFINE Good(m) == \E f : f = [i \in 1..m |-> JoinedHere(text, f, i)]
             G == {m \in Nat : Good(m)}
  <1>1. ASSUME NEW m \in Nat, \A k \in Nat : k < m => k \in G
        PROVE  m \in G
    <2>1. CASE m = 0
      <3>1. 1..m = {}
        BY <2>1
      <3> DEFINE f == [i \in {} |-> {}]
      <3>2. f = [i \in 1..m |-> JoinedHere(text, f, i)]
        BY <3>1
      <3> QED BY <3>2
    <2>2. CASE m # 0
      <3>1. m - 1 \in Nat /\ m - 1 < m
        BY <2>2
      <3>2. m - 1 \in G
        BY <1>1, <3>1
      <3>3. PICK f : f = [i \in 1..(m - 1) |-> JoinedHere(text, f, i)]
        BY <3>2
      <3> DEFINE g == [i \in 1..m |-> IF i = m THEN JoinedHere(text, f, m) ELSE f[i]]
      <3>4. \A i \in 1..m : i # 1 => i - 1 \in 1..(m - 1) /\ i - 1 # m /\ i - 1 \in 1..m
        OBVIOUS
      <3>5. \A i \in 1..(m - 1) : g[i] = f[i]
        OBVIOUS
      <3>6. ASSUME NEW i \in 1..m PROVE g[i] = JoinedHere(text, g, i)
        <4>1. JoinedHere(text, g, i) = JoinedHere(text, f, i)
          <5>1. CASE i = 1
            BY <5>1 DEF JoinedHere
          <5>2. CASE i # 1
            <6>1. PICK k : k = i - 1
              OBVIOUS
            <6>2. g[k] = f[k]
              BY <3>4, <3>5, <5>2, <6>1
            <6> HIDE DEF g
            <6> QED BY <5>2, <6>1, <6>2 DEF JoinedHere
          <5> QED BY <5>1, <5>2
        <4>2. CASE i = m
          <5>1. g[i] = JoinedHere(text, f, m)
            BY <4>2
          <5> QED BY <4>1, <4>2, <5>1
        <4>3. CASE i # m
          <5>1. i \in 1..(m - 1)
            BY <4>3
          <5>2. g[i] = f[i]
            BY <3>5, <5>1
          <5>3. f[i] = JoinedHere(text, f, i)
            BY <3>3, <5>1
          <5> QED BY <4>1, <5>2, <5>3
        <4> QED BY <4>2, <4>3
      <3>7. g = [i \in 1..m |-> JoinedHere(text, g, i)]
        <4>1. g = [i \in 1..m |-> g[i]]
          OBVIOUS
        <4> HIDE DEF g
        <4> QED BY <3>6, <4>1
      <3>8. Good(m)
        BY <3>7
      <3> QED BY <3>8
    <2> QED BY <2>1, <2>2
  <1>2. Nat \subseteq G
    <2> HIDE DEF G
    <2> QED BY <1>1, AllNumbers
  <1>3. n \in G
    BY <1>2
  <1> QED BY <1>3

Joined(text) == CHOOSE f : f = [i \in 1..Len(text) |-> JoinedHere(text, f, i)]

(* FlattenSeq takes the last of these.                                     *)
LEMMA JoinedEquation ==
  ASSUME NEW text, Len(text) \in Nat, Len(text) # 0
  PROVE  /\ FlattenSeq(text) = Joined(text)[Len(text)]
         /\ \A i \in 1..Len(text) : Joined(text)[i] = JoinedHere(text, Joined(text), i)
  <1>1. Joined(text) = [i \in 1..Len(text) |-> JoinedHere(text, Joined(text), i)]
    <2>1. \E f : f = [i \in 1..Len(text) |-> JoinedHere(text, f, i)]
      BY JoinExists
    <2> QED BY <2>1, Zenon DEF Joined
  <1>2. FlattenSeq(text) = Joined(text)[Len(text)]
    BY DEF FlattenSeq, Joined, JoinedHere
  <1>3. ASSUME NEW i \in 1..Len(text)
        PROVE  Joined(text)[i] = JoinedHere(text, Joined(text), i)
    <2>1. PICK f : f = Joined(text)
      OBVIOUS
    <2>2. f = [j \in 1..Len(text) |-> JoinedHere(text, f, j)]
      BY <1>1, <2>1, Zenon
    <2>3. f[i] = JoinedHere(text, f, i)
      BY <2>2, Zenon
    <2> QED BY <2>1, <2>3, Zenon
  <1> QED BY <1>2, <1>3

(* Text is decoded to the characters it is made of, and nothing is left.   *)
LEMMA TextIsDecoded ==
  ASSUME NEW n \in Nat, n # 0, NEW text \in [1..n -> Chars]
  PROVE  Decoded(FlattenSeq(text)) = [fed |-> text, pending |-> <<>>]
  <1> DEFINE J == Joined(text)
             Upto(i) == /\ J[i] \in Seq(Octet)
                        /\ Decoded(J[i]) = [fed |-> Decoded(J[i]).fed, pending |-> <<>>]
                        /\ Decoded(J[i]).fed \in Seq(Seq(Octet))
                        /\ Len(Decoded(J[i]).fed) = i
                        /\ \A j \in 1..i : Decoded(J[i]).fed[j] = text[j]
             G == {m \in Nat : m \in 1..n => Upto(m)}
  <1>1. Len(text) = n
    OBVIOUS
  <1>2. /\ FlattenSeq(text) = J[n]
        /\ \A i \in 1..n : J[i] = JoinedHere(text, J, i)
    BY <1>1, JoinedEquation
  <1>3. \A i \in 1..n : /\ text[i] \in Chars /\ text[i] \in Seq(Octet)
                        /\ Decoded(text[i]) = [fed |-> <<text[i]>>, pending |-> <<>>]
    BY OneCharacter
  <1>4. ASSUME NEW m \in Nat, \A k \in Nat : k < m => k \in G
        PROVE  m \in G
    <2> SUFFICES ASSUME m \in 1..n PROVE Upto(m)
      OBVIOUS
    <2>1. CASE m = 1
      <3>1. J[m] = text[m]
        BY <1>2, <2>1 DEF JoinedHere
      <3>2. Decoded(J[m]) = [fed |-> <<text[m]>>, pending |-> <<>>] /\ J[m] \in Seq(Octet)
        BY <1>3, <3>1
      <3>3. PICK c : c = text[m] /\ c \in Seq(Octet)
        BY <1>3
      <3>4. /\ <<c>> \in Seq(Seq(Octet)) /\ Len(<<c>>) = 1
            /\ \A j \in 1..1 : j = 1 /\ <<c>>[j] = c
        BY <3>3
      <3>5. Decoded(J[m]).fed = <<c>>
        BY <3>2, <3>3
      <3> HIDE DEF J
      <3> QED BY <2>1, <3>2, <3>3, <3>4, <3>5
    <2>2. CASE m # 1
      <3>1. PICK k : k = m - 1 /\ k \in Nat /\ k < m /\ k \in 1..n
        BY <2>2
      <3>2. k \in G
        BY <1>4, <3>1
      <3>3. Upto(k)
        BY <3>1, <3>2
      <3>4. PICK s, c, f : s = J[k] /\ c = text[m] /\ f = Decoded(s).fed
        OBVIOUS
      <3>5. /\ s \in Seq(Octet) /\ Decoded(s) = [fed |-> f, pending |-> <<>>]
            /\ f \in Seq(Seq(Octet)) /\ Len(f) = k
            /\ \A j \in 1..k : f[j] = text[j]
        BY <3>3, <3>4
      <3>6. c \in Seq(Octet) /\ Decoded(c) = [fed |-> <<c>>, pending |-> <<>>]
        BY <1>3, <3>4
      <3>7. J[m] = s \o c
        BY <1>2, <2>2, <3>1, <3>4 DEF JoinedHere
      <3>8. feed(<<>>, c) = [fed |-> <<c>>, pending |-> <<>>]
        BY <3>6, StartsOver
      <3>9. Decoded(s \o c) = [fed |-> f \o <<c>>, pending |-> <<>>]
        <4>1. Decoded(s \o c) = [fed |-> f \o feed(<<>>, c).fed,
                                 pending |-> feed(<<>>, c).pending]
          <5>1. Decoded(s).fed = f /\ Decoded(s).pending = <<>>
            BY <3>5
          <5> QED BY <3>5, <3>6, <5>1, Continue
        <4>2. feed(<<>>, c).fed = <<c>> /\ feed(<<>>, c).pending = <<>>
          BY <3>8
        <4> QED BY <4>1, <4>2, Zenon
      <3>10. PICK g : g = f \o <<c>>
        OBVIOUS
      <3>11. /\ g \in Seq(Seq(Octet)) /\ Len(g) = k + 1
             /\ \A j \in 1..(k + 1) : g[j] = IF j <= k THEN f[j] ELSE <<c>>[j - k]
        <4>1. <<c>> \in Seq(Seq(Octet)) /\ Len(<<c>>) = 1
          BY <3>6
        <4> QED BY <3>5, <3>10, <4>1, ConcatProperties
      <3>12. ASSUME NEW j \in 1..m PROVE g[j] = text[j]
        <4>1. CASE j <= k
          <5>1. j \in 1..k /\ j \in 1..(k + 1)
            BY <3>1, <4>1
          <5> QED BY <3>5, <3>11, <4>1, <5>1
        <4>2. CASE ~(j <= k)
          <5>1. j = m /\ j - k = 1 /\ j \in 1..(k + 1)
            BY <3>1, <4>2
          <5>2. g[j] = <<c>>[1]
            BY <3>11, <4>2, <5>1
          <5> QED BY <3>4, <5>1, <5>2
        <4> QED BY <4>1, <4>2
      <3>13. s \o c \in Seq(Octet)
        BY <3>5, <3>6, ConcatProperties
      <3>14. k + 1 = m
        BY <3>1
      <3>15. Decoded(J[m]).fed = g /\ Decoded(J[m]) = [fed |-> g, pending |-> <<>>]
        BY <3>7, <3>9, <3>10
      <3> HIDE DEF J
      <3> QED BY <3>7, <3>11, <3>12, <3>13, <3>14, <3>15
    <2> QED BY <2>1, <2>2
  <1>5. Nat \subseteq G
    <2> HIDE DEF G
    <2> QED BY <1>4, AllNumbers
  <1>6. n \in G /\ n \in 1..n
    BY <1>5
  <1>7. Upto(n)
    BY <1>6
  <1>8. Decoded(J[n]).fed = text
    <2>1. text \in Seq(Seq(Octet))
      <3>1. text \in [1..n -> Seq(Octet)]
        BY <1>3
      <3> QED BY <3>1
    <2>2. PICK f : f = Decoded(J[n]).fed
      OBVIOUS
    <2>3. f \in Seq(Seq(Octet)) /\ Len(f) = n /\ \A j \in 1..n : f[j] = text[j]
      BY <1>7, <2>2
    <2>4. f = text
      BY <1>1, <2>1, <2>3, SeqEqual
    <2> QED BY <2>2, <2>4
  <1> QED BY <1>2, <1>7, <1>8

(* Well-formed text arrives as it was sent, however it was cut.            *)
THEOREM TextAlwaysArrives == DecoderSpec => []TextArrives
  <1>1. CutsDoNotMatter => TextArrives
    <2> SUFFICES ASSUME CutsDoNotMatter, NEW n \in 1..Len(sent),
                        NEW text \in [1..n -> Chars], FlattenSeq(text) = sent
                 PROVE  fed = text /\ pending = <<>>
      BY DEF TextArrives
    <2>1. [fed |-> fed, pending |-> pending] = Decoded(sent)
      BY DEF CutsDoNotMatter
    <2>2. Decoded(sent) = [fed |-> text, pending |-> <<>>]
      <3>1. n \in Nat /\ n # 0
        OBVIOUS
      <3> QED BY <3>1, TextIsDecoded
    <2> QED BY <2>1, <2>2
  <1> QED BY <1>1, CutsNeverMatter, PTL

-----------------------------------------------------------------------------
(* Bytes that are no text.                                                 *)

(* Nothing is left of it.                                                  *)
Clean(s) == s \in Seq(Octet) /\ Decoded(s).pending = <<>>

(* Then what follows is decoded by itself.                                 *)
LEMMA CleanJoin ==
  ASSUME NEW s, NEW t, Clean(s), Clean(t)
  PROVE  /\ Clean(s \o t)
         /\ Decoded(s \o t).fed = Decoded(s).fed \o Decoded(t).fed
  <1>1. s \in Seq(Octet) /\ t \in Seq(Octet) /\ Decoded(s).pending = <<>>
    BY DEF Clean
  <1>2. feed(<<>>, t) = Decoded(t)
    BY <1>1, StartsOver
  <1>3. Decoded(s \o t) = [fed |-> Decoded(s).fed \o feed(<<>>, t).fed,
                           pending |-> feed(<<>>, t).pending]
    BY <1>1, Continue
  <1>4. s \o t \in Seq(Octet)
    BY <1>1, ConcatProperties
  <1>5. Decoded(t).pending = <<>>
    BY DEF Clean
  <1>6. Decoded(s \o t) = [fed |-> Decoded(s).fed \o Decoded(t).fed,
                           pending |-> Decoded(t).pending]
    BY <1>2, <1>3, Zenon
  <1>7. /\ Decoded(s \o t).fed = Decoded(s).fed \o Decoded(t).fed
        /\ Decoded(s \o t).pending = Decoded(t).pending
    <2>1. PICK u, v, w : u = Decoded(s \o t) /\ v = Decoded(s).fed \o Decoded(t).fed
                         /\ w = Decoded(t).pending
      OBVIOUS
    <2>2. u = [fed |-> v, pending |-> w]
      BY <1>6, <2>1, Zenon
    <2>3. u.fed = v /\ u.pending = w
      BY <2>2
    <2> QED BY <2>1, <2>3, Zenon
  <1> QED BY <1>4, <1>5, <1>7 DEF Clean

(* As many bytes as were announced are one character, whatever they are.   *)
LEMMA AnnouncedIsClean ==
  ASSUME NEW s \in Seq(Octet), s # <<>>, Announced(s[1]) = Len(s)
  PROVE  Clean(s)
  <1>1. Decoded(s) = [fed |-> <<Char(s, 0)>>, pending |-> <<>>]
    BY OneTurn
  <1> QED BY <1>1 DEF Clean

(* n times the letter A.                                                   *)
Plain(s, n) == s \in Seq(Octet) /\ Len(s) = n /\ \A i \in 1..n : s[i] = 65

LEMMA PlainJoin ==
  ASSUME NEW m \in Nat, NEW n \in Nat, NEW s, NEW t, NEW u,
         Plain(s, m), Plain(t, n), Plain(u, m + n)
  PROVE  s \o t = u
  <1>1. /\ s \in Seq(Octet) /\ Len(s) = m /\ \A i \in 1..m : s[i] = 65
        /\ t \in Seq(Octet) /\ Len(t) = n /\ \A i \in 1..n : t[i] = 65
        /\ u \in Seq(Octet) /\ Len(u) = m + n /\ \A i \in 1..(m + n) : u[i] = 65
    BY DEF Plain
  <1>2. PICK v : v = s \o t
    OBVIOUS
  <1>3. /\ v \in Seq(Octet) /\ Len(v) = m + n
        /\ \A i \in 1..(m + n) : v[i] = IF i <= m THEN s[i] ELSE t[i - m]
    <2>1. s \in Seq(Octet) /\ t \in Seq(Octet)
      BY <1>1
    <2>2. /\ s \o t \in Seq(Octet) /\ Len(s \o t) = Len(s) + Len(t)
          /\ \A i \in 1..(Len(s) + Len(t)) :
               (s \o t)[i] = IF i <= Len(s) THEN s[i] ELSE t[i - Len(s)]
      BY <2>1, ConcatProperties
    <2>3. Len(s) = m /\ Len(t) = n
      BY <1>1
    <2> QED BY <1>2, <2>2, <2>3
  <1>4. ASSUME NEW i \in 1..(m + n) PROVE v[i] = u[i]
    <2>1. IF i <= m THEN i \in 1..m ELSE i - m \in 1..n
      OBVIOUS
    <2> QED BY <1>1, <1>3, <2>1
  <1>5. v = u
    BY <1>1, <1>3, <1>4, SeqEqual
  <1> QED BY <1>2, <1>5

(* The parts of <<65, 65, 65>>.                                            *)
LEMMA PlainJoins ==
  /\ <<65>> \in Seq(Octet) /\ <<65, 65>> \in Seq(Octet) /\ <<65, 65, 65>> \in Seq(Octet)
  /\ <<65>> \o <<65>> = <<65, 65>>
  /\ <<65>> \o <<65, 65>> = <<65, 65, 65>> /\ <<65, 65>> \o <<65>> = <<65, 65, 65>>
  <1>1. PICK x, y, z : x = <<65>> /\ y = <<65, 65>> /\ z = <<65, 65, 65>>
    OBVIOUS
  <1>2. 65 \in Octet
    BY DEF Octet
  <1>3. Plain(x, 1) /\ Plain(y, 2) /\ Plain(z, 3)
    BY <1>1, <1>2 DEF Plain
  <1>4. 1 \in Nat /\ 2 \in Nat /\ 1 + 1 = 2 /\ 1 + 2 = 3 /\ 2 + 1 = 3
    OBVIOUS
  <1>5. x \o x = y
    BY <1>3, <1>4, PlainJoin
  <1>6. x \o y = z /\ y \o x = z
    BY <1>3, <1>4, PlainJoin
  <1>7. x \in Seq(Octet) /\ y \in Seq(Octet) /\ z \in Seq(Octet)
    BY <1>3 DEF Plain
  <1> QED BY <1>1, <1>5, <1>6, <1>7

(* Every byte of ASCII is a character.                                     *)
LEMMA PlainIsClean ==
  Clean(<<65>>) /\ Clean(<<65, 65>>) /\ Clean(<<65, 65, 65>>)
  <1>1. Clean(<<65>>)
    <2>1. 65 \in Octet /\ Announced(65) = 1
      BY DEF Octet, Announced, utf8_len
    <2>2. <<65>> \in Seq(Octet) /\ <<65>> # <<>> /\ <<65>>[1] = 65 /\ Len(<<65>>) = 1
      BY <2>1
    <2> QED BY <2>1, <2>2, AnnouncedIsClean
  <1>2. <<65>> \o <<65>> = <<65, 65>> /\ <<65, 65>> \o <<65>> = <<65, 65, 65>>
    BY PlainJoins
  <1>3. Clean(<<65>> \o <<65>>)
    BY <1>1, CleanJoin
  <1>4. Clean(<<65, 65>> \o <<65>>)
    BY <1>1, <1>2, <1>3, CleanJoin
  <1> QED BY <1>1, <1>2, <1>3, <1>4

(* What is kept is finished by what comes next, wherever it stopped.       *)
LEMMA ThreeAreEnough ==
  ASSUME NEW p \in Seq(Octet), Halts(p, 0)
  PROVE  Clean(p \o <<65, 65, 65>>)
  <1>1. CASE p = <<>>
    <2>1. p \o <<65, 65, 65>> = <<65, 65, 65>>
      BY <1>1
    <2> QED BY <2>1, PlainIsClean
  <1>2. CASE p # <<>>
    <2>1. PICK n, b : n = Len(p) /\ b = p[1]
      OBVIOUS
    <2>2. n \in Nat /\ n # 0 /\ b \in Octet /\ 1 \in 1..n
      BY <1>2, <2>1
    <2>3. utf8_len(b) \in 0..4 /\ utf8_len(b) > n /\ Announced(b) = utf8_len(b)
      <3>1. utf8_len(b) \in 0..4 /\ (utf8_len(b) # 0 => Announced(b) = utf8_len(b))
        BY <2>2, AnnouncedType
      <3>2. 0 + utf8_len(b) > n
        <4>1. 0 + 1 = 1
          OBVIOUS
        <4> QED BY <2>1, <2>2, <4>1 DEF Halts, Incomplete
      <3> QED BY <2>2, <3>1, <3>2
    <2>4. ASSUME NEW a \in Seq(Octet), n + Len(a) = Announced(b)
          PROVE  Clean(p \o a)
      <3>1. PICK s, m : s = p \o a /\ m = Len(a)
        OBVIOUS
      <3>2. /\ s \in Seq(Octet) /\ Len(s) = n + m /\ m \in Nat
            /\ \A i \in 1..(n + m) : s[i] = IF i <= n THEN p[i] ELSE a[i - n]
        BY <2>1, <3>1, ConcatProperties
      <3>3. 1 \in 1..(n + m) /\ 1 <= n /\ n + m # 0
        BY <2>2, <3>2
      <3>4. s[1] = b /\ s # <<>>
        BY <2>1, <3>2, <3>3
      <3> QED BY <2>4, <3>1, <3>2, <3>4, AnnouncedIsClean
    <2>5. /\ <<65>> \in Seq(Octet) /\ <<65, 65>> \in Seq(Octet)
          /\ <<65, 65, 65>> \in Seq(Octet)
      BY PlainJoins
    <2>6. CASE n + 1 = Announced(b)
      <3>1. Clean(p \o <<65>>)
        <4>1. Len(<<65>>) = 1
          OBVIOUS
        <4> QED BY <2>4, <2>5, <2>6, <4>1
      <3>2. Clean((p \o <<65>>) \o <<65, 65>>)
        BY <3>1, PlainIsClean, CleanJoin
      <3>3. (p \o <<65>>) \o <<65, 65>> = p \o (<<65>> \o <<65, 65>>)
        BY <2>5, Associative
      <3>4. <<65>> \o <<65, 65>> = <<65, 65, 65>>
        BY PlainJoins
      <3> QED BY <3>2, <3>3, <3>4
    <2>7. CASE n + 2 = Announced(b)
      <3>1. Clean(p \o <<65, 65>>)
        <4>1. Len(<<65, 65>>) = 2
          OBVIOUS
        <4> QED BY <2>4, <2>5, <2>7, <4>1
      <3>2. Clean((p \o <<65, 65>>) \o <<65>>)
        BY <3>1, PlainIsClean, CleanJoin
      <3>3. (p \o <<65, 65>>) \o <<65>> = p \o (<<65, 65>> \o <<65>>)
        BY <2>5, Associative
      <3>4. <<65, 65>> \o <<65>> = <<65, 65, 65>>
        BY PlainJoins
      <3> QED BY <3>2, <3>3, <3>4
    <2>8. CASE n + 3 = Announced(b)
      <3>1. Len(<<65, 65, 65>>) = 3
        OBVIOUS
      <3> QED BY <2>4, <2>5, <2>8, <3>1
    <2>9. n + 1 = Announced(b) \/ n + 2 = Announced(b) \/ n + 3 = Announced(b)
      BY <2>2, <2>3
    <2> QED BY <2>6, <2>7, <2>8, <2>9
  <1> QED BY <1>1, <1>2

(* After any output, three ASCII characters are enough to find the next    *)
(* character again.                                                        *)
THEOREM DamageStaysBounded == DecoderSpec => []DamageIsBounded
  <1>1. DecoderInv => DamageIsBounded
    <2> SUFFICES ASSUME DecoderInv, NEW c \in Chars
                 PROVE  LET r == feed(pending, <<65, 65, 65>> \o c)
                        IN  r.pending = <<>> /\ r.fed[Len(r.fed)] = c
      BY DEF DamageIsBounded
    <2>1. pending \in Seq(Octet) /\ Halts(pending, 0)
      <3>1. sent \in Seq(Octet) /\ [fed |-> fed, pending |-> pending] = Decoded(sent)
        BY DEF DecoderInv, CutsDoNotMatter
      <3>2. pending = Decoded(sent).pending
        BY <3>1
      <3> QED BY <3>1, <3>2, DecodedType
    <2>2. PICK s : s = pending \o <<65, 65, 65>> /\ Clean(s)
      BY <2>1, ThreeAreEnough
    <2>3. c \in Seq(Octet) /\ Decoded(c) = [fed |-> <<c>>, pending |-> <<>>]
      BY OneCharacter
    <2>4. Clean(c) /\ Decoded(c).fed = <<c>>
      BY <2>3 DEF Clean
    <2>5. PICK r, f : r = Decoded(s \o c) /\ f = Decoded(s).fed
      OBVIOUS
    <2>6. r.pending = <<>> /\ r.fed = f \o <<c>>
      <3>1. Clean(s \o c) /\ Decoded(s \o c).fed = Decoded(s).fed \o Decoded(c).fed
        BY <2>2, <2>4, CleanJoin
      <3> QED BY <2>4, <2>5, <3>1 DEF Clean
    <2>7. f \in Seq(Seq(Octet))
      BY <2>2, <2>5, DecodedType DEF Clean
    <2>8. r.fed[Len(r.fed)] = c
      <3>1. PICK n, g : n = Len(f) /\ g = f \o <<c>>
        OBVIOUS
      <3>2. <<c>> \in Seq(Seq(Octet)) /\ Len(<<c>>) = 1 /\ <<c>>[1] = c
        BY <2>3
      <3>3. /\ Len(g) = n + 1
            /\ \A i \in 1..(n + 1) : g[i] = IF i <= n THEN f[i] ELSE <<c>>[i - n]
        BY <2>7, <3>1, <3>2, ConcatProperties
      <3>4. n + 1 \in 1..(n + 1) /\ ~(n + 1 <= n) /\ (n + 1) - n = 1
        BY <2>7, <3>1
      <3>5. g[Len(g)] = c
        BY <3>2, <3>3, <3>4
      <3> QED BY <2>6, <3>1, <3>5
    <2>9. feed(pending, <<65, 65, 65>> \o c) = r
      <3>1. <<65, 65, 65>> \in Seq(Octet)
        BY PlainIsClean DEF Clean
      <3>2. (pending \o <<65, 65, 65>>) \o c = pending \o (<<65, 65, 65>> \o c)
        BY <2>1, <2>3, <3>1, Associative
      <3> QED BY <2>2, <2>5, <3>2 DEF feed
    <2> QED BY <2>6, <2>8, <2>9
  <1>2. DecoderSpec => []DecoderInv
    BY OutputIsDecoded
  <1> QED BY <1>1, <1>2, PTL

-----------------------------------------------------------------------------
(* What is fed is a character, or the replacement of one.                  *)

(* Characters of one to four bytes.                                        *)
LEMMA EncodedOne ==
  ASSUME NEW n \in Nat, n < 128
  PROVE  Encoded(n) = <<n>>
  BY SMT DEF Encoded

LEMMA EncodedTwo ==
  ASSUME NEW n \in Nat, NEW a, NEW b, n >= 128, n < 2048,
         a = 192 + (n \div 64), b = 128 + (n % 64)
  PROVE  Encoded(n) = <<a, b>>
  BY SMT DEF Encoded

LEMMA EncodedThree ==
  ASSUME NEW n \in Nat, NEW a, NEW b, NEW d, n >= 2048, n < 65536,
         a = 224 + (n \div 4096), b = 128 + ((n \div 64) % 64), d = 128 + (n % 64)
  PROVE  Encoded(n) = <<a, b, d>>
  BY SMT DEF Encoded

LEMMA EncodedFour ==
  ASSUME NEW n \in Nat, NEW a, NEW b, NEW d, NEW e, n >= 65536,
         a = 240 + (n \div 262144), b = 128 + ((n \div 4096) % 64),
         d = 128 + ((n \div 64) % 64), e = 128 + (n % 64)
  PROVE  Encoded(n) = <<a, b, d, e>>
  BY SMT DEF Encoded

(* What the lead bytes of well-formed sequences announce.                  *)
LEMMA Lengths ==
  ASSUME NEW a \in Nat
  PROVE  /\ a < 128 => utf8_len(a) = 1
         /\ a >= 128 /\ a <= 191 => utf8_len(a) = 0
         /\ a >= 194 /\ a <= 223 => utf8_len(a) = 2
         /\ a >= 224 /\ a <= 239 => utf8_len(a) = 3
         /\ a >= 240 /\ a <= 244 => utf8_len(a) = 4
  <1>1. a < 128 => utf8_len(a) = 1
    BY DEF utf8_len
  <1>2. a >= 128 /\ a <= 191 => utf8_len(a) = 0
    BY DEF utf8_len
  <1>3. a >= 194 /\ a <= 223 => utf8_len(a) = 2
    BY DEF utf8_len
  <1>4. a >= 224 /\ a <= 239 => utf8_len(a) = 3
    BY DEF utf8_len
  <1>5. a >= 240 /\ a <= 244 => utf8_len(a) = 4
    BY DEF utf8_len
  <1> QED BY <1>1, <1>2, <1>3, <1>4, <1>5

(* A sequence that std::str::from_utf8 accepts is the encoding of a        *)
(* character: never one of a surrogate, and never a longer one than it     *)
(* takes.                                                                  *)
LEMMA WellFormedIsEncoded ==
  ASSUME NEW c \in Seq(Octet), utf8_len(c[1]) > 0, Len(c) = utf8_len(c[1]),
         WellFormed(c)
  PROVE  \E n : Scalar(n) /\ c = Encoded(n)
  <1>1. PICK a, m : a = c[1] /\ m = Len(c)
    OBVIOUS
  <1>2. /\ m \in Nat /\ m = utf8_len(a) /\ m > 0
        /\ \A i \in 1..m : c[i] \in Octet
        /\ \A i \in 2..m : c[i] \in 128..191
        /\ a \notin {192, 193} /\ a <= 244
        /\ a = 224 => c[2] >= 160
        /\ a = 237 => c[2] < 160
        /\ a = 240 => c[2] >= 144
        /\ a = 244 => c[2] < 144
    BY <1>1 DEF WellFormed
  <1>3. a \in Int /\ a >= 0
    <2>1. 1 \in 1..m
      BY <1>2
    <2>2. a \in Octet
      BY <1>1, <1>2, <2>1
    <2> QED BY <2>2 DEF Octet
  <1>4. \/ m = 1 /\ a < 128
        \/ m = 2 /\ a >= 194 /\ a <= 223
        \/ m = 3 /\ a >= 224 /\ a <= 239
        \/ m = 4 /\ a >= 240 /\ a <= 244
    <2>1. m = utf8_len(a) /\ m > 0 /\ a # 192 /\ a # 193 /\ a <= 244
      BY <1>2
    <2>2. a \in Nat /\ a <= 244
      BY <1>3, <2>1
    <2>3. /\ a < 128 => utf8_len(a) = 1
          /\ a >= 128 /\ a <= 191 => utf8_len(a) = 0
          /\ a >= 194 /\ a <= 223 => utf8_len(a) = 2
          /\ a >= 224 /\ a <= 239 => utf8_len(a) = 3
          /\ a >= 240 /\ a <= 244 => utf8_len(a) = 4
      BY <2>2, Lengths
    <2> QED BY <2>1, <2>2, <2>3
  <1>5. CASE m = 1 /\ a < 128
    <2>1. c = <<a>>
      BY <1>1, <1>5
    <2>2. Scalar(a)
      BY <1>3, <1>5, SMT DEF Scalar
    <2>3. Encoded(a) = <<a>>
      <3>1. a \in Nat /\ a < 128
        BY <1>3, <1>5
      <3> QED BY <3>1, EncodedOne
    <2> QED BY <2>1, <2>2, <2>3
  <1>6. CASE m = 2 /\ a >= 194 /\ a <= 223
    <2>1. PICK b : b = c[2]
      OBVIOUS
    <2>2. c = <<a, b>>
      BY <1>1, <1>6, <2>1
    <2>3. b \in Int /\ b >= 128 /\ b <= 191
      <3>1. 2 \in 2..m
        BY <1>6
      <3>2. b \in 128..191
        BY <1>2, <2>1, <3>1
      <3> QED BY <3>2
    <2>4. PICK n : n = (a - 192) * 64 + (b - 128)
      OBVIOUS
    <2>5. n \in Int /\ n >= 128 /\ n < 2048 /\ a = 192 + (n \div 64) /\ b = 128 + (n % 64)
      BY <1>3, <1>6, <2>3, <2>4, SMT
    <2>6. Scalar(n)
      BY <2>5, SMT DEF Scalar
    <2>7. Encoded(n) = <<a, b>>
      BY <2>5, EncodedTwo, SMT
    <2> QED BY <2>2, <2>6, <2>7
  <1>7. CASE m = 3 /\ a >= 224 /\ a <= 239
    <2>1. PICK b, d : b = c[2] /\ d = c[3]
      OBVIOUS
    <2>2. c = <<a, b, d>>
      BY <1>1, <1>7, <2>1
    <2>3. /\ b \in Int /\ b >= 128 /\ b <= 191 /\ d \in Int /\ d >= 128 /\ d <= 191
          /\ a = 224 => b >= 160
          /\ a = 237 => b < 160
      <3>1. 2 \in 2..m /\ 3 \in 2..m
        BY <1>7
      <3>2. b \in 128..191 /\ d \in 128..191
        BY <1>2, <2>1, <3>1
      <3>3. (a = 224 => b >= 160) /\ (a = 237 => b < 160)
        BY <1>2, <2>1
      <3> QED BY <3>2, <3>3
    <2>4. PICK n : n = (a - 224) * 4096 + (b - 128) * 64 + (d - 128)
      OBVIOUS
    <2>5. /\ n \in Int /\ n >= 2048 /\ n < 65536 /\ (n < 55296 \/ n > 57343)
          /\ a = 224 + (n \div 4096) /\ b = 128 + ((n \div 64) % 64)
          /\ d = 128 + (n % 64)
      BY <1>3, <1>7, <2>3, <2>4, SMT
    <2>6. Scalar(n)
      BY <2>5, SMT DEF Scalar
    <2>7. Encoded(n) = <<a, b, d>>
      <3>1. /\ n \in Nat /\ n >= 2048 /\ n < 65536
            /\ a = 224 + (n \div 4096) /\ b = 128 + ((n \div 64) % 64)
            /\ d = 128 + (n % 64)
        BY <2>5, SMT
      <3> QED BY <3>1, EncodedThree, SMT
    <2> QED BY <2>2, <2>6, <2>7
  <1>8. CASE m = 4 /\ a >= 240 /\ a <= 244
    <2>1. PICK b, d, e : b = c[2] /\ d = c[3] /\ e = c[4]
      OBVIOUS
    <2>2. c = <<a, b, d, e>>
      BY <1>1, <1>8, <2>1
    <2>3. /\ b \in Int /\ b >= 128 /\ b <= 191 /\ d \in Int /\ d >= 128 /\ d <= 191
          /\ e \in Int /\ e >= 128 /\ e <= 191
          /\ a = 240 => b >= 144
          /\ a = 244 => b < 144
      <3>1. 2 \in 2..m /\ 3 \in 2..m /\ 4 \in 2..m
        BY <1>8
      <3>2. b \in 128..191 /\ d \in 128..191 /\ e \in 128..191
        BY <1>2, <2>1, <3>1
      <3>3. (a = 240 => b >= 144) /\ (a = 244 => b < 144)
        BY <1>2, <2>1
      <3> QED BY <3>2, <3>3
    <2>4. PICK n : n = (a - 240) * 262144 + (b - 128) * 4096 + (d - 128) * 64 + (e - 128)
      OBVIOUS
    <2>5. /\ n \in Int /\ n >= 65536 /\ n <= 1114111
          /\ a = 240 + (n \div 262144) /\ b = 128 + ((n \div 4096) % 64)
          /\ d = 128 + ((n \div 64) % 64) /\ e = 128 + (n % 64)
      BY <1>3, <1>8, <2>3, <2>4, SMT
    <2>6. Scalar(n)
      BY <2>5, SMT DEF Scalar
    <2>7. Encoded(n) = <<a, b, d, e>>
      <3>1. /\ n \in Nat /\ n >= 65536
            /\ a = 240 + (n \div 262144) /\ b = 128 + ((n \div 4096) % 64)
            /\ d = 128 + ((n \div 64) % 64) /\ e = 128 + (n % 64)
        BY <2>5, SMT
      <3> QED BY <3>1, EncodedFour, SMT
    <2> QED BY <2>2, <2>6, <2>7
  <1> QED BY <1>4, <1>5, <1>6, <1>7, <1>8

(* A character of Unicode, or U+FFFD.                                      *)
Valid(c) == c = REPLACEMENT \/ \E n : Scalar(n) /\ c = Encoded(n)

(* A turn of the loop gives one of these.                                  *)
LEMMA CharIsValid ==
  ASSUME NEW s \in Seq(Octet), ~Halts(s, 0)
  PROVE  Valid(Char(s, 0))
  <1>1. PICK a, c : a = Announced(s[1]) /\ c = SubSeq(s, 1, a)
    OBVIOUS
  <1>2. s[1] \in Octet /\ a \in 1..Len(s)
    <2>1. s[1] \in Octet /\ Announced(s[1]) \in 1..Len(s)
      BY Unfold
    <2> QED BY <1>1, <2>1
  <1>3. c \in Seq(Octet) /\ Len(c) = a /\ c[1] = s[1]
    <2>1. 1 \in Int /\ a \in Int /\ \A i \in 1..a : s[i] \in Octet
      BY <1>2
    <2>2. /\ SubSeq(s, 1, a) \in Seq(Octet)
          /\ Len(SubSeq(s, 1, a)) = IF 1 <= a THEN a - 1 + 1 ELSE 0
          /\ \A i \in 1..(a - 1 + 1) : SubSeq(s, 1, a)[i] = s[1 + i - 1]
      BY <2>1, SubSeqProperties
    <2>3. 1 <= a /\ a - 1 + 1 = a /\ 1 \in 1..(a - 1 + 1) /\ 1 + 1 - 1 = 1
      BY <1>2
    <2> QED BY <1>1, <2>2, <2>3
  <1>4. Char(s, 0) = IF utf8_len(s[1]) > 0 /\ WellFormed(c) THEN c ELSE REPLACEMENT
    <2>1. 0 + 1 = 1 /\ 0 + a = a
      BY <1>2
    <2> QED BY <1>1, <2>1 DEF Char
  <1>5. CASE utf8_len(s[1]) > 0 /\ WellFormed(c)
    <2>1. Len(c) = utf8_len(s[1])
      <3>1. utf8_len(s[1]) # 0
        BY <1>2, <1>5, AnnouncedType
      <3>2. Announced(s[1]) = utf8_len(s[1])
        BY <3>1 DEF Announced
      <3> QED BY <1>1, <1>3, <3>2
    <2>2. \E n : Scalar(n) /\ c = Encoded(n)
      BY <1>3, <1>5, <2>1, WellFormedIsEncoded
    <2> QED BY <1>4, <1>5, <2>2 DEF Valid
  <1>6. CASE ~(utf8_len(s[1]) > 0 /\ WellFormed(c))
    BY <1>4, <1>6 DEF Valid
  <1> QED BY <1>5, <1>6

(* And so do all turns.                                                    *)
LEMMA DecodedIsValid ==
  ASSUME NEW s \in Seq(Octet)
  PROVE  \A i \in 1..Len(Decoded(s).fed) : Valid(Decoded(s).fed[i])
  <1> DEFINE Fine(t) == \A i \in 1..Len(Decoded(t).fed) : Valid(Decoded(t).fed[i])
             G == {m \in Nat : \A t \in Seq(Octet) : Len(t) = m => Fine(t)}
  <1>1. ASSUME NEW m \in Nat, \A k \in Nat : k < m => k \in G
        PROVE  m \in G
    <2> SUFFICES ASSUME NEW t \in Seq(Octet), Len(t) = m PROVE Fine(t)
      OBVIOUS
    <2>1. CASE Halts(t, 0)
      <3>1. Decoded(t) = [fed |-> <<>>, pending |-> t]
        BY <2>1, Unfold
      <3>2. Decoded(t).fed = <<>> /\ Len(<<>>) = 0
        BY <3>1
      <3> QED BY <3>2
    <2>2. CASE ~Halts(t, 0)
      <3>1. PICK a, r, c : a = Announced(t[1]) /\ r = Rest(t, a) /\ c = Char(t, 0)
        OBVIOUS
      <3>2. /\ a \in 1..Len(t) /\ r \in Seq(Octet) /\ Len(r) = Len(t) - a
            /\ Decoded(t) = [fed |-> <<c>> \o Decoded(r).fed,
                             pending |-> Decoded(r).pending]
        BY <2>2, <3>1, Unfold
      <3>3. Len(r) \in Nat /\ Len(r) < m
        BY <3>2
      <3>4. Fine(r)
        BY <1>1, <3>2, <3>3
      <3>5. PICK f, g : f = Decoded(r).fed /\ g = <<c>> \o f
        OBVIOUS
      <3>6. Decoded(t).fed = g
        BY <3>2, <3>5
      <3>7. f \in Seq(Seq(Octet)) /\ c \in Seq(Octet) /\ Valid(c)
        BY <2>2, <3>1, <3>2, <3>5, DecodedType, CharType, CharIsValid
      <3>8. /\ Len(g) = 1 + Len(f) /\ Len(f) \in Nat
            /\ \A i \in 1..(1 + Len(f)) : g[i] = IF i <= 1 THEN <<c>>[i] ELSE f[i - 1]
        <4>1. <<c>> \in Seq(Seq(Octet)) /\ Len(<<c>>) = 1
          BY <3>7
        <4> QED BY <3>5, <3>7, <4>1, ConcatProperties
      <3>9. ASSUME NEW i \in 1..Len(g) PROVE Valid(g[i])
        <4>1. CASE i = 1
          <5>1. g[1] = <<c>>[1] /\ <<c>>[1] = c
            <6>1. 1 \in 1..(1 + Len(f)) /\ 1 <= 1
              BY <3>8
            <6> QED BY <3>8, <6>1
          <5> QED BY <3>7, <4>1, <5>1
        <4>2. CASE i # 1
          <5>1. i \in 1..(1 + Len(f)) /\ i - 1 \in 1..Len(f) /\ ~(i <= 1)
            BY <3>8, <4>2
          <5>2. g[i] = f[i - 1]
            BY <3>8, <5>1
          <5> QED BY <3>4, <3>5, <5>1, <5>2
        <4> QED BY <4>1, <4>2
      <3> QED BY <3>6, <3>9
    <2> QED BY <2>1, <2>2
  <1>2. Nat \subseteq G
    <2> HIDE DEF G
    <2> QED BY <1>1, AllNumbers
  <1>3. Len(s) \in G
    <2>1. Len(s) \in Nat
      OBVIOUS
    <2> QED BY <1>2, <2>1
  <1> QED BY <1>3

OnlyCharacters == \A i \in 1..Len(fed) : Valid(fed[i])

(* Whatever the remote side sends, the parser is only given characters     *)
(* that text can hold, in their one encoding, or U+FFFD.                   *)
THEOREM OnlyCharactersAreFed == DecoderSpec => []OnlyCharacters
  <1>1. DecoderInv => OnlyCharacters
    <2> SUFFICES ASSUME DecoderInv PROVE OnlyCharacters
      OBVIOUS
    <2>1. sent \in Seq(Octet) /\ [fed |-> fed, pending |-> pending] = Decoded(sent)
      BY DEF DecoderInv, CutsDoNotMatter
    <2>2. fed = Decoded(sent).fed
      BY <2>1
    <2> QED BY <2>1, <2>2, DecodedIsValid DEF OnlyCharacters
  <1> QED BY <1>1, OutputIsDecoded, PTL
===============================================================================
