----------------------------- MODULE BasicLemmas -----------------------------
(***************************************************************************)
(* What the proofs need to know about natural numbers and sequences: that  *)
(* a set of numbers has a least one, which stands in for induction, and    *)
(* which elements a list has after something was put in or taken out.      *)
(***************************************************************************)
EXTENDS LinkedLists, WellFoundedInduction, TLAPS

(* Every non-empty set of naturals has a least element.                    *)
LEMMA LeastNat ==
    ASSUME NEW T \in SUBSET Nat, T # {}
    PROVE  \E n \in T : \A m \in T : n <= m
  <1>. DEFINE R == OpToRel(<, Nat)
  <1>1. IsWellFoundedOn(R, Nat)
    BY Zenon, NatLessThanWellFounded
  <1>2. \A x, y \in Nat : y < x => <<y, x>> \in R
    BY Zenon DEF OpToRel
  <1>. HIDE DEF R
  <1>3. PICK n \in T : \A m \in T : ~(<<m, n>> \in R)
    BY Zenon, <1>1, WFMin
  <1>4. \A m \in T : n <= m
    <2>. TAKE m \in T
    <2>1. m \in Nat /\ n \in Nat
      BY Zenon
    <2>2. ~(m < n)
      BY Zenon, <1>2, <1>3, <2>1
    <2>. QED  BY <2>1, <2>2
  <1>. QED  BY Zenon, <1>4

(* Induction: a set that holds 0 and, with each number below a bound, the  *)
(* next one, holds all of them.                                            *)
LEMMA UpTo ==
    ASSUME NEW N \in Nat, NEW S, 0 \in S, \A n \in 0 .. N - 1 : n \in S => n + 1 \in S
    PROVE  0 .. N \subseteq S
  <1>. DEFINE T == {n \in 0 .. N : n \notin S}
  <1>1. SUFFICES ASSUME T # {} PROVE FALSE
    BY Zenon
  <1>2. PICK n \in T : \A m \in T : n <= m
    <2>1. T \in SUBSET Nat
      OBVIOUS
    <2>. HIDE DEF T
    <2>. QED  BY Zenon, <1>1, <2>1, LeastNat
  <1>3. n # 0 /\ n - 1 \in 0 .. N - 1
    OBVIOUS
  <1>4. n - 1 \in S
    BY <1>2, <1>3
  <1>5. (n - 1) + 1 \in S
    BY Zenon, <1>3, <1>4
  <1>. QED  BY <1>5

(* A function is defined by its first value and the step from each value   *)
(* to the next.                                                            *)
Steps(N, S) == [1 .. N -> [S -> S]]

Iterates(f, N, S, a, step) ==
    f \in [0 .. N -> S] /\ f[0] = a /\ \A i \in 1 .. N : f[i] = step[i][f[i - 1]]

LEMMA Recursion ==
    ASSUME NEW N \in Nat, NEW S, NEW a \in S, NEW step \in Steps(N, S)
    PROVE  \E f : Iterates(f, N, S, a, step)
  <1>. USE DEF Steps
  <1>. DEFINE Is(f, n) == /\ f \in [0 .. n -> S] /\ f[0] = a
                          /\ \A i \in 1 .. n : f[i] = step[i][f[i - 1]]
              T == {n \in 0 .. N : \E f : Is(f, n)}
  <1>1. 0 \in T
    <2>. DEFINE g == [i \in 0 .. 0 |-> a]
    <2>1. Is(g, 0) /\ 0 \in 0 .. N
      OBVIOUS
    <2>. HIDE DEF g
    <2>. QED  BY Zenon, <2>1
  <1>2. ASSUME NEW n \in 0 .. N - 1, n \in T PROVE n + 1 \in T
    <2>1. PICK f : Is(f, n)
      BY Zenon, <1>2
    <2>. DEFINE g == [i \in 0 .. n + 1 |-> IF i <= n THEN f[i] ELSE step[n + 1][f[n]]]
    <2>2. f[n] \in S /\ n + 1 \in 1 .. N
      BY <2>1
    <2>3. step[n + 1][f[n]] \in S
      BY Zenon, <2>2
    <2>4. g \in [0 .. n + 1 -> S] /\ g[0] = a
      BY <2>1, <2>3
    <2>5. ASSUME NEW i \in 1 .. n + 1 PROVE g[i] = step[i][g[i - 1]]
      <3>1. i - 1 \in 0 .. n /\ g[i - 1] = f[i - 1]
        OBVIOUS
      <3>2. CASE i <= n
        <4>1. g[i] = f[i] /\ f[i] = step[i][f[i - 1]]
          BY <2>1, <3>2
        <4>. QED  BY Zenon, <3>1, <4>1
      <3>3. CASE i = n + 1
        <4>1. g[i] = step[n + 1][f[n]] /\ i - 1 = n
          BY <3>3
        <4>. QED  BY Zenon, <3>1, <3>3, <4>1
      <3>. QED  BY <3>2, <3>3
    <2>. HIDE DEF g
    <2>6. Is(g, n + 1)
      BY Zenon, <2>4, <2>5
    <2>7. n + 1 \in 0 .. N
      OBVIOUS
    <2>. QED  BY Zenon, <2>6, <2>7
  <1>3. N \in T
    <2>. HIDE DEF T
    <2>1. 0 .. N \subseteq T
      BY Zenon, <1>1, <1>2, UpTo
    <2>. QED  BY <2>1
  <1>. QED  BY Zenon, <1>3 DEF Iterates

-----------------------------------------------------------------------------
LEMMA ConsElements ==
    ASSUME NEW S, NEW s \in Seq(S), NEW e \in S
    PROVE  /\ Cons(e, s) \in Seq(S)
           /\ Range(Cons(e, s)) = {e} \cup Range(s)
           /\ IsInjective(s) /\ e \notin Range(s) => IsInjective(Cons(e, s))
  <1>. DEFINE c == Cons(e, s)
  <1>1. c \in Seq(S) /\ Len(c) = Len(s) + 1 /\ c[1] = e
    BY DEF Cons
  <1>2. \A i \in 1 .. Len(s) : c[i + 1] = s[i]
    BY DEF Cons
  <1>3. \A i \in 2 .. Len(c) : c[i] = s[i - 1] /\ i - 1 \in 1 .. Len(s)
    <2>. TAKE i \in 2 .. Len(c)
    <2>1. i - 1 \in 1 .. Len(s) /\ (i - 1) + 1 = i
      BY <1>1
    <2>. QED  BY Zenon, <1>2, <2>1
  <1>4. DOMAIN c = 1 .. Len(c) /\ DOMAIN s = 1 .. Len(s)
    BY <1>1
  <1>. HIDE DEF c
  <1>5. Range(c) \subseteq {e} \cup Range(s)
    BY <1>1, <1>3, <1>4 DEF Range
  <1>6. e \in Range(c)
    BY <1>1, <1>4 DEF Range
  <1>7. Range(s) \subseteq Range(c)
    <2>. SUFFICES ASSUME NEW i \in 1 .. Len(s) PROVE s[i] \in Range(c)
      BY Zenon, <1>4 DEF Range
    <2>1. i + 1 \in 1 .. Len(c)
      BY <1>1
    <2>. QED  BY Zenon, <1>2, <1>4, <2>1 DEF Range
  <1>8. ASSUME IsInjective(s), e \notin Range(s) PROVE IsInjective(c)
    <2>. SUFFICES ASSUME NEW i \in 1 .. Len(c), NEW j \in 1 .. Len(c), c[i] = c[j] PROVE i = j
      BY Zenon, <1>4 DEF IsInjective
    <2>1. \A k \in 2 .. Len(c) : c[k] # e
      BY Zenon, <1>3, <1>4, <1>8 DEF Range
    <2>2. CASE i = 1 \/ j = 1
      BY <1>1, <2>1, <2>2
    <2>3. CASE i # 1 /\ j # 1
      <3>1. i \in 2 .. Len(c) /\ j \in 2 .. Len(c)
        BY <2>3, <1>1
      <3>2. s[i - 1] = s[j - 1] /\ i - 1 \in DOMAIN s /\ j - 1 \in DOMAIN s
        BY Zenon, <1>3, <1>4, <3>1
      <3>3. i - 1 = j - 1
        BY Zenon, <1>8, <3>2 DEF IsInjective
      <3>. QED  BY <3>3
    <2>. QED  BY Zenon, <2>2, <2>3
  <1>. QED  BY Zenon, <1>1, <1>5, <1>6, <1>7, <1>8 DEF c

LEMMA TailElements ==
    ASSUME NEW S, NEW s \in Seq(S), s # << >>
    PROVE  /\ Head(s) \in S /\ Tail(s) \in Seq(S)
           /\ Range(s) = {Head(s)} \cup Range(Tail(s))
           /\ IsInjective(s) => IsInjective(Tail(s)) /\ Head(s) \notin Range(Tail(s))
  <1>. DEFINE t == Tail(s)
  <1>1. t \in Seq(S) /\ Len(s) # 0 /\ Len(t) = Len(s) - 1 /\ Head(s) = s[1] /\ Head(s) \in S
    OBVIOUS
  <1>2. \A i \in 1 .. Len(t) : t[i] = s[i + 1] /\ i + 1 \in 1 .. Len(s)
    BY <1>1
  <1>3. DOMAIN t = 1 .. Len(t) /\ DOMAIN s = 1 .. Len(s)
    BY <1>1
  <1>. HIDE DEF t
  <1>4. Range(t) \subseteq Range(s) /\ s[1] \in Range(s)
    <2>1. 1 \in 1 .. Len(s)
      BY <1>1
    <2>. QED  BY ZenonT(40), <1>2, <1>3, <2>1 DEF Range
  <1>5. Range(s) \subseteq {s[1]} \cup Range(t)
    <2>. SUFFICES ASSUME NEW i \in 1 .. Len(s), i # 1 PROVE s[i] \in Range(t)
      BY Zenon, <1>3 DEF Range
    <2>1. i - 1 \in 1 .. Len(t) /\ (i - 1) + 1 = i
      BY <1>1
    <2>. QED  BY Zenon, <1>2, <1>3, <2>1 DEF Range
  <1>6. ASSUME IsInjective(s) PROVE IsInjective(t) /\ s[1] \notin Range(t)
    <2>1. \A i, j \in 1 .. Len(s) : s[i] = s[j] => i = j
      BY Zenon, <1>3, <1>6 DEF IsInjective
    <2>2. \A i, j \in 1 .. Len(t) : t[i] = t[j] => i = j
      <3>. SUFFICES ASSUME NEW i \in 1 .. Len(t), NEW j \in 1 .. Len(t), t[i] = t[j] PROVE i = j
        BY Zenon
      <3>1. i + 1 = j + 1
        BY Zenon, <1>2, <2>1
      <3>. QED  BY <3>1
    <2>3. \A i \in 1 .. Len(t) : t[i] # s[1]
      <3>. TAKE i \in 1 .. Len(t)
      <3>1. i + 1 # 1 /\ 1 \in 1 .. Len(s)
        BY <1>1
      <3>. QED  BY Zenon, <1>2, <2>1, <3>1
    <2>. QED  BY Zenon, <1>3, <2>2, <2>3 DEF IsInjective, Range
  <1>. QED  BY Zenon, <1>1, <1>4, <1>5, <1>6 DEF t

LEMMA RemoveAtElements ==
    ASSUME NEW S, NEW s \in Seq(S), NEW k \in 1 .. Len(s)
    PROVE  /\ RemoveAt(s, k) \in Seq(S)
           /\ Range(RemoveAt(s, k)) \subseteq Range(s)
           /\ Range(s) \subseteq Range(RemoveAt(s, k)) \cup {s[k]}
           /\ IsInjective(s) =>
                 IsInjective(RemoveAt(s, k)) /\ s[k] \notin Range(RemoveAt(s, k))
  <1>. DEFINE a == SubSeq(s, 1, k - 1)
              b == SubSeq(s, k + 1, Len(s))
              r == RemoveAt(s, k)
              At(i) == IF i < k THEN i ELSE i + 1
  <1>1. /\ a \in Seq(S) /\ Len(a) = k - 1 /\ \A i \in 1 .. k - 1 : a[i] = s[i]
        /\ b \in Seq(S) /\ Len(b) = Len(s) - k /\ \A i \in 1 .. Len(s) - k : b[i] = s[k + i]
    OBVIOUS
  <1>2. r = a \o b
    BY Zenon DEF RemoveAt
  <1>. HIDE DEF a, b, r
  <1>3. r \in Seq(S) /\ Len(r) = Len(s) - 1
    BY <1>1, <1>2
  <1>4. \A i \in 1 .. Len(r) : r[i] = s[At(i)] /\ At(i) \in 1 .. Len(s) /\ At(i) # k
    <2>. TAKE i \in 1 .. Len(r)
    <2>1. CASE i < k
      <3>1. i \in 1 .. Len(a)
        BY <1>1, <2>1
      <3>. QED  BY <1>1, <1>2, <1>3, <2>1, <3>1
    <2>2. CASE ~(i < k)
      <3>1. i - Len(a) \in 1 .. Len(s) - k /\ k + (i - Len(a)) = i + 1 /\ ~(i <= Len(a))
        BY <1>1, <1>3, <2>2
      <3>2. r[i] = b[i - Len(a)]
        BY <1>1, <1>2, <3>1
      <3>. QED  BY <1>1, <1>3, <2>2, <3>1, <3>2
    <2>. QED  BY Zenon, <2>1, <2>2
  <1>5. DOMAIN r = 1 .. Len(r) /\ DOMAIN s = 1 .. Len(s)
    BY <1>3
  <1>6. Range(r) \subseteq Range(s)
    BY Zenon, <1>4, <1>5 DEF Range
  <1>7. ASSUME NEW j \in 1 .. Len(s), j # k PROVE s[j] \in Range(r)
    <2>1. PICK i \in 1 .. Len(r) : At(i) = j
      <3>1. CASE j < k
        <4>1. j \in 1 .. Len(r) /\ At(j) = j
          BY <1>3, <3>1
        <4>. QED  BY Zenon, <4>1
      <3>2. CASE ~(j < k)
        <4>1. j - 1 \in 1 .. Len(r) /\ At(j - 1) = j
          BY <1>3, <1>7, <3>2
        <4>. QED  BY Zenon, <4>1
      <3>. QED  BY Zenon, <3>1, <3>2
    <2>. QED  BY Zenon, <1>4, <1>5, <2>1 DEF Range
  <1>8. ASSUME IsInjective(s) PROVE IsInjective(r) /\ s[k] \notin Range(r)
    <2>1. \A i, j \in 1 .. Len(s) : s[i] = s[j] => i = j
      BY Zenon, <1>5, <1>8 DEF IsInjective
    <2>2. \A i, j \in 1 .. Len(r) : r[i] = r[j] => i = j
      <3>. SUFFICES ASSUME NEW i \in 1 .. Len(r), NEW j \in 1 .. Len(r), r[i] = r[j] PROVE i = j
        BY Zenon
      <3>1. At(i) = At(j)
        <4>. HIDE DEF At
        <4>. QED  BY <1>4, <2>1
      <3>. QED  BY <1>3, <3>1
    <2>3. \A i \in 1 .. Len(r) : r[i] # s[k]
      <3>. HIDE DEF At
      <3>. QED  BY Zenon, <1>4, <2>1
    <2>. QED  BY Zenon, <1>5, <2>2, <2>3 DEF IsInjective, Range
  <1>9. Range(s) \subseteq Range(r) \cup {s[k]}
    BY Zenon, <1>5, <1>7 DEF Range
  <1>. QED  BY Zenon, <1>3, <1>6, <1>8, <1>9 DEF r

LEMMA RemoveFirstElements ==
    ASSUME NEW S, NEW s \in Seq(S), NEW e \in S
    PROVE  /\ RemoveFirst(s, e) \in Seq(S)
           /\ Range(RemoveFirst(s, e)) \subseteq Range(s)
           /\ Range(s) \subseteq Range(RemoveFirst(s, e)) \cup {e}
  <1>1. CASE ~Contains(s, e)
    BY Zenon, <1>1 DEF RemoveFirst
  <1>2. CASE Contains(s, e)
    <2>. DEFINE T == {i \in 1 .. Len(s) : s[i] = e}
    <2>1. T \in SUBSET Nat /\ T # {}
      BY <1>2 DEF Contains, Range
    <2>2. PICK i \in T : \A j \in T : i <= j
      <3>. HIDE DEF T
      <3>. QED  BY Zenon, <2>1, LeastNat
    <2>3. i \in DOMAIN s /\ s[i] = e /\ \A j \in 1 .. i - 1 : s[j] # e
      BY <2>2
    <2>4. PICK k \in 1 .. Len(s) : s[k] = e /\ RemoveFirst(s, e) = RemoveAt(s, k)
      BY <1>2, <2>3 DEF RemoveFirst
    <2>. QED  BY <2>4, RemoveAtElements
  <1>. QED  BY Zenon, <1>1, <1>2

-----------------------------------------------------------------------------
(* The cells of q are linked in this order, and no other cell is.          *)
Linked(C, z, q, h, t, n) ==
    /\ q \in Seq(C) /\ IsInjective(q) /\ z \notin C
    /\ n \in [C -> C \cup {z}]
    /\ IF q = << >> THEN h = z /\ t = z ELSE h = q[1] /\ t = q[Len(q)]
    /\ \A i \in 1 .. Len(q) : n[q[i]] = IF i = Len(q) THEN z ELSE q[i + 1]
    /\ \A m \in C \ Range(q) : n[m] = z

From(q, i) == SubSeq(q, i, Len(q))

LEMMA ConsAt ==
    ASSUME NEW S, NEW s \in Seq(S), NEW e \in S
    PROVE  /\ Cons(e, s) \in Seq(S) /\ Len(Cons(e, s)) = Len(s) + 1 /\ Cons(e, s)[1] = e
           /\ \A i \in 2 .. Len(s) + 1 : Cons(e, s)[i] = s[i - 1]
  <1>. DEFINE c == Cons(e, s)
  <1>1. c \in Seq(S) /\ Len(c) = Len(s) + 1 /\ c[1] = e
    BY DEF Cons
  <1>2. \A i \in 1 .. Len(s) : c[i + 1] = s[i]
    BY DEF Cons
  <1>3. \A i \in 2 .. Len(s) + 1 : c[i] = s[i - 1]
    <2>. TAKE i \in 2 .. Len(s) + 1
    <2>1. i - 1 \in 1 .. Len(s) /\ (i - 1) + 1 = i
      OBVIOUS
    <2>. QED  BY Zenon, <1>2, <2>1
  <1>. QED  BY Zenon, <1>1, <1>3

LEMMA SameSequence ==
    ASSUME NEW S, NEW s \in Seq(S), NEW t \in Seq(S), Len(s) = Len(t),
           \A i \in 1 .. Len(s) : s[i] = t[i]
    PROVE  s = t
  <1>1. s \in [1 .. Len(s) -> S] /\ t \in [1 .. Len(s) -> S]
    OBVIOUS
  <1>. QED  BY <1>1

LEMMA FromSteps ==
    ASSUME NEW S, NEW q \in Seq(S)
    PROVE  /\ From(q, 1) = q /\ From(q, Len(q) + 1) = << >>
           /\ \A i \in 1 .. Len(q) : From(q, i) = Cons(q[i], From(q, i + 1))
  <1>1. From(q, 1) = q /\ From(q, Len(q) + 1) = << >>
    BY DEF From
  <1>2. ASSUME NEW i \in 1 .. Len(q) PROVE From(q, i) = Cons(q[i], From(q, i + 1))
    <2>. DEFINE a == From(q, i)
                b == From(q, i + 1)
                c == Cons(q[i], b)
    <2>1. a \in Seq(S) /\ Len(a) = Len(q) - i + 1 /\ \A j \in 1 .. Len(a) : a[j] = q[i + j - 1]
      BY DEF From
    <2>2. b \in Seq(S) /\ Len(b) = Len(q) - i /\ \A j \in 1 .. Len(b) : b[j] = q[i + j]
      BY DEF From
    <2>. HIDE DEF a, b
    <2>3. q[i] \in S /\ b \in Seq(S)
      BY <2>2
    <2>4. /\ c \in Seq(S) /\ Len(c) = Len(b) + 1 /\ c[1] = q[i]
          /\ \A j \in 2 .. Len(b) + 1 : c[j] = b[j - 1]
      <3>1. \A x \in S : /\ Cons(x, b) \in Seq(S) /\ Len(Cons(x, b)) = Len(b) + 1 /\ Cons(x, b)[1] = x
                         /\ \A j \in 2 .. Len(b) + 1 : Cons(x, b)[j] = b[j - 1]
        BY <2>3, ConsAt
      <3>. QED  BY Zenon, <2>3, <3>1
    <2>. HIDE DEF c
    <2>5. \A j \in 1 .. Len(a) : a[j] = c[j]
      <3>. TAKE j \in 1 .. Len(a)
      <3>1. a[j] = q[i + j - 1] /\ Len(q) \in Nat
        BY <2>1
      <3>2. CASE j = 1
        BY <2>4, <3>1, <3>2
      <3>3. CASE j # 1
        <4>1. j - 1 \in 1 .. Len(b) /\ j \in 2 .. Len(b) + 1
          BY <2>1, <2>2, <3>1, <3>3
        <4>2. c[j] = b[j - 1] /\ b[j - 1] = q[i + (j - 1)] /\ i + (j - 1) = i + j - 1
          BY Zenon, <2>2, <2>4, <4>1
        <4>. QED  BY Zenon, <3>1, <4>2
      <3>. QED  BY Zenon, <3>2, <3>3
    <2>6. Len(a) = Len(c)
      BY Zenon, <2>1, <2>2, <2>4
    <2>7. a = c
      BY ZenonT(40), <2>1, <2>4, <2>5, <2>6, SameSequence
    <2>. QED  BY Zenon, <2>7 DEF a, b, c
  <1>. QED  BY Zenon, <1>1, <1>2

(* The walk from the head over the next pointers yields just the list.     *)
LEMMA ChainIs ==
    ASSUME NEW C, NEW z, NEW q, NEW h, NEW t, NEW n, Linked(C, z, q, h, t, n)
    PROVE  Chain(C, z, h, n) = q
  <1>. DEFINE S == C \cup {z}
              Walks(f) == f = [c \in S |-> IF c = z THEN << >> ELSE Cons(c, f[n[c]])]
              At(c) == CHOOSE i \in 1 .. Len(q) : q[i] = c
              g == [c \in S |-> IF c = z THEN << >>
                                ELSE IF c \in Range(q) THEN From(q, At(c)) ELSE Cons(c, << >>)]
  <1>1. q \in Seq(C) /\ z \notin C
    BY Zenon, ZenonT(40) DEF Linked
  <1>2. \A i \in 1 .. Len(q) : At(q[i]) = i /\ q[i] \in Range(q) /\ q[i] \in C
    BY <1>1 DEF Linked, IsInjective, Range
  <1>3. \A i \in 1 .. Len(q) : g[q[i]] = From(q, i)
    <2>. HIDE DEF At
    <2>. QED  BY Zenon, <1>1, <1>2
  <1>4. g[z] = << >>
    BY Zenon
  <1>5. ASSUME NEW c \in C PROVE g[c] = Cons(c, g[n[c]])
    <2>1. CASE c \in Range(q)
      <3>1. PICK i \in 1 .. Len(q) : q[i] = c
        BY <1>1, <2>1 DEF Range
      <3>2. g[c] = Cons(c, From(q, i + 1))
        <4>. HIDE DEF g
        <4>. QED  BY Zenon, ZenonT(40), <1>1, <1>3, <3>1, FromSteps
      <3>3. CASE i = Len(q)
        <4>1. n[c] = z
          BY Zenon, ZenonT(40), <3>1, <3>3 DEF Linked
        <4>. HIDE DEF g
        <4>. QED  BY Zenon, <1>1, <1>4, <3>2, <3>3, <4>1, FromSteps
      <3>4. CASE i # Len(q)
        <4>1. n[c] = q[i + 1] /\ i + 1 \in 1 .. Len(q)
          BY <1>1, <3>1, <3>4 DEF Linked
        <4>. HIDE DEF g
        <4>. QED  BY ZenonT(40), <1>3, <3>2, <4>1
      <3>. QED  BY Zenon, <3>3, <3>4
    <2>2. CASE c \notin Range(q)
      <3>1. n[c] = z
        BY Zenon, ZenonT(40), <2>2 DEF Linked
      <3>2. g[c] = Cons(c, << >>)
        BY Zenon, <1>1, <2>2
      <3>. HIDE DEF g
      <3>. QED  BY Zenon, <1>4, <3>1, <3>2
    <2>. QED  BY Zenon, <2>1, <2>2
  <1>6. Walks(g)
    <2>1. \A c \in S : g[c] = IF c = z THEN << >> ELSE Cons(c, g[n[c]])
      <3>. HIDE DEF g
      <3>. QED  BY Zenon, <1>4, <1>5
    <2>2. g = [c \in S |-> g[c]]
      OBVIOUS
    <2>. HIDE DEF g
    <2>. QED  BY Zenon, ZenonT(40), <2>1, <2>2
  <1>7. Chain(C, z, h, n) = (CHOOSE f : Walks(f))[h]
    BY Zenon, ZenonT(40) DEF Chain
  <1>8. PICK f : Walks(f) /\ Chain(C, z, h, n) = f[h]
    <2>. HIDE DEF g, Walks
    <2>. QED  BY Zenon, <1>6, <1>7
  <1>9. f[z] = << >> /\ \A c \in C : f[c] = Cons(c, f[n[c]])
    BY Zenon, ZenonT(40), <1>1, <1>8
  <1>. HIDE DEF Walks
  <1>. DEFINE Cell(i) == IF i = Len(q) + 1 THEN z ELSE q[i]
              T == {k \in 0 .. Len(q) : f[Cell(Len(q) + 1 - k)] = From(q, Len(q) + 1 - k)}
  <1>10. 0 \in T
    BY <1>1, <1>9, FromSteps
  <1>11. ASSUME NEW k \in 0 .. Len(q) - 1, k \in T PROVE k + 1 \in T
    <2>. DEFINE i == Len(q) - k
    <2>1. i \in 1 .. Len(q) /\ Len(q) + 1 - k = i + 1 /\ Len(q) + 1 - (k + 1) = i /\ i # Len(q) + 1
      BY <1>1
    <2>2. f[Cell(i + 1)] = From(q, i + 1)
      BY Zenon, <1>11, <2>1
    <2>3. n[q[i]] = Cell(i + 1)
      BY <1>1, <2>1 DEF Linked
    <2>4. f[q[i]] = Cons(q[i], f[n[q[i]]])
      BY Zenon, ZenonT(40), <1>2, <1>9, <2>1
    <2>5. f[q[i]] = From(q, i)
      <3>. HIDE DEF i, Cell
      <3>. QED  BY <1>1, <2>1, <2>2, <2>3, <2>4, FromSteps
    <2>6. Cell(i) = q[i]
      BY Zenon, <2>1
    <2>7. k + 1 \in 0 .. Len(q)
      BY <1>1
    <2>. HIDE DEF i, Cell
    <2>. QED  BY Zenon, <2>1, <2>5, <2>6, <2>7
  <1>12. Len(q) \in T
    <2>. HIDE DEF T
    <2>1. Len(q) \in Nat
      BY <1>1
    <2>2. 0 .. Len(q) \subseteq T
      BY Zenon, ZenonT(40), <1>10, <1>11, <2>1, UpTo
    <2>. QED  BY <2>1, <2>2
  <1>13. f[Cell(1)] = q
    <2>1. Len(q) + 1 - Len(q) = 1
      BY <1>1
    <2>. QED  BY Zenon, <1>1, <1>12, <2>1, FromSteps
  <1>14. Cell(1) = h
    BY <1>1 DEF Linked
  <1>. QED  BY Zenon, <1>8, <1>13, <1>14

(* r is s with e in place k.                                               *)
Inserted(s, k, e, r) ==
    /\ Len(r) = Len(s) + 1 /\ r[k] = e
    /\ \A i \in 1 .. k - 1 : r[i] = s[i]
    /\ \A i \in k + 1 .. Len(s) + 1 : r[i] = s[i - 1]
    /\ Range(r) = Range(s) \cup {e}
    /\ IsInjective(s) /\ e \notin Range(s) => IsInjective(r)

LEMMA InsertAtElements ==
    ASSUME NEW S, NEW s \in Seq(S), NEW e \in S, NEW k \in 1 .. Len(s) + 1
    PROVE  InsertAt(s, k, e) \in Seq(S) /\ Inserted(s, k, e, InsertAt(s, k, e))
  <1>. DEFINE a == SubSeq(s, 1, k - 1)
              b == SubSeq(s, k, Len(s))
              c == Append(a, e)
              r == InsertAt(s, k, e)
  <1>1. /\ a \in Seq(S) /\ Len(a) = k - 1 /\ \A i \in 1 .. k - 1 : a[i] = s[i]
        /\ b \in Seq(S) /\ Len(b) = Len(s) - k + 1 /\ \A i \in 1 .. Len(b) : b[i] = s[k + i - 1]
    OBVIOUS
  <1>2. r = c \o b
    BY Zenon DEF InsertAt
  <1>. HIDE DEF a, b, r
  <1>3. c \in Seq(S) /\ Len(c) = k /\ c[k] = e /\ \A i \in 1 .. k - 1 : c[i] = s[i]
    BY <1>1
  <1>. HIDE DEF c
  <1>4. r \in Seq(S) /\ Len(r) = Len(s) + 1
    <2>1. b \in Seq(S) /\ c \in Seq(S)
      BY Zenon, <1>1, <1>3
    <2>2. r \in Seq(S) /\ Len(r) = Len(c) + Len(b)
      BY <1>2, <2>1
    <2>. QED  BY <1>1, <1>3, <2>2
  <1>5. \A i \in 1 .. k : r[i] = c[i]
    BY <1>1, <1>2, <1>3
  <1>6. r[k] = e /\ \A i \in 1 .. k - 1 : r[i] = s[i]
    BY <1>3, <1>5
  <1>7. \A i \in k + 1 .. Len(s) + 1 : r[i] = s[i - 1]
    <2>. TAKE i \in k + 1 .. Len(s) + 1
    <2>1. i - k \in 1 .. Len(b) /\ k + (i - k) - 1 = i - 1 /\ ~(i <= Len(c)) /\ i - Len(c) = i - k
      BY <1>1, <1>3
    <2>2. r[i] = b[i - k]
      BY <1>1, <1>2, <1>3, <2>1
    <2>. QED  BY Zenon, <1>1, <2>1, <2>2
  <1>8. DOMAIN r = 1 .. Len(s) + 1 /\ DOMAIN s = 1 .. Len(s)
    BY <1>4
  <1>9. Range(r) \subseteq Range(s) \cup {e}
    <2>. SUFFICES ASSUME NEW i \in 1 .. Len(s) + 1 PROVE r[i] \in Range(s) \cup {e}
      BY Zenon, <1>8 DEF Range
    <2>1. CASE i < k
      BY <1>6, <1>8, <2>1 DEF Range
    <2>2. CASE i = k
      BY Zenon, <1>6, <2>2
    <2>3. CASE i > k
      <3>1. i \in k + 1 .. Len(s) + 1 /\ i - 1 \in 1 .. Len(s)
        BY <2>3
      <3>. QED  BY Zenon, <1>7, <1>8, <3>1 DEF Range
    <2>. QED  BY <2>1, <2>2, <2>3
  <1>10. Range(s) \cup {e} \subseteq Range(r)
    <2>1. e \in Range(r)
      BY Zenon, <1>6, <1>8 DEF Range
    <2>2. ASSUME NEW j \in 1 .. Len(s) PROVE s[j] \in Range(r)
      <3>1. CASE j < k
        BY <1>6, <1>8, <3>1 DEF Range
      <3>2. CASE ~(j < k)
        <4>1. j + 1 \in k + 1 .. Len(s) + 1 /\ (j + 1) - 1 = j /\ j + 1 \in 1 .. Len(s) + 1
          BY <3>2
        <4>. QED  BY Zenon, <1>7, <1>8, <4>1 DEF Range
      <3>. QED  BY Zenon, ZenonT(40), <3>1, <3>2
    <2>. QED  BY Zenon, ZenonT(40), <1>8, <2>1, <2>2 DEF Range
  <1>11. ASSUME IsInjective(s), e \notin Range(s) PROVE IsInjective(r)
    <2>. DEFINE At(i) == IF i < k THEN i ELSE i - 1
    <2>1. \A i \in 1 .. Len(s) + 1 : i # k => r[i] = s[At(i)] /\ At(i) \in 1 .. Len(s)
      <3>. SUFFICES ASSUME NEW i \in 1 .. Len(s) + 1, i # k
                    PROVE  r[i] = s[At(i)] /\ At(i) \in 1 .. Len(s)
        BY Zenon, ZenonT(40)
      <3>1. CASE i < k
        BY <1>6, <3>1
      <3>2. CASE ~(i < k)
        BY <1>7, <3>2
      <3>. QED  BY Zenon, <3>1, <3>2
    <2>2. \A i, j \in 1 .. Len(s) : s[i] = s[j] => i = j
      BY Zenon, <1>8, <1>11 DEF IsInjective
    <2>3. \A i \in 1 .. Len(s) : s[i] # e
      BY Zenon, ZenonT(40), <1>8, <1>11 DEF Range
    <2>4. \A i, j \in 1 .. Len(s) + 1 : r[i] = r[j] => i = j
      <3>. SUFFICES ASSUME NEW i \in 1 .. Len(s) + 1, NEW j \in 1 .. Len(s) + 1, r[i] = r[j]
                    PROVE  i = j
        BY Zenon
      <3>1. CASE i = k \/ j = k
        <4>. HIDE DEF At
        <4>. QED  BY Zenon, ZenonT(40), <1>6, <2>1, <2>3, <3>1
      <3>2. CASE i # k /\ j # k
        <4>1. At(i) = At(j)
          <5>. HIDE DEF At
          <5>. QED  BY ZenonT(40), ZenonT(40), <2>1, <2>2, <3>2
        <4>. QED  BY <3>2, <4>1
      <3>. QED  BY Zenon, <3>1, <3>2
    <2>. QED  BY Zenon, ZenonT(40), <1>8, <2>4 DEF IsInjective
  <1>12. r \in Seq(S) /\ Inserted(s, k, e, r)
    BY Zenon, <1>4, <1>6, <1>7, <1>9, <1>10, <1>11 DEF Inserted
  <1>. QED  BY Zenon, <1>12 DEF r

LEMMA PlacesBefore ==
    ASSUME NEW L \in Nat, NEW k \in 1 .. L + 1, NEW i \in 1 .. L + 1, i < k - 1
    PROVE  /\ i \in 1 .. k - 1 /\ i + 1 \in 1 .. k - 1
           /\ i \in 1 .. L /\ k - 1 \in 1 .. L /\ i # L /\ i # L + 1
  OBVIOUS

LEMMA PlacesOfTwo ==
    ASSUME NEW L \in Nat, L >= 1, L # 1
    PROVE  /\ 1 \in 1 .. L - 1 /\ 1 # L /\ 1 \in 1 .. L
           /\ L - 1 \in 1 .. L - 1 /\ (L - 1) + 1 = L /\ 2 \in 1 .. L
  OBVIOUS

(* Linking a new cell in at place k.                                       *)
LEMMA Inserting ==
    ASSUME NEW C, NEW z, NEW q, NEW h, NEW t, NEW n, Linked(C, z, q, h, t, n),
           NEW m \in C, m \notin Range(q), NEW k \in 1 .. Len(q) + 1,
           NEW n2 \in [C -> C \cup {z}],
           n2[m] = IF k = Len(q) + 1 THEN z ELSE q[k],
           k > 1 => n2[q[k - 1]] = m,
           \A c \in C \ {m} : k = 1 \/ c # q[k - 1] => n2[c] = n[c]
    PROVE  Linked(C, z, InsertAt(q, k, m), IF k = 1 THEN m ELSE h, IF k = Len(q) + 1 THEN m ELSE t, n2)
  <1>. DEFINE r == InsertAt(q, k, m)
              L == Len(q)
              h2 == IF k = 1 THEN m ELSE h
              t2 == IF k = L + 1 THEN m ELSE t
  <1>1. q \in Seq(C) /\ IsInjective(q) /\ L \in Nat /\ DOMAIN q = 1 .. L /\ z \notin C
    BY DEF Linked
  <1>2. /\ r \in Seq(C) /\ Len(r) = L + 1 /\ r[k] = m
        /\ \A i \in 1 .. k - 1 : r[i] = q[i]
        /\ \A i \in k + 1 .. L + 1 : r[i] = q[i - 1]
        /\ Range(r) = Range(q) \cup {m} /\ IsInjective(r)
    <2>1. r \in Seq(C) /\ Inserted(q, k, m, r)
      BY Zenon, <1>1, InsertAtElements
    <2>. HIDE DEF r
    <2>. QED  BY Zenon, <1>1, <2>1 DEF Inserted
  <1>3. \A i \in 1 .. L : q[i] \in C \ {m} /\ q[i] \in Range(q)
    BY <1>1 DEF Range
  <1>4. \A i, j \in 1 .. L : q[i] = q[j] => i = j
    BY Zenon, <1>1 DEF IsInjective
  <1>. HIDE DEF r
  <1>5. h2 = r[1] /\ t2 = r[L + 1] /\ r # << >>
    <2>1. CASE k = 1
      <3>1. h2 = r[1]
        BY Zenon, <1>2, <2>1
      <3>2. t2 = r[L + 1]
        <4>1. CASE L = 0
          BY <1>2, <2>1, <4>1
        <4>2. CASE L # 0
          <5>1. L + 1 \in k + 1 .. L + 1 /\ (L + 1) - 1 = L /\ k # L + 1 /\ q # << >>
            BY <1>1, <2>1, <4>2
          <5>2. t = q[L]
            BY Zenon, <5>1 DEF Linked
          <5>. QED  BY Zenon, <1>2, <5>1, <5>2
        <4>. QED  BY Zenon, <4>1, <4>2
      <3>. QED  BY <1>2, <3>1, <3>2
    <2>2. CASE k # 1
      <3>1. q # << >> /\ 1 \in 1 .. k - 1
        BY <1>1, <2>2
      <3>2. h = q[1] /\ t = q[L]
        BY Zenon, <3>1 DEF Linked
      <3>3. h2 = r[1]
        BY Zenon, <1>2, <2>2, <3>1, <3>2
      <3>4. CASE k = L + 1
        BY <1>2, <3>3, <3>4
      <3>5. CASE k # L + 1
        <4>1. L + 1 \in k + 1 .. L + 1 /\ (L + 1) - 1 = L
          BY <1>1, <3>5
        <4>. QED  BY <1>2, <3>2, <3>3, <3>5, <4>1
      <3>. QED  BY Zenon, <3>4, <3>5
    <2>. QED  BY Zenon, <2>1, <2>2
  <1>6. ASSUME NEW i \in 1 .. L + 1 PROVE n2[r[i]] = IF i = L + 1 THEN z ELSE r[i + 1]
    <2>1. CASE i = k
      <3>1. CASE k = L + 1
        BY Zenon, <1>2, <2>1, <3>1
      <3>2. CASE k # L + 1
        <4>1. k + 1 \in k + 1 .. L + 1 /\ (k + 1) - 1 = k
          BY <1>1, <3>2
        <4>. QED  BY ZenonT(40), <1>2, <2>1, <3>2, <4>1
      <3>. QED  BY Zenon, <3>1, <3>2
    <2>2. CASE i = k - 1
      <3>1. k > 1 /\ r[i] = q[k - 1] /\ i + 1 = k /\ i # L + 1
        BY <1>1, <1>2, <2>2
      <3>. QED  BY Zenon, <1>2, <3>1
    <2>3. CASE i < k - 1
      <3>0. /\ i \in 1 .. k - 1 /\ i + 1 \in 1 .. k - 1
            /\ i \in 1 .. L /\ k - 1 \in 1 .. L /\ i # L /\ i # L + 1
        BY Zenon, <1>1, <2>3, PlacesBefore
      <3>1. r[i] = q[i] /\ r[i + 1] = q[i + 1]
        BY Zenon, <1>2, <3>0
      <3>2. q[i] # q[k - 1]
        BY <1>4, <2>3, <3>0
      <3>3. n2[q[i]] = n[q[i]]
        BY Zenon, <1>3, <3>0, <3>2
      <3>4. n[q[i]] = q[i + 1]
        BY Zenon, <3>0 DEF Linked
      <3>. QED  BY Zenon, <3>0, <3>1, <3>3, <3>4
    <2>4. CASE i > k
      <3>1. i - 1 \in 1 .. L /\ r[i] = q[i - 1]
        BY <1>1, <1>2, <2>4
      <3>2. k = 1 \/ q[i - 1] # q[k - 1]
        <4>1. ASSUME k # 1 PROVE k - 1 \in 1 .. L /\ k - 1 # i - 1
          BY <1>1, <2>4, <4>1
        <4>. QED  BY Zenon, <1>4, <3>1, <4>1
      <3>3. n2[q[i - 1]] = n[q[i - 1]]
        BY Zenon, <1>3, <3>1, <3>2
      <3>4. CASE i = L + 1
        <4>1. i - 1 = L
          BY <1>1, <3>4
        <4>2. n[q[i - 1]] = z
          BY Zenon, <3>1, <4>1 DEF Linked
        <4>. QED  BY Zenon, <3>1, <3>3, <3>4, <4>2
      <3>5. CASE i # L + 1
        <4>1. (i - 1) + 1 = i /\ i - 1 # L /\ i + 1 \in k + 1 .. L + 1 /\ (i + 1) - 1 = i
          BY <1>1, <2>4, <3>5
        <4>2. n[q[i - 1]] = q[i]
          BY Zenon, <3>1, <4>1 DEF Linked
        <4>3. r[i + 1] = q[i]
          BY Zenon, <1>2, <4>1
        <4>. QED  BY Zenon, <3>1, <3>3, <3>5, <4>2, <4>3
      <3>. QED  BY Zenon, <3>4, <3>5
    <2>. QED  BY <1>1, <2>1, <2>2, <2>3, <2>4
  <1>7. ASSUME NEW c \in C \ Range(r) PROVE n2[c] = z
    <2>1. c \in C \ {m} /\ c \notin Range(q)
      BY Zenon, <1>2
    <2>2. k = 1 \/ c # q[k - 1]
      <3>1. k # 1 => k - 1 \in 1 .. L
        BY <1>1
      <3>. QED  BY ZenonT(40), ZenonT(40), <1>3, <2>1, <3>1
    <2>3. n[c] = z
      BY Zenon, <2>1 DEF Linked
    <2>. QED  BY Zenon, <2>1, <2>2, <2>3
  <1>. HIDE DEF h2, t2
  <1>8. Linked(C, z, r, h2, t2, n2)
    BY Zenon, <1>1, <1>2, <1>5, <1>6, <1>7 DEF Linked
  <1>. QED  BY Zenon, ZenonT(40), <1>8 DEF r, h2, t2

LEMMA Removing ==
    ASSUME NEW C, NEW z, NEW q, NEW h, NEW t, NEW n, Linked(C, z, q, h, t, n), h # z
    PROVE  /\ q # << >> /\ h = Head(q)
           /\ Linked(C, z, Tail(q), n[h], IF n[h] = z THEN z ELSE t, [n EXCEPT ![h] = z])
  <1>. DEFINE r == Tail(q)
              L == Len(q)
              n2 == [n EXCEPT ![h] = z]
              t2 == IF n[h] = z THEN z ELSE t
  <1>1. q \in Seq(C) /\ IsInjective(q) /\ q # << >> /\ z \notin C
        /\ n \in [C -> C \cup {z}]
    BY Zenon DEF Linked
  <1>2. h = q[1] /\ t = q[L] /\ h = Head(q) /\ h \in C /\ L \in Nat /\ L >= 1
    BY <1>1 DEF Linked
  <1>3. /\ r \in Seq(C) /\ Len(r) = L - 1
        /\ \A i \in 1 .. L - 1 : r[i] = q[i + 1]
    BY <1>1, <1>2
  <1>4. IsInjective(r) /\ Range(q) = {h} \cup Range(r) /\ h \notin Range(r)
    BY <1>1, <1>2, TailElements
  <1>5. n2 \in [C -> C \cup {z}] /\ n2[h] = z
        /\ \A c \in C \ {h} : n2[c] = n[c]
    BY Zenon, <1>1, <1>2
  <1>6. \A i \in 1 .. L : q[i] \in C /\ n[q[i]] = IF i = L THEN z ELSE q[i + 1]
    BY <1>1 DEF Linked
  <1>. HIDE DEF r, n2
  <1>7. IF r = << >> THEN n[h] = z /\ t2 = z ELSE n[h] = r[1] /\ t2 = r[Len(r)]
    <2>1. CASE L = 1
      <3>1. r = << >> /\ n[h] = z
        BY <1>2, <1>3, <1>6, <2>1
      <3>. QED  BY Zenon, <3>1
    <2>2. CASE L # 1
      <3>1. 1 \in 1 .. L - 1 /\ 1 # L /\ 1 \in 1 .. L /\ L - 1 \in 1 .. L - 1 /\ (L - 1) + 1 = L /\ 2 \in 1 .. L
        BY Zenon, <1>2, <2>2, PlacesOfTwo
      <3>2. r # << >> /\ r[1] = q[2] /\ r[Len(r)] = q[L]
        BY <1>3, <3>1
      <3>3. n[q[1]] = q[1 + 1] /\ q[2] \in C
        BY Zenon, <1>6, <3>1
      <3>4. n[h] = q[2]
        BY <1>2, <3>3
      <3>. QED  BY Zenon, <1>1, <1>2, <3>2, <3>3, <3>4
    <2>. QED  BY Zenon, <2>1, <2>2
  <1>8. ASSUME NEW i \in 1 .. Len(r) PROVE n2[r[i]] = IF i = Len(r) THEN z ELSE r[i + 1]
    <2>1. i \in 1 .. L - 1 /\ i + 1 \in 1 .. L /\ r[i] = q[i + 1]
      BY <1>2, <1>3
    <2>2. r[i] \in Range(r) /\ r[i] \in C
      BY <1>3 DEF Range
    <2>3. n2[r[i]] = n[q[i + 1]]
      BY Zenon, <1>4, <1>5, <2>1, <2>2
    <2>4. CASE i = Len(r)
      BY <1>2, <1>3, <1>6, <2>1, <2>3, <2>4
    <2>5. CASE i # Len(r)
      <3>1. i + 1 # L /\ i + 1 \in 1 .. L - 1
        BY <1>2, <1>3, <2>1, <2>5
      <3>. QED  BY Zenon, <1>3, <1>6, <2>1, <2>3, <2>5, <3>1
    <2>. QED  BY Zenon, <2>4, <2>5
  <1>9. ASSUME NEW c \in C \ Range(r) PROVE n2[c] = z
    <2>1. c = h \/ c \notin Range(q)
      BY Zenon, ZenonT(40), <1>4
    <2>2. c \notin Range(q) => n[c] = z
      BY ZenonT(40) DEF Linked
    <2>. QED  BY Zenon, <1>5, <2>1, <2>2
  <1>. HIDE DEF t2
  <1>10. Linked(C, z, r, n[h], t2, n2)
    BY Zenon, <1>1, <1>3, <1>4, <1>5, <1>7, <1>8, <1>9 DEF Linked
  <1>. QED  BY Zenon, <1>1, <1>2, <1>10 DEF r, t2, n2

LEMMA Cleared ==
    ASSUME NEW C, NEW z, z \notin C
    PROVE  Linked(C, z, << >>, z, z, [m \in C |-> z])
  <1>1. << >> \in Seq(C) /\ Len(<< >>) = 0 /\ IsInjective(<< >>)
    BY DEF IsInjective
  <1>. QED  BY <1>1 DEF Linked

Sorted(q, R) == \A i, j \in 1 .. Len(q) : i < j => <<q[i], q[j]>> \in R

LEMMA SortedInsert ==
    ASSUME NEW S, NEW q \in Seq(S), NEW m \in S, NEW k \in 1 .. Len(q) + 1, NEW R, Sorted(q, R),
           \A i \in 1 .. k - 1 : <<q[i], m>> \in R,
           \A i \in k .. Len(q) : <<m, q[i]>> \in R
    PROVE  Sorted(InsertAt(q, k, m), R)
  <1>. DEFINE r == InsertAt(q, k, m)
              L == Len(q)
  <1>1. /\ Len(r) = L + 1 /\ r[k] = m /\ L \in Nat
        /\ \A i \in 1 .. k - 1 : r[i] = q[i]
        /\ \A i \in k + 1 .. L + 1 : r[i] = q[i - 1]
    <2>1. Inserted(q, k, m, r)
      BY Zenon, ZenonT(40), InsertAtElements
    <2>. HIDE DEF r
    <2>. QED  BY <2>1 DEF Inserted
  <1>. HIDE DEF r
  <1>2. ASSUME NEW i \in 1 .. L + 1, NEW j \in 1 .. L + 1, i < j PROVE <<r[i], r[j]>> \in R
    <2>1. CASE j < k
      BY <1>1, <1>2, <2>1 DEF Sorted
    <2>2. CASE j = k
      BY <1>1, <1>2, <2>2
    <2>3. CASE j > k
      <3>1. j \in k + 1 .. L + 1 /\ j - 1 \in k .. L /\ j - 1 \in 1 .. L /\ r[j] = q[j - 1]
        BY <1>1, <2>3
      <3>2. CASE i < k
        <4>1. i \in 1 .. k - 1 /\ i \in 1 .. L /\ i < j - 1
          BY <1>1, <2>3, <3>2
        <4>. QED  BY Zenon, <1>1, <3>1, <4>1 DEF Sorted
      <3>3. CASE i = k
        BY Zenon, <1>1, <3>1, <3>3
      <3>4. CASE i > k
        <4>1. i \in k + 1 .. L + 1 /\ i - 1 \in 1 .. L /\ i - 1 < j - 1
          BY <1>1, <1>2, <3>4
        <4>. QED  BY Zenon, <1>1, <3>1, <4>1 DEF Sorted
      <3>. QED  BY <3>2, <3>3, <3>4
    <2>. QED  BY <2>1, <2>2, <2>3
  <1>3. Sorted(r, R)
    BY Zenon, <1>1, <1>2 DEF Sorted
  <1>. QED  BY Zenon, <1>3 DEF r

LEMMA SortedTail ==
    ASSUME NEW S, NEW q \in Seq(S), q # << >>, NEW R, Sorted(q, R)
    PROVE  Sorted(Tail(q), R)
  <1>1. Len(Tail(q)) = Len(q) - 1 /\ Len(q) \in Nat /\ \A i \in 1 .. Len(q) - 1 : Tail(q)[i] = q[i + 1]
    OBVIOUS
  <1>2. ASSUME NEW i \in 1 .. Len(q) - 1, NEW j \in 1 .. Len(q) - 1, i < j
        PROVE  <<Tail(q)[i], Tail(q)[j]>> \in R
    <2>1. i + 1 \in 1 .. Len(q) /\ j + 1 \in 1 .. Len(q) /\ i + 1 < j + 1
      BY <1>1, <1>2
    <2>. QED  BY Zenon, <1>1, <2>1 DEF Sorted
  <1>. QED  BY Zenon, <1>1, <1>2 DEF Sorted

LEMMA InsertAtEnd ==
    ASSUME NEW S, NEW q \in Seq(S), NEW m \in S
    PROVE  InsertAt(q, Len(q) + 1, m) = Append(q, m)
  <1>. DEFINE r == InsertAt(q, Len(q) + 1, m)
              a == Append(q, m)
  <1>1. /\ r \in Seq(S) /\ Len(r) = Len(q) + 1 /\ r[Len(q) + 1] = m
        /\ \A i \in 1 .. (Len(q) + 1) - 1 : r[i] = q[i]
    <2>1. Len(q) + 1 \in 1 .. Len(q) + 1
      OBVIOUS
    <2>2. r \in Seq(S) /\ Inserted(q, Len(q) + 1, m, r)
      BY Zenon, <2>1, InsertAtElements
    <2>. HIDE DEF r
    <2>. QED  BY Zenon, <2>2 DEF Inserted
  <1>2. /\ a \in Seq(S) /\ Len(a) = Len(q) + 1 /\ a[Len(q) + 1] = m
        /\ \A i \in 1 .. Len(q) : a[i] = q[i]
    OBVIOUS
  <1>. HIDE DEF r, a
  <1>3. \A i \in 1 .. Len(q) + 1 : r[i] = a[i]
    BY <1>1, <1>2
  <1>4. r = a
    BY Zenon, <1>1, <1>2, <1>3, SameSequence
  <1>. QED  BY Zenon, <1>4 DEF r, a

===============================================================================
