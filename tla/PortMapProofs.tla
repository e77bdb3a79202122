----------------------------- MODULE PortMapProofs -----------------------------
(***************************************************************************)
(* The table of ports, for any number of ports and any sequence of         *)
(* operations on them.  What is proved of the table goes through its       *)
(* content, the set of the entries in it: an operation on slots is first   *)
(* shown to keep the table well formed and to have the effect it should    *)
(* have on the content.                                                    *)
(***************************************************************************)
EXTENDS PortMap, FiniteSetTheorems, BasicLemmas

(* What Min picks.                                                         *)
LEMMA MinOfNats ==
    ASSUME NEW T \in SUBSET Nat, T # {}
    PROVE  Min(T) \in T /\ \A m \in T : Min(T) <= m
  BY LeastNat DEF Min

(* A number has one remainder.                                             *)
LEMMA Remainder ==
    ASSUME NEW c \in Nat \ {0}, NEW q \in Int, NEW r \in 0 .. c - 1
    PROVE  (c * q + r) % c = r
  <1>. DEFINE a == c * q + r
              m == a % c
              d == a \div c
  <1>1. a \in Int /\ m \in 0 .. c - 1 /\ d \in Int /\ a = c * d + m
    OBVIOUS
  <1>. HIDE DEF m, d
  <1>2. c * (d - q) = r - m
    BY <1>1
  <1>3. d - q = 0
    <2>1. r - m < c /\ -c < r - m
      BY <1>1
    <2>. DEFINE e == d - q
    <2>2. e \in Int /\ c * e < c /\ -c < c * e
      BY <1>1, <1>2, <2>1
    <2>. HIDE DEF e
    <2>3. ~(e >= 1)
      BY <2>2
    <2>4. ~(e <= -1)
      BY <2>2
    <2>5. e = 0
      BY <2>2, <2>3, <2>4
    <2>. QED  BY <2>5 DEF e
  <1>4. m = r
    BY <1>1, <1>2, <1>3
  <1>. QED  BY <1>4 DEF m

LEMMA ProbeInTable ==
    ASSUME NEW c \in Nat \ {0}, NEW port \in Nat, NEW k \in Nat
    PROVE  Probe(port, c, k) \in 0 .. c - 1
  BY DEF Probe

(* Probing comes to every slot.                                            *)
LEMMA ProbeComesTo ==
    ASSUME NEW c \in Nat \ {0}, NEW port \in Nat, NEW i \in 0 .. c - 1
    PROVE  \E k \in 0 .. c - 1 : Probe(port, c, k) = i
  <1>. DEFINE r == port % c
              q == port \div c
  <1>1. r \in 0 .. c - 1 /\ q \in Int /\ port = c * q + r
    OBVIOUS
  <1>. HIDE DEF r, q
  <1>2. CASE i >= r
    <2>1. i - r \in 0 .. c - 1 /\ port + (i - r) = c * q + i
      BY <1>1, <1>2
    <2>. QED  BY ZenonT(40), <1>1, <2>1, Remainder DEF Probe
  <1>3. CASE i < r
    <2>1. i - r + c \in 0 .. c - 1 /\ port + (i - r + c) = c * q + c + i
      BY <1>1, <1>3
    <2>2. c * q + c = c * (q + 1) /\ q + 1 \in Int
      BY <1>1
    <2>3. port + (i - r + c) = c * (q + 1) + i
      BY <2>1, <2>2
    <2>. QED  BY ZenonT(40), <2>1, <2>2, <2>3, Remainder DEF Probe
  <1>. QED  BY <1>1, <1>2, <1>3


-----------------------------------------------------------------------------
PortEntries == [port : PortIds, handler : Handlers, state : States]

Slots == {Free, Closed} \cup PortEntries

(* A well-formed table of capacity c: a port is in it once, and no slot    *)
(* that probing passes on the way to it is free.                           *)
Passes(m, c, port, k) == \A j \in 0 .. k - 1 : m[Probe(port, c, j)].handler # NULL

IsTable(m, c) ==
    /\ c \in Nat \ {0} /\ m \in [0 .. c - 1 -> Slots]
    /\ \A i, j \in 0 .. c - 1 : m[i].port # 0 /\ m[i].port = m[j].port => i = j
    /\ \A i \in 0 .. c - 1 : m[i].port # 0 =>
          \E k \in 0 .. c - 1 : Probe(m[i].port, c, k) = i /\ Passes(m, c, m[i].port, k)

Content(m, c) == {m[i] : i \in {j \in 0 .. c - 1 : m[j].port # 0}}

LEMMA SlotKinds ==
    /\ Free \in Slots /\ Closed \in Slots
    /\ \A e \in Slots : /\ e.port = 0 <=> e \in {Free, Closed}
                        /\ e.port # 0 <=> e \in PortEntries
                        /\ e.handler = NULL <=> e = Free
                        /\ e.handler = DELETED <=> e = Closed
    /\ \A e \in PortEntries : /\ e \in Slots /\ e.port \in Nat \ {0} /\ e.port \in PortIds
                              /\ e.handler \in Handlers /\ e.state \in States
                              /\ e.handler # NULL /\ e.handler # DELETED
  <1>1. \A e \in PortEntries : /\ e.port \in Nat \ {0} /\ e.port \in PortIds
                               /\ e.handler \in Handlers /\ e.state \in States
                               /\ e.handler # NULL /\ e.handler # DELETED
    BY ZenonT(40), PortsAssumption, HandlersAssumption DEF PortEntries, Handlers
  <1>2. /\ Free.port = 0 /\ Free.handler = NULL /\ Closed.port = 0 /\ Closed.handler = DELETED
        /\ NULL # DELETED /\ Free # Closed
    BY HandlersAssumption DEF Free, Closed
  <1>. QED  BY <1>1, <1>2 DEF Slots

LEMMA ContentEntries ==
    ASSUME NEW m, NEW c, IsTable(m, c)
    PROVE  /\ Content(m, c) \subseteq PortEntries
           /\ \A d, e \in Content(m, c) : d.port = e.port => d = e
           /\ \A i \in 0 .. c - 1 : m[i] \in Slots /\ (m[i].port # 0 => m[i] \in Content(m, c))
           /\ \A e \in Content(m, c) : \E i \in 0 .. c - 1 : m[i] = e /\ e.port # 0
  <1>1. \A i \in 0 .. c - 1 : m[i] \in Slots
    BY DEF IsTable
  <1>2. \A e \in Content(m, c) : \E i \in 0 .. c - 1 : m[i] = e /\ e.port # 0
    BY DEF Content
  <1>3. Content(m, c) \subseteq PortEntries
    BY <1>1, <1>2, SlotKinds
  <1>4. \A d, e \in Content(m, c) : d.port = e.port => d = e
    BY <1>2 DEF IsTable
  <1>5. \A i \in 0 .. c - 1 : m[i].port # 0 => m[i] \in Content(m, c)
    BY DEF Content
  <1>. QED  BY <1>1, <1>2, <1>3, <1>4, <1>5

(* There are as many slots with entries of a kind as there are entries.    *)
LEMMA SlotsCounted ==
    ASSUME NEW m, NEW c, IsTable(m, c), NEW E \in SUBSET Content(m, c)
    PROVE  LET S == {i \in 0 .. c - 1 : m[i] \in E}
           IN  IsFiniteSet(S) /\ IsFiniteSet(E) /\ Cardinality(S) = Cardinality(E)
  <1>. DEFINE S == {i \in 0 .. c - 1 : m[i] \in E}
              f == [i \in S |-> m[i]]
  <1>1. IsFiniteSet(S)
    <2>1. IsFiniteSet(0 .. c - 1)
      BY FS_Interval DEF IsTable
    <2>. QED  BY ZenonT(40), <2>1, FS_Subset
  <1>2. \A i \in S : i \in 0 .. c - 1 /\ m[i] \in E /\ m[i].port # 0
    BY ContentEntries
  <1>3. \A i, j \in S : m[i] = m[j] => i = j
    BY <1>2 DEF IsTable
  <1>4. \A e \in E : \E i \in S : m[i] = e
    BY ContentEntries
  <1>. HIDE DEF S
  <1>5. f \in Bijection(S, E)
    BY <1>2, <1>3, <1>4 DEF Bijection, Injection, Surjection, IsInjective
  <1>6. ExistsBijection(S, E)
    BY <1>5 DEF ExistsBijection
  <1>. QED  BY <1>1, <1>6, FS_Bijection DEF S


-----------------------------------------------------------------------------
(* Where searches end.                                                     *)
LEMMA FirstStop ==
    ASSUME IsTable(map_, capacity_), NEW port \in Nat, Stops(port)
    PROVE  \E k \in 0 .. capacity_ - 1 :
              /\ StopIndex(port) = Probe(port, capacity_, k)
              /\ StopsAt(port, k) /\ \A j \in 0 .. k - 1 : ~StopsAt(port, j)
  <1>. DEFINE T == {k \in 0 .. capacity_ - 1 : StopsAt(port, k)}
  <1>1. T \in SUBSET Nat /\ T # {}
    BY DEF Stops, IsTable
  <1>2. PICK k \in T : \A j \in T : k <= j
    <2>. HIDE DEF T
    <2>. QED  BY <1>1, LeastNat
  <1>3. k \in 0 .. capacity_ - 1 /\ StopsAt(port, k) /\ capacity_ \in Nat
    BY DEF IsTable
  <1>4. \A j \in 0 .. k - 1 : ~StopsAt(port, j)
    BY <1>2, <1>3
  <1>. QED  BY <1>3, <1>4 DEF StopIndex

(* A port that is in the table is found where it is.                       *)
LEMMA PortIsFound ==
    ASSUME IsTable(map_, capacity_), NEW i \in 0 .. capacity_ - 1, map_[i].port # 0
    PROVE  Stops(map_[i].port) /\ FindPort(map_[i].port) = i
  <1>. DEFINE port == map_[i].port
  <1>1. port \in Nat /\ map_[i].handler # NULL
    BY ContentEntries, SlotKinds
  <1>2. PICK k \in 0 .. capacity_ - 1 :
            Probe(port, capacity_, k) = i /\ Passes(map_, capacity_, port, k)
    BY DEF IsTable
  <1>. HIDE DEF port
  <1>3. StopsAt(port, k) /\ Stops(port)
    BY <1>2 DEF StopsAt, Stops, port
  <1>4. PICK n \in 0 .. capacity_ - 1 :
            /\ StopIndex(port) = Probe(port, capacity_, n)
            /\ StopsAt(port, n) /\ \A j \in 0 .. n - 1 : ~StopsAt(port, j)
    BY <1>1, <1>3, FirstStop
  <1>5. n <= k /\ n \in Nat /\ capacity_ \in Nat \ {0}
    BY <1>3, <1>4 DEF IsTable
  <1>. DEFINE x == Probe(port, capacity_, n)
  <1>6. x \in 0 .. capacity_ - 1
    BY ONLY <1>1, <1>5, ProbeInTable
  <1>7. map_[x].handler # NULL
    <2>1. CASE n = k
      BY <1>1, <1>2, <2>1
    <2>2. CASE n < k
      BY <1>2, <1>5, <2>2 DEF Passes
    <2>. QED  BY <1>5, <2>1, <2>2
  <1>8. map_[x].port = port
    BY <1>4, <1>7 DEF StopsAt
  <1>9. x = i
    BY <1>6, <1>8 DEF IsTable, port
  <1>. QED  BY <1>1, <1>3, <1>4, <1>9 DEF FindPort, ILLEGAL_PORT, port

LEMMA FindPortIs ==
    ASSUME IsTable(map_, capacity_), NEW port \in PortIds \cup {ILLEGAL_PORT}
    PROVE  \/ \E i \in 0 .. capacity_ - 1 :
                 map_[i].port = port /\ port # 0 /\ FindPort(port) = i
           \/ FindPort(port) = -1 /\ \A i \in 0 .. capacity_ - 1 : map_[i].port = port => port = 0
  <1>1. CASE \E i \in 0 .. capacity_ - 1 : map_[i].port = port /\ port # 0
    BY <1>1, PortIsFound
  <1>2. CASE \A i \in 0 .. capacity_ - 1 : map_[i].port = port => port = 0
    <2>. SUFFICES ASSUME port # 0, Stops(port) PROVE map_[StopIndex(port)].handler = NULL
      BY <1>2 DEF FindPort, ILLEGAL_PORT
    <2>1. port \in Nat
      BY PortsAssumption DEF ILLEGAL_PORT
    <2>2. PICK n \in 0 .. capacity_ - 1 :
              StopIndex(port) = Probe(port, capacity_, n) /\ StopsAt(port, n)
      BY <2>1, FirstStop
    <2>3. Probe(port, capacity_, n) \in 0 .. capacity_ - 1
      <3>1. capacity_ \in Nat \ {0} /\ n \in Nat
        BY DEF IsTable
      <3>. QED  BY ONLY <2>1, <3>1, ProbeInTable
    <2>. QED  BY <1>2, <2>2, <2>3 DEF StopsAt
  <1>. QED  BY <1>1, <1>2

(* With a free slot every search ends.                                     *)
LEMMA SearchEnds ==
    ASSUME IsTable(map_, capacity_), NEW i \in 0 .. capacity_ - 1, map_[i].handler = NULL,
           NEW port \in PortIds
    PROVE  Stops(port)
  <1>1. PICK k \in 0 .. capacity_ - 1 : Probe(port, capacity_, k) = i
    BY ProbeComesTo, PortsAssumption DEF IsTable
  <1>. QED  BY <1>1 DEF Stops, StopsAt


-----------------------------------------------------------------------------
(* What the operations on slots do to a table and to its content.          *)
LEMMA UnusedSlotIs ==
    ASSUME NEW m, NEW c, IsTable(m, c), NEW port \in Nat,
           NEW i \in 0 .. c - 1, m[i].port = 0
    PROVE  \E k \in 0 .. c - 1 :
              /\ UnusedSlot(m, c, port) = Probe(port, c, k) /\ m[Probe(port, c, k)].port = 0
              /\ Probe(port, c, k) \in 0 .. c - 1
              /\ \A j \in 0 .. k - 1 : m[Probe(port, c, j)].port # 0
  <1>. DEFINE T == {k \in 0 .. c - 1 : m[Probe(port, c, k)].port = 0}
  <1>1. c \in Nat \ {0}
    BY DEF IsTable
  <1>2. PICK n \in 0 .. c - 1 : Probe(port, c, n) = i
    BY <1>1, ProbeComesTo
  <1>3. T \in SUBSET Nat /\ T # {}
    BY <1>1, <1>2
  <1>4. PICK k \in T : k = Min(T) /\ \A j \in T : k <= j
    <2>. HIDE DEF T
    <2>. QED  BY ZenonT(40), <1>3, MinOfNats
  <1>5. k \in 0 .. c - 1 /\ k \in Nat /\ m[Probe(port, c, k)].port = 0
    BY <1>1, <1>4
  <1>6. \A j \in 0 .. k - 1 : m[Probe(port, c, j)].port # 0
    BY <1>1, <1>4, <1>5
  <1>7. Probe(port, c, k) \in 0 .. c - 1
    BY ZenonT(40), <1>1, <1>5, ProbeInTable
  <1>. QED  BY ZenonT(40), <1>4, <1>5, <1>6, <1>7 DEF UnusedSlot

Placed(m, c, e) == [m EXCEPT ![UnusedSlot(m, c, e.port)] = e]

LEMMA PlacingAdds ==
    ASSUME NEW m, NEW c, IsTable(m, c), NEW e \in PortEntries,
           \A d \in Content(m, c) : d.port # e.port,
           NEW i \in 0 .. c - 1, m[i].port = 0
    PROVE  /\ UnusedSlot(m, c, e.port) \in 0 .. c - 1 /\ m[UnusedSlot(m, c, e.port)].port = 0
           /\ IsTable(Placed(m, c, e), c)
           /\ Content(Placed(m, c, e), c) = Content(m, c) \cup {e}
  <1>. DEFINE x == UnusedSlot(m, c, e.port)
              n == [m EXCEPT ![x] = e]
  <1>1. e.port \in Nat \ {0} /\ e.handler # NULL /\ e \in Slots
    BY SlotKinds
  <1>2. PICK k \in 0 .. c - 1 :
              /\ x = Probe(e.port, c, k) /\ m[x].port = 0 /\ x \in 0 .. c - 1
              /\ \A j \in 0 .. k - 1 : m[Probe(e.port, c, j)].port # 0
    <2>. DEFINE p == e.port
    <2>1. p \in Nat
      BY <1>1
    <2>. HIDE DEF p
    <2>2. PICK k \in 0 .. c - 1 :
              /\ UnusedSlot(m, c, p) = Probe(p, c, k) /\ m[Probe(p, c, k)].port = 0
              /\ Probe(p, c, k) \in 0 .. c - 1
              /\ \A j \in 0 .. k - 1 : m[Probe(p, c, j)].port # 0
      BY <2>1, UnusedSlotIs
    <2>. QED  BY <2>2 DEF p
  <1>. HIDE DEF x
  <1>3. /\ c \in Nat \ {0} /\ m \in [0 .. c - 1 -> Slots]
        /\ n \in [0 .. c - 1 -> Slots] /\ n[x] = e
        /\ \A y \in 0 .. c - 1 : y # x => n[y] = m[y]
    <2>1. c \in Nat \ {0} /\ m \in [0 .. c - 1 -> Slots]
      BY DEF IsTable
    <2>2. n \in [0 .. c - 1 -> Slots]
      BY ZenonT(40), <1>1, <2>1
    <2>. QED  BY <1>2, <2>1, <2>2
  <1>. HIDE DEF n
  <1>4. \A y \in 0 .. c - 1 : m[y].port # 0 => m[y].port # e.port
    BY ContentEntries
  <1>5. \A y, z \in 0 .. c - 1 : n[y].port # 0 /\ n[y].port = n[z].port => y = z
    BY <1>1, <1>3, <1>4 DEF IsTable
  <1>6. \A port \in Nat, j \in Nat :
           m[Probe(port, c, j)].handler # NULL => n[Probe(port, c, j)].handler # NULL
    <2>. TAKE port \in Nat, j \in Nat
    <2>1. Probe(port, c, j) \in 0 .. c - 1
      BY ZenonT(40), <1>3, ProbeInTable
    <2>. QED  BY <1>1, <1>3, <2>1
  <1>7. ASSUME NEW y \in 0 .. c - 1, n[y].port # 0
        PROVE  \E q \in 0 .. c - 1 : Probe(n[y].port, c, q) = y /\ Passes(n, c, n[y].port, q)
    <2>1. CASE y = x
      <3>1. ASSUME NEW j \in 0 .. k - 1 PROVE n[Probe(e.port, c, j)].handler # NULL
        <4>1. j \in Nat
          BY <1>3
        <4>2. Probe(e.port, c, j) \in 0 .. c - 1
          BY ZenonT(40), <1>1, <1>3, <4>1, ProbeInTable
        <4>3. m[Probe(e.port, c, j)].handler # NULL
          BY <1>2, <1>3, <4>2, SlotKinds
        <4>. QED  BY <1>1, <1>6, <4>1, <4>3
      <3>. QED  BY <1>2, <1>3, <2>1, <3>1 DEF Passes
    <2>2. CASE y # x
      <3>1. n[y] = m[y] /\ m[y].port \in Nat
        BY <1>3, <2>2, <1>7, SlotKinds
      <3>2. PICK q \in 0 .. c - 1 : Probe(m[y].port, c, q) = y /\ Passes(m, c, m[y].port, q)
        BY <1>7, <3>1 DEF IsTable
      <3>3. \A j \in 0 .. q - 1 : j \in Nat
        BY <1>3
      <3>4. Passes(n, c, m[y].port, q)
        BY <1>6, <3>1, <3>2, <3>3 DEF Passes
      <3>. QED  BY <3>1, <3>2, <3>4
    <2>. QED  BY <2>1, <2>2
  <1>8. IsTable(n, c)
    BY <1>3, <1>5, <1>7 DEF IsTable
  <1>9. Content(n, c) = Content(m, c) \cup {e}
    <2>. DEFINE In(f) == {y \in 0 .. c - 1 : f[y].port # 0}
    <2>1. In(n) = In(m) \cup {x} /\ x \notin In(m)
      BY <1>1, <1>2, <1>3
    <2>2. \A y \in In(m) : n[y] = m[y]
      BY <1>3, <2>1
    <2>. HIDE DEF In
    <2>3. {n[y] : y \in In(n)} = {m[y] : y \in In(m)} \cup {e}
      BY <1>3, <2>1, <2>2
    <2>. QED  BY SMTT(60), <2>3 DEF Content, In
  <1>. QED  BY ZenonT(40), <1>2, <1>8, <1>9 DEF n, x, Placed

ClosedAt(m, c, X) == [i \in 0 .. c - 1 |-> IF i \in X THEN Closed ELSE m[i]]

LEMMA Closing ==
    ASSUME NEW m, NEW c, IsTable(m, c), NEW X \in SUBSET {i \in 0 .. c - 1 : m[i].port # 0}
    PROVE  /\ IsTable(ClosedAt(m, c, X), c)
           /\ Content(ClosedAt(m, c, X), c) = Content(m, c) \ {m[i] : i \in X}
  <1>. DEFINE n == [i \in 0 .. c - 1 |-> IF i \in X THEN Closed ELSE m[i]]
  <1>1. /\ c \in Nat \ {0} /\ n \in [0 .. c - 1 -> Slots]
        /\ \A i \in 0 .. c - 1 : n[i] = IF i \in X THEN Closed ELSE m[i]
    <2>1. c \in Nat \ {0} /\ m \in [0 .. c - 1 -> Slots] /\ Closed \in Slots
      BY SlotKinds DEF IsTable
    <2>. QED  BY <2>1
  <1>. HIDE DEF n
  <1>2. \A i \in 0 .. c - 1 : n[i].port # 0 => n[i] = m[i] /\ i \notin X
    BY <1>1, SlotKinds
  <1>3. \A i, j \in 0 .. c - 1 : n[i].port # 0 /\ n[i].port = n[j].port => i = j
    BY <1>2 DEF IsTable
  <1>4. \A i \in 0 .. c - 1 : m[i].handler # NULL => n[i].handler # NULL
    <2>1. Closed.handler # NULL
      BY HandlersAssumption DEF Closed
    <2>. QED  BY <1>1, <2>1
  <1>5. ASSUME NEW i \in 0 .. c - 1, n[i].port # 0
        PROVE  \E k \in 0 .. c - 1 : Probe(n[i].port, c, k) = i /\ Passes(n, c, n[i].port, k)
    <2>1. n[i] = m[i] /\ n[i].port \in Nat
      BY <1>1, <1>2, <1>5, SlotKinds
    <2>2. PICK k \in 0 .. c - 1 : Probe(m[i].port, c, k) = i /\ Passes(m, c, m[i].port, k)
      BY <1>5, <2>1 DEF IsTable
    <2>3. ASSUME NEW j \in 0 .. k - 1 PROVE n[Probe(m[i].port, c, j)].handler # NULL
      <3>1. j \in Nat
        BY <1>1
      <3>2. Probe(m[i].port, c, j) \in 0 .. c - 1
        BY <1>1, <2>1, <3>1, ProbeInTable
      <3>. QED  BY <1>4, <2>2, <3>2 DEF Passes
    <2>. QED  BY <2>1, <2>2, <2>3 DEF Passes
  <1>6. IsTable(n, c)
    BY <1>1, <1>3, <1>5 DEF IsTable
  <1>7. Content(n, c) = Content(m, c) \ {m[i] : i \in X}
    <2>1. \A i \in 0 .. c - 1, j \in X : m[i] = m[j] => i = j
      BY DEF IsTable
    <2>2. \A i \in 0 .. c - 1 : m[i].port # 0 /\ i \notin X => n[i] = m[i]
      BY <1>1
    <2>. QED  BY <1>2, <2>1, <2>2 DEF Content
  <1>. QED  BY <1>6, <1>7 DEF n, ClosedAt


LEMMA RoomLeft ==
    ASSUME NEW m, NEW c, IsTable(m, c), Cardinality(Content(m, c)) < c
    PROVE  \E i \in 0 .. c - 1 : m[i].port = 0
  <1>. SUFFICES ASSUME \A i \in 0 .. c - 1 : m[i].port # 0 PROVE FALSE
    OBVIOUS
  <1>1. {i \in 0 .. c - 1 : m[i] \in Content(m, c)} = 0 .. c - 1
    BY ContentEntries
  <1>2. Cardinality(0 .. c - 1) = Cardinality(Content(m, c))
    <2>1. \A E \in SUBSET Content(m, c) :
             Cardinality({i \in 0 .. c - 1 : m[i] \in E}) = Cardinality(E)
      BY SlotsCounted
    <2>. QED  BY ZenonT(40), <1>1, <2>1
  <1>3. c \in Nat \ {0}
    BY DEF IsTable
  <1>4. Cardinality(0 .. c - 1) = c
    BY <1>3, FS_Interval
  <1>. QED  BY <1>2, <1>3, <1>4

LEMMA EmptyTable ==
    ASSUME NEW c \in Nat \ {0}
    PROVE  LET m == [j \in 0 .. c - 1 |-> Free]
           IN  IsTable(m, c) /\ Content(m, c) = {}
  BY SlotKinds DEF IsTable, Content

(* The recursion in Rehashed has a solution.                               *)
Rehashes(f, m, c, nc) ==
    /\ f[0] = [j \in 0 .. nc - 1 |-> Free]
    /\ \A i \in 1 .. c :
          f[i] = IF m[i - 1].port = 0 THEN f[i - 1] ELSE Placed(f[i - 1], nc, m[i - 1])

LEMMA RehashingGoes ==
    ASSUME NEW m, NEW c, IsTable(m, c), NEW nc \in Nat \ {0}
    PROVE  \E f : Rehashed(m, c, nc) = f[c] /\ Rehashes(f, m, c, nc)
  <1>. DEFINE S == [0 .. nc - 1 -> Slots]
              empty == [j \in 0 .. nc - 1 |-> Free]
              Put(new, entry) == IF entry.port = 0 THEN new
                                 ELSE [new EXCEPT ![UnusedSlot(new, nc, entry.port)] = entry]
              step == [i \in 1 .. c |-> [new \in S |-> Put(new, m[i - 1])]]
              Moves(f) == f = [i \in 0 .. c |-> IF i = 0 THEN empty ELSE Put(f[i - 1], m[i - 1])]
  <1>1. c \in Nat \ {0} /\ \A i \in 1 .. c : i - 1 \in 0 .. c - 1 /\ m[i - 1] \in Slots
    BY DEF IsTable
  <1>2. empty \in S
    BY SlotKinds
  <1>3. ASSUME NEW new \in S, NEW entry \in Slots PROVE Put(new, entry) \in S
    BY ZenonT(40), <1>3
  <1>4. step \in Steps(c, S)
    <2>. HIDE DEF S, Put
    <2>1. ASSUME NEW i \in 1 .. c PROVE [new \in S |-> Put(new, m[i - 1])] \in [S -> S]
      BY <1>1, <1>3
    <2>. QED  BY <2>1 DEF Steps
  <1>5. PICK f : Iterates(f, c, S, empty, step)
    <2>1. c \in Nat
      BY <1>1
    <2>. HIDE DEF S, step, empty
    <2>. QED  BY <1>2, <1>4, <2>1, Recursion
  <1>6. f \in [0 .. c -> S] /\ f[0] = empty /\ \A i \in 1 .. c : f[i] = Put(f[i - 1], m[i - 1])
    <2>. HIDE DEF S, Put, empty
    <2>1. ASSUME NEW i \in 1 .. c, NEW new \in S PROVE step[i][new] = Put(new, m[i - 1])
      OBVIOUS
    <2>. HIDE DEF step
    <2>2. f \in [0 .. c -> S] /\ f[0] = empty /\ \A i \in 1 .. c : f[i] = step[i][f[i - 1]]
      BY <1>5 DEF Iterates
    <2>3. ASSUME NEW i \in 1 .. c PROVE f[i] = Put(f[i - 1], m[i - 1])
      <3>1. f[i - 1] \in S
        BY <1>1, <2>2
      <3>2. step[i][f[i - 1]] = Put(f[i - 1], m[i - 1])
        BY <2>1, <3>1
      <3>. QED  BY <2>2, <3>2
    <2>. QED  BY <2>2, <2>3
  <1>7. Moves(f)
    <2>. HIDE DEF S, step, Put, empty
    <2>. QED  BY <1>1, <1>6
  <1>8. Rehashed(m, c, nc) = (CHOOSE g : Moves(g))[c]
    BY DEF Rehashed
  <1>9. PICK g : Moves(g) /\ Rehashed(m, c, nc) = g[c]
    <2>. HIDE DEF Moves
    <2>. QED  BY ZenonT(40), <1>7, <1>8
  <1>10. g[0] = empty /\ \A i \in 1 .. c : g[i] = Put(g[i - 1], m[i - 1])
    <2>. HIDE DEF Put, empty
    <2>. QED  BY <1>1, <1>9
  <1>. QED  BY ZenonT(40), <1>9, <1>10 DEF Rehashes, Placed


(* A new table with room for them takes the entries of the old one.        *)
LEMMA Rehashing ==
    ASSUME NEW m, NEW c, IsTable(m, c), NEW nc \in Nat \ {0}, Cardinality(Content(m, c)) < nc
    PROVE  LET n == Rehashed(m, c, nc)
           IN  /\ IsTable(n, nc) /\ Content(n, nc) = Content(m, c)
               /\ \A i \in 0 .. nc - 1 : n[i] # Closed
  <1>1. PICK f : Rehashed(m, c, nc) = f[c] /\ Rehashes(f, m, c, nc)
    BY RehashingGoes
  <1>. DEFINE Below(i) == {j \in 0 .. i - 1 : m[j].port # 0}
              Holds(n, i) == /\ IsTable(n, nc) /\ Content(n, nc) = {m[j] : j \in Below(i)}
                             /\ \A x \in 0 .. nc - 1 : n[x] # Closed
              T == {i \in 0 .. c : Holds(f[i], i)}
  <1>2. c \in Nat \ {0} /\ \A i \in 0 .. c - 1 : m[i] \in Slots
    BY DEF IsTable
  <1>3. IsFiniteSet(Content(m, c))
    <2>1. \A E \in SUBSET Content(m, c) : IsFiniteSet(E)
      BY ZenonT(40), SlotsCounted
    <2>. QED  BY <2>1
  <1>4. 0 \in T
    <2>1. IsTable(f[0], nc) /\ Content(f[0], nc) = {}
      BY SMTT(60), <1>1, EmptyTable DEF Rehashes
    <2>2. \A x \in 0 .. nc - 1 : f[0][x] # Closed
      BY <1>1, HandlersAssumption DEF Free, Closed, Rehashes
    <2>3. Below(0) = {} /\ 0 \in 0 .. c
      BY <1>2
    <2>. QED  BY <2>1, <2>2, <2>3
  <1>5. ASSUME NEW i \in 0 .. c - 1, i \in T PROVE i + 1 \in T
    <2>. DEFINE n == f[i]
                e == m[i]
    <2>1. /\ i + 1 \in 1 .. c /\ i + 1 \in 0 .. c /\ (i + 1) - 1 = i /\ e \in Slots
          /\ Holds(n, i)
      BY <1>2, <1>5
    <2>2. f[i + 1] = IF e.port = 0 THEN n ELSE Placed(n, nc, e)
      BY <1>1, <2>1 DEF Rehashes
    <2>3. Below(i + 1) = IF e.port = 0 THEN Below(i) ELSE Below(i) \cup {i}
      BY <1>2
    <2>4. {m[j] : j \in Below(i + 1)} =
              IF e.port = 0 THEN {m[j] : j \in Below(i)} ELSE {m[j] : j \in Below(i)} \cup {e}
      <3>. HIDE DEF Below
      <3>. QED  BY <2>3
    <2>5. CASE e.port = 0
      <3>. HIDE DEF Below, n, e
      <3>1. Holds(f[i + 1], i + 1)
        BY <2>1, <2>2, <2>4, <2>5
      <3>. QED  BY <2>1, <3>1
    <2>6. CASE e.port # 0
      <3>1. e \in PortEntries /\ e \in Content(m, c)
        BY <2>1, <2>6, SlotKinds, ContentEntries
      <3>2. Content(n, nc) \subseteq Content(m, c) /\ e \notin Content(n, nc)
        <4>1. \A j \in Below(i) : j \in 0 .. c - 1 /\ m[j].port # 0 /\ j # i
          BY <1>2
        <4>2. \A j \in Below(i) : m[j] \in Content(m, c) /\ m[j] # e
          BY <2>6, <4>1 DEF IsTable, Content
        <4>. HIDE DEF Below, n, e
        <4>. QED  BY <2>1, <4>2
      <3>3. \A d \in Content(n, nc) : d.port # e.port
        BY <3>1, <3>2, ContentEntries
      <3>4. Cardinality(Content(n, nc)) <= Cardinality(Content(m, c))
        BY <1>3, <3>2, FS_Subset
      <3>5. Cardinality(Content(n, nc)) < nc
        <4>1. IsFiniteSet(Content(n, nc))
          BY <1>3, <3>2, FS_Subset
        <4>2. Cardinality(Content(n, nc)) \in Nat /\ Cardinality(Content(m, c)) \in Nat
          BY <1>3, <4>1, FS_CardinalityType
        <4>. QED  BY <3>4, <4>2
      <3>. HIDE DEF Below, n, e
      <3>6. PICK x \in 0 .. nc - 1 : n[x].port = 0
        BY <2>1, <3>5, RoomLeft
      <3>. DEFINE new == Placed(n, nc, e)
      <3>7. IsTable(new, nc) /\ Content(new, nc) = Content(n, nc) \cup {e}
        BY <2>1, <3>1, <3>3, <3>6, PlacingAdds
      <3>8. f[i + 1] = new
        BY <2>2, <2>6
      <3>9. \A z \in 0 .. nc - 1 : new[z] # Closed
        <4>1. n \in [0 .. nc - 1 -> Slots] /\ e # Closed
          BY <2>1, <2>6, SlotKinds DEF IsTable
        <4>. QED  BY <2>1, <4>1 DEF Placed
      <3>. HIDE DEF new
      <3>10. Holds(f[i + 1], i + 1)
        BY ZenonT(40), <2>1, <2>4, <2>6, <3>7, <3>8, <3>9
      <3>. QED  BY <2>1, <3>10
    <2>. QED  BY <2>5, <2>6
  <1>6. c \in T
    <2>. HIDE DEF T
    <2>1. 0 .. c \subseteq T
      BY <1>2, <1>4, <1>5, UpTo
    <2>. QED  BY <1>2, <2>1
  <1>7. {m[j] : j \in Below(c)} = Content(m, c)
    BY DEF Content
  <1>. HIDE DEF Below
  <1>. QED  BY <1>1, <1>6, <1>7


-----------------------------------------------------------------------------
(* The counters, and the lookups, in terms of the content.                 *)
Con == Content(map_, capacity_)

LiveOf(C, h) == {e \in C : e.handler = h /\ e.state = "kLivePort"}

DeletedSlots(m, c) == {i \in 0 .. c - 1 : m[i].handler = DELETED}

PortInv ==
    /\ IsTable(map_, capacity_)
    /\ used_ = Cardinality(Con) /\ deleted_ = Cardinality(DeletedSlots(map_, capacity_))
    /\ used_ + deleted_ < capacity_
    /\ live_ports_ \in [Handlers -> Int]
    /\ \A h \in Isolates : live_ports_[h] = Cardinality(LiveOf(Con, h))

LEMMA CountsAreNumbers ==
    ASSUME NEW m, NEW c, IsTable(m, c)
    PROVE  /\ c \in Nat \ {0} /\ IsFiniteSet(Content(m, c)) /\ IsFiniteSet(DeletedSlots(m, c))
           /\ Cardinality(Content(m, c)) \in 0 .. c
           /\ Cardinality(DeletedSlots(m, c)) \in Nat
           /\ \A h : IsFiniteSet(LiveOf(Content(m, c), h))
  <1>. DEFINE S == {i \in 0 .. c - 1 : m[i] \in Content(m, c)}
  <1>1. c \in Nat \ {0}
    BY DEF IsTable
  <1>2. IsFiniteSet(0 .. c - 1) /\ Cardinality(0 .. c - 1) = c
    BY <1>1, FS_Interval
  <1>3. IsFiniteSet(DeletedSlots(m, c)) /\ Cardinality(DeletedSlots(m, c)) \in Nat
    <2>1. DeletedSlots(m, c) \in SUBSET (0 .. c - 1)
      BY DEF DeletedSlots
    <2>. QED  BY <1>2, <2>1, FS_Subset, FS_CardinalityType
  <1>4. IsFiniteSet(Content(m, c)) /\ Cardinality(S) = Cardinality(Content(m, c))
    <2>1. \A E \in SUBSET Content(m, c) :
             IsFiniteSet(E) /\ Cardinality({i \in 0 .. c - 1 : m[i] \in E}) = Cardinality(E)
      BY SlotsCounted
    <2>. QED  BY <2>1
  <1>5. Cardinality(S) <= c
    <2>1. S \in SUBSET (0 .. c - 1)
      OBVIOUS
    <2>. HIDE DEF S
    <2>. QED  BY ZenonT(40), <1>2, <2>1, FS_Subset
  <1>6. Cardinality(Content(m, c)) \in Nat
    BY <1>4, FS_CardinalityType
  <1>7. ASSUME NEW h PROVE IsFiniteSet(LiveOf(Content(m, c), h))
    <2>1. LiveOf(Content(m, c), h) \in SUBSET Content(m, c)
      BY DEF LiveOf
    <2>. QED  BY <1>4, <2>1, FS_Subset
  <1>. HIDE DEF S
  <1>. QED  BY <1>1, <1>3, <1>4, <1>5, <1>6, <1>7

(* MaintainInvariants keeps the content, and leaves a free slot.           *)
LEMMA Maintained ==
    ASSUME NEW m, NEW used, NEW deleted, IsTable(m, capacity_),
           used = Cardinality(Content(m, capacity_)),
           deleted = Cardinality(DeletedSlots(m, capacity_)),
           MaintainInvariants(m, used, deleted)
    PROVE  /\ IsTable(map_', capacity_') /\ Con' = Content(m, capacity_)
           /\ used_' = Cardinality(Con') /\ deleted_' = Cardinality(DeletedSlots(map_', capacity_'))
           /\ used_' + deleted_' < capacity_'
  <1>1. capacity_ \in Nat \ {0} /\ used \in 0 .. capacity_ /\ deleted \in Nat
    BY CountsAreNumbers
  <1>2. ASSUME NEW nc \in Nat \ {0}, used < nc, Rehash(m, used, nc)
        PROVE  /\ IsTable(map_', capacity_') /\ Con' = Content(m, capacity_)
               /\ used_' = Cardinality(Con') /\ deleted_' = Cardinality(DeletedSlots(map_', capacity_'))
               /\ used_' + deleted_' < capacity_'
    <2>1. /\ map_' = Rehashed(m, capacity_, nc) /\ capacity_' = nc
          /\ used_' = used /\ deleted_' = 0
      BY <1>2 DEF Rehash
    <2>2. /\ IsTable(map_', nc) /\ Content(map_', nc) = Content(m, capacity_)
          /\ \A i \in 0 .. nc - 1 : map_'[i] # Closed
      BY <1>2, <2>1, Rehashing
    <2>3. DeletedSlots(map_', nc) = {}
      <3>1. \A i \in 0 .. nc - 1 : map_'[i].handler # DELETED
        BY <2>2, SlotKinds DEF IsTable
      <3>. QED  BY <3>1 DEF DeletedSlots
    <2>4. Cardinality(DeletedSlots(map_', nc)) = 0
      BY <2>3, FS_EmptySet
    <2>. QED  BY <1>1, <1>2, <2>1, <2>2, <2>4 DEF Con
  <1>3. CASE used > (capacity_ \div 4) * 3
    <2>1. 2 * capacity_ \in Nat \ {0} /\ used < 2 * capacity_
      BY <1>1
    <2>. QED  BY <1>2, <1>3, <2>1 DEF MaintainInvariants
  <1>4. CASE ~(used > (capacity_ \div 4) * 3) /\ capacity_ - used - deleted < deleted
    <2>1. used < capacity_
      BY <1>1, <1>4
    <2>. QED  BY <1>1, <1>2, <1>4, <2>1 DEF MaintainInvariants
  <1>5. CASE ~(used > (capacity_ \div 4) * 3) /\ ~(capacity_ - used - deleted < deleted)
    <2>1. used + deleted < capacity_
      BY <1>1, <1>5
    <2>. QED  BY <1>5, <2>1 DEF MaintainInvariants, Con
  <1>. QED  BY <1>3, <1>4, <1>5


-----------------------------------------------------------------------------
(* The operations.                                                         *)
Opened(port, h) == [port |-> port, handler |-> h, state |-> "kNewPort"]

LEMMA CreateStep ==
    ASSUME PortInv, NEW h \in Handlers, NEW port \in PortIds, CreatePort(h, port)
    PROVE  /\ PortInv' /\ Con' = Con \cup {Opened(port, h)}
           /\ \A d \in Con : d.port # port
  <1>. DEFINE e == Opened(port, h)
              m == Placed(map_, capacity_, e)
              x == UnusedSlot(map_, capacity_, port)
  <1>1. IsTable(map_, capacity_) /\ used_ = Cardinality(Con)
        /\ deleted_ = Cardinality(DeletedSlots(map_, capacity_)) /\ used_ + deleted_ < capacity_
    BY DEF PortInv
  <1>2. /\ capacity_ \in Nat \ {0} /\ IsFiniteSet(Con) /\ IsFiniteSet(DeletedSlots(map_, capacity_))
        /\ used_ \in Nat /\ deleted_ \in Nat
    BY <1>1, CountsAreNumbers DEF Con
  <1>3. e \in PortEntries /\ e.port = port /\ e.handler = h /\ e.state = "kNewPort"
    BY DEF Opened, PortEntries, States
  <1>4. \A d \in Con : d.port # port
    <2>1. FindPort(port) < 0 /\ port # 0
      BY PortsAssumption DEF CreatePort, AllocatePort
    <2>2. \A i \in 0 .. capacity_ - 1 : map_[i].port # port
      BY <1>1, <1>2, <2>1, FindPortIs
    <2>. QED  BY <1>1, <2>2, ContentEntries DEF Con
  <1>5. PICK i \in 0 .. capacity_ - 1 : map_[i].port = 0
    BY <1>1, <1>2, RoomLeft DEF Con
  <1>6. /\ x \in 0 .. capacity_ - 1 /\ map_[x].port = 0 /\ IsTable(m, capacity_)
        /\ Content(m, capacity_) = Con \cup {e}
    BY <1>1, <1>3, <1>4, <1>5, PlacingAdds DEF Con
  <1>7. MaintainInvariants(m, used_ + 1, ConsumeDeleted(x))
    BY <1>3 DEF CreatePort, Placed, Opened
  <1>8. Cardinality(Content(m, capacity_)) = used_ + 1
    <2>1. e \notin Con
      BY <1>3, <1>4
    <2>. HIDE DEF e
    <2>2. Cardinality(Con \cup {e}) = Cardinality(Con) + 1
      BY ZenonT(40), <1>2, <2>1, FS_AddElement
    <2>. QED  BY <1>1, <1>6, <2>2
  <1>9. Cardinality(DeletedSlots(m, capacity_)) = ConsumeDeleted(x)
    <2>1. \A j \in 0 .. capacity_ - 1 : m[j] = IF j = x THEN e ELSE map_[j]
      BY <1>1, <1>3, <1>6 DEF Placed, IsTable
    <2>2. e.handler # DELETED
      BY <1>3, SlotKinds
    <2>. HIDE DEF m, e, x
    <2>3. DeletedSlots(m, capacity_) = DeletedSlots(map_, capacity_) \ {x}
      BY <2>1, <2>2 DEF DeletedSlots
    <2>4. x \in DeletedSlots(map_, capacity_) <=> map_[x].handler = DELETED
      BY <1>6 DEF DeletedSlots
    <2>5. Cardinality(DeletedSlots(map_, capacity_) \ {x}) =
              IF x \in DeletedSlots(map_, capacity_) THEN deleted_ - 1 ELSE deleted_
      BY ZenonT(40), <1>1, <1>2, FS_RemoveElement
    <2>. QED  BY <2>3, <2>4, <2>5 DEF ConsumeDeleted
  <1>. HIDE DEF m, x
  <1>10. /\ IsTable(map_', capacity_') /\ Con' = Con \cup {e}
         /\ used_' = Cardinality(Con') /\ deleted_' = Cardinality(DeletedSlots(map_', capacity_'))
         /\ used_' + deleted_' < capacity_'
    BY ZenonT(40), <1>6, <1>7, <1>8, <1>9, Maintained
  <1>11. /\ live_ports_' \in [Handlers -> Int]
         /\ \A g \in Isolates : live_ports_'[g] = live_ports_[g]
    BY HandlersAssumption DEF CreatePort, PortInv, Handlers
  <1>12. \A g : LiveOf(Con \cup {e}, g) = LiveOf(Con, g)
    BY <1>3 DEF LiveOf
  <1>. HIDE DEF e
  <1>13. \A g \in Isolates : live_ports_'[g] = Cardinality(LiveOf(Con', g))
    BY <1>10, <1>11, <1>12 DEF PortInv
  <1>. QED  BY ZenonT(40), <1>4, <1>10, <1>11, <1>13 DEF PortInv, e

(* What the port map does with the entry of a port that it finds.          *)
LEMMA FoundEntry ==
    ASSUME PortInv, NEW port \in PortIds \cup {ILLEGAL_PORT}, FindPort(port) >= 0
    PROVE  /\ FindPort(port) \in 0 .. capacity_ - 1 /\ port \in PortIds
           /\ map_[FindPort(port)] \in Con /\ map_[FindPort(port)] \in PortEntries
           /\ map_[FindPort(port)].port = port
  <1>1. IsTable(map_, capacity_)
    BY DEF PortInv
  <1>2. PICK i \in 0 .. capacity_ - 1 : map_[i].port = port /\ port # 0 /\ FindPort(port) = i
    BY <1>1, FindPortIs
  <1>3. map_[i] \in Con /\ map_[i] \in PortEntries
    BY <1>1, <1>2, ContentEntries DEF Con
  <1>. QED  BY <1>2, <1>3 DEF ILLEGAL_PORT


Marked(e, state) == [e EXCEPT !.state = state]

WithState(m, i, state) == [m EXCEPT ![i].state = state]

MarkedContent(m, c, i, state) == (Content(m, c) \ {m[i]}) \cup {Marked(m[i], state)}

LEMMA Marking ==
    ASSUME NEW m, NEW c, IsTable(m, c), NEW i \in 0 .. c - 1, m[i].port # 0, NEW state \in States
    PROVE  /\ IsTable(WithState(m, i, state), c)
           /\ DeletedSlots(WithState(m, i, state), c) = DeletedSlots(m, c)
           /\ Content(WithState(m, i, state), c) = MarkedContent(m, c, i, state)
  <1>. DEFINE n == [m EXCEPT ![i].state = state]
              e == Marked(m[i], state)
  <1>1. c \in Nat \ {0} /\ m \in [0 .. c - 1 -> Slots] /\ m[i] \in PortEntries
    BY SlotKinds DEF IsTable
  <1>2. e \in PortEntries /\ e \in Slots /\ e.port = m[i].port /\ e.handler = m[i].handler
    BY <1>1 DEF PortEntries, Marked, Slots
  <1>3. \A j \in 0 .. c - 1 : n[j] = IF j = i THEN e ELSE m[j]
    BY <1>1 DEF Marked
  <1>4. n \in [0 .. c - 1 -> Slots]
    <2>1. n = [j \in 0 .. c - 1 |-> IF j = i THEN e ELSE m[j]]
      BY ZenonT(40), <1>1 DEF Marked
    <2>. HIDE DEF n, e
    <2>. QED  BY <1>1, <1>2, <2>1
  <1>. HIDE DEF n, e
  <1>5. \A j \in 0 .. c - 1 : n[j].port = m[j].port /\ n[j].handler = m[j].handler
    BY <1>2, <1>3
  <1>6. ASSUME NEW j \in 0 .. c - 1, n[j].port # 0
        PROVE  \E k \in 0 .. c - 1 : Probe(n[j].port, c, k) = j /\ Passes(n, c, n[j].port, k)
    <2>1. PICK k \in 0 .. c - 1 : Probe(m[j].port, c, k) = j /\ Passes(m, c, m[j].port, k)
      BY <1>5, <1>6 DEF IsTable
    <2>2. m[j].port \in Nat
      BY <1>1, <1>5, <1>6, SlotKinds
    <2>3. ASSUME NEW q \in 0 .. k - 1 PROVE n[Probe(m[j].port, c, q)].handler # NULL
      <3>1. q \in Nat
        BY <1>1
      <3>2. Probe(m[j].port, c, q) \in 0 .. c - 1
        BY ZenonT(40), <1>1, <2>2, <3>1, ProbeInTable
      <3>. QED  BY <1>5, <2>1, <3>2 DEF Passes
    <2>. QED  BY <1>5, <2>1, <2>3 DEF Passes
  <1>7. IsTable(n, c)
    <2>1. \A x, y \in 0 .. c - 1 : n[x].port # 0 /\ n[x].port = n[y].port => x = y
      BY <1>5 DEF IsTable
    <2>. QED  BY SMTT(60), <1>1, <1>4, <1>6, <2>1 DEF IsTable
  <1>8. DeletedSlots(n, c) = DeletedSlots(m, c)
    BY <1>5 DEF DeletedSlots
  <1>9. Content(n, c) = (Content(m, c) \ {m[i]}) \cup {e}
    <2>. DEFINE In == {j \in 0 .. c - 1 : m[j].port # 0}
    <2>1. {j \in 0 .. c - 1 : n[j].port # 0} = In /\ i \in In
      BY <1>5
    <2>2. \A j \in In : j # i => n[j] = m[j] /\ m[j] # m[i]
      BY <1>3 DEF IsTable
    <2>3. n[i] = e
      BY <1>3
    <2>4. Content(n, c) = {n[j] : j \in In} /\ Content(m, c) = {m[j] : j \in In}
      BY <2>1 DEF Content
    <2>. HIDE DEF In
    <2>. QED  BY <2>1, <2>2, <2>3, <2>4
  <1>. QED  BY ZenonT(40), <1>7, <1>8, <1>9 DEF n, e, WithState, MarkedContent

LEMMA SetStateStep ==
    ASSUME PortInv, NEW port \in PortIds, NEW state \in States \ {"kNewPort"},
           SetPortState(port, state)
    PROVE  /\ PortInv'
           /\ \E e \in Con : /\ e.port = port /\ e.state = "kNewPort"
                             /\ Con' = (Con \ {e}) \cup {Marked(e, state)}
  <1>. DEFINE i == FindPort(port)
              e == map_[i]
              d == Marked(e, state)
  <1>1. /\ IsTable(map_, capacity_) /\ used_ = Cardinality(Con) /\ used_ + deleted_ < capacity_
        /\ deleted_ = Cardinality(DeletedSlots(map_, capacity_))
        /\ live_ports_ \in [Handlers -> Int]
        /\ \A g \in Isolates : live_ports_[g] = Cardinality(LiveOf(Con, g))
    BY DEF PortInv
  <1>2. IsFiniteSet(Con) /\ used_ \in Nat /\ \A g : IsFiniteSet(LiveOf(Con, g))
    BY <1>1, CountsAreNumbers DEF Con
  <1>3. /\ i \in 0 .. capacity_ - 1 /\ e \in Con /\ e \in PortEntries /\ e.port = port
    BY FoundEntry DEF SetPortState
  <1>4. /\ e.handler \in Isolates /\ e.state = "kNewPort"
        /\ map_' = [map_ EXCEPT ![i].state = state]
        /\ live_ports_' = [live_ports_ EXCEPT ![e.handler] = @ + IF state = "kLivePort" THEN 1 ELSE 0]
        /\ UNCHANGED <<capacity_, used_, deleted_, freed>>
    BY DEF SetPortState
  <1>. HIDE DEF i
  <1>5. /\ IsTable(map_', capacity_) /\ Con' = (Con \ {e}) \cup {d}
        /\ DeletedSlots(map_', capacity_) = DeletedSlots(map_, capacity_)
    <2>1. e.port # 0
      BY <1>3, SlotKinds
    <2>2. map_' = WithState(map_, i, state)
      BY <1>4 DEF WithState
    <2>3. /\ IsTable(WithState(map_, i, state), capacity_)
          /\ DeletedSlots(WithState(map_, i, state), capacity_) = DeletedSlots(map_, capacity_)
          /\ Content(WithState(map_, i, state), capacity_) =
                (Content(map_, capacity_) \ {e}) \cup {d}
      <3>1. state \in States
        OBVIOUS
      <3>2. IsTable(map_, capacity_) /\ i \in 0 .. capacity_ - 1 /\ map_[i].port # 0
        BY <1>1, <1>3, <2>1
      <3>3. /\ IsTable(WithState(map_, i, state), capacity_)
            /\ DeletedSlots(WithState(map_, i, state), capacity_) = DeletedSlots(map_, capacity_)
            /\ Content(WithState(map_, i, state), capacity_) = MarkedContent(map_, capacity_, i, state)
        BY Zenon, <3>1, <3>2, Marking
      <3>. QED  BY Zenon, <3>3 DEF MarkedContent
    <2>. QED  BY ZenonT(40), <1>4, <2>2, <2>3 DEF Con
  <1>6. /\ d.handler = e.handler /\ d.state = state /\ d.port = port /\ d \notin Con
    <2>1. d.handler = e.handler /\ d.state = state /\ d.port = port
      BY SMTT(60), <1>3 DEF Marked, PortEntries
    <2>2. \A x \in Con : x.port = port => x = e
      BY <1>1, <1>3, ContentEntries DEF Con
    <2>. QED  BY <1>4, <2>1, <2>2
  <1>. HIDE DEF d, e
  <1>7. Cardinality(Con') = used_
    <2>1. IsFiniteSet(Con \ {e}) /\ Cardinality(Con \ {e}) = used_ - 1
      BY <1>1, <1>2, <1>3, FS_RemoveElement
    <2>2. d \notin Con \ {e}
      BY <1>6
    <2>3. Cardinality((Con \ {e}) \cup {d}) = (used_ - 1) + 1
      BY <2>1, <2>2, FS_AddElement
    <2>. QED  BY <1>2, <1>5, <2>3
  <1>8. ASSUME NEW g \in Isolates PROVE live_ports_'[g] = Cardinality(LiveOf(Con', g))
    <2>1. LiveOf(Con', g) = IF state = "kLivePort" /\ g = e.handler
                            THEN LiveOf(Con, g) \cup {d} ELSE LiveOf(Con, g)
      BY <1>4, <1>5, <1>6 DEF LiveOf
    <2>2. d \notin LiveOf(Con, g)
      BY <1>6 DEF LiveOf
    <2>3. Cardinality(LiveOf(Con, g) \cup {d}) = Cardinality(LiveOf(Con, g)) + 1
      BY ZenonT(40), <1>2, <2>2, FS_AddElement
    <2>4. live_ports_[g] \in Int /\ g \in Handlers
      BY <1>1 DEF Handlers
    <2>. QED  BY <1>1, <1>4, <2>1, <2>3, <2>4
  <1>9. live_ports_' \in [Handlers -> Int]
    BY <1>1, <1>4 DEF Handlers
  <1>10. PortInv'
    BY SMTT(60), <1>1, <1>4, <1>5, <1>7, <1>8, <1>9 DEF PortInv
  <1>. QED  BY <1>3, <1>4, <1>5, <1>10 DEF d


(* Closing the ports in some slots, with the counters adjusted for them.   *)
LEMMA ClosingStep ==
    ASSUME PortInv, NEW X \in SUBSET {i \in 0 .. capacity_ - 1 : map_[i].port # 0},
           MaintainInvariants(ClosedAt(map_, capacity_, X),
                              used_ - Cardinality(X), deleted_ + Cardinality(X))
    PROVE  /\ IsTable(map_', capacity_') /\ Con' = Con \ {map_[i] : i \in X}
           /\ used_' = Cardinality(Con') /\ deleted_' = Cardinality(DeletedSlots(map_', capacity_'))
           /\ used_' + deleted_' < capacity_'
  <1>. DEFINE m == ClosedAt(map_, capacity_, X)
              E == {map_[i] : i \in X}
  <1>1. /\ IsTable(map_, capacity_) /\ used_ = Cardinality(Con)
        /\ deleted_ = Cardinality(DeletedSlots(map_, capacity_))
    BY DEF PortInv
  <1>2. /\ capacity_ \in Nat \ {0} /\ IsFiniteSet(Con) /\ IsFiniteSet(DeletedSlots(map_, capacity_))
        /\ used_ \in Nat /\ deleted_ \in Nat
    BY <1>1, CountsAreNumbers DEF Con
  <1>3. IsTable(m, capacity_) /\ Content(m, capacity_) = Con \ E
    BY <1>1, Closing DEF Con
  <1>4. E \in SUBSET Con
    BY <1>1, ContentEntries DEF Con
  <1>5. /\ X = {i \in 0 .. capacity_ - 1 : map_[i] \in E}
    BY SMTT(60), <1>1 DEF IsTable
  <1>. HIDE DEF E
  <1>6. IsFiniteSet(X) /\ IsFiniteSet(E) /\ Cardinality(X) = Cardinality(E)
    BY <1>1, <1>4, <1>5, SlotsCounted DEF Con
  <1>7. Cardinality(Con \ E) = used_ - Cardinality(X)
    <2>1. Con \cap E = E
      BY <1>4
    <2>2. Cardinality(Con \ E) = Cardinality(Con) - Cardinality(Con \cap E)
      BY ZenonT(40), <1>2, FS_Difference
    <2>. QED  BY <1>1, <1>6, <2>1, <2>2
  <1>8. Cardinality(DeletedSlots(m, capacity_)) = deleted_ + Cardinality(X)
    <2>1. \A i \in 0 .. capacity_ - 1 : m[i] = IF i \in X THEN Closed ELSE map_[i]
      BY DEF ClosedAt
    <2>2. Closed.handler = DELETED /\ \A i \in X : map_[i].handler # DELETED
      <3>1. \A i \in X : map_[i] \in Slots /\ map_[i].port # 0
        BY <1>1 DEF IsTable
      <3>. QED  BY <3>1, SlotKinds
    <2>. HIDE DEF m
    <2>3. DeletedSlots(m, capacity_) = DeletedSlots(map_, capacity_) \cup X
      BY ZenonT(40), <2>1, <2>2 DEF DeletedSlots
    <2>4. DeletedSlots(map_, capacity_) \cap X = {}
      BY <2>2 DEF DeletedSlots
    <2>5. Cardinality({}) = 0 /\ Cardinality(X) \in Nat
      BY <1>6, FS_EmptySet, FS_CardinalityType
    <2>6. Cardinality(DeletedSlots(map_, capacity_) \cup X) = deleted_ + Cardinality(X) - Cardinality({})
      BY <1>1, <1>2, <1>6, <2>4, FS_Union
    <2>. QED  BY <1>2, <2>3, <2>5, <2>6
  <1>9. MaintainInvariants(m, used_ - Cardinality(X), deleted_ + Cardinality(X))
    OBVIOUS
  <1>. HIDE DEF m
  <1>10. used_ - Cardinality(X) = Cardinality(Content(m, capacity_))
    BY <1>3, <1>7
  <1>11. deleted_ + Cardinality(X) = Cardinality(DeletedSlots(m, capacity_))
    BY <1>8
  <1>. QED  BY ZenonT(40), <1>3, <1>9, <1>10, <1>11, Maintained DEF E

LEMMA CloseStep ==
    ASSUME PortInv, NEW port \in PortIds \cup {ILLEGAL_PORT}, ClosePort(port)
    PROVE  /\ PortInv' /\ port \in PortIds
           /\ \E e \in Con : e.port = port /\ Con' = Con \ {e}
  <1>. DEFINE i == FindPort(port)
              e == map_[i]
              h == e.handler
  <1>1. /\ IsTable(map_, capacity_) /\ live_ports_ \in [Handlers -> Int]
        /\ \A g \in Isolates : live_ports_[g] = Cardinality(LiveOf(Con, g))
    BY DEF PortInv
  <1>2. /\ i \in 0 .. capacity_ - 1 /\ e \in Con /\ e \in PortEntries /\ e.port = port
        /\ port \in PortIds
    BY FoundEntry DEF ClosePort
  <1>3. /\ MaintainInvariants([map_ EXCEPT ![i] = Closed], used_ - 1, deleted_ + 1)
        /\ live_ports_' = [live_ports_ EXCEPT ![h] = @ - LiveAmong({i})]
    BY DEF ClosePort
  <1>. HIDE DEF i
  <1>4. /\ IsTable(map_', capacity_') /\ Con' = Con \ {e}
        /\ used_' = Cardinality(Con') /\ deleted_' = Cardinality(DeletedSlots(map_', capacity_'))
        /\ used_' + deleted_' < capacity_'
    <2>1. [map_ EXCEPT ![i] = Closed] = ClosedAt(map_, capacity_, {i})
      BY ZenonT(40), <1>1 DEF ClosedAt, IsTable
    <2>2. Cardinality({i}) = 1
      BY FS_Singleton
    <2>3. {i} \in SUBSET {j \in 0 .. capacity_ - 1 : map_[j].port # 0}
      BY <1>2, SlotKinds
    <2>4. {map_[j] : j \in {i}} = {e}
      OBVIOUS
    <2>. QED  BY <1>3, <2>1, <2>2, <2>3, <2>4, ClosingStep
  <1>5. LiveAmong({i}) = IF e.state = "kLivePort" THEN 1 ELSE 0
    <2>1. {j \in {i} : map_[j].state = "kLivePort"} = IF e.state = "kLivePort" THEN {i} ELSE {}
      OBVIOUS
    <2>. QED  BY ZenonT(40), <2>1, FS_Singleton, FS_EmptySet DEF LiveAmong
  <1>6. h \in Handlers
    BY <1>2, SlotKinds
  <1>7. live_ports_' \in [Handlers -> Int]
    <2>1. LiveAmong({i}) \in Int
      BY <1>5
    <2>. HIDE DEF h
    <2>. QED  BY <1>1, <1>3, <1>6, <2>1
  <1>8. ASSUME NEW g \in Isolates PROVE live_ports_'[g] = Cardinality(LiveOf(Con', g))
    <2>1. LiveOf(Con', g) = LiveOf(Con, g) \ {e}
      BY <1>4 DEF LiveOf
    <2>2. e \in LiveOf(Con, g) <=> e.state = "kLivePort" /\ h = g
      BY <1>2 DEF LiveOf
    <2>3. IsFiniteSet(LiveOf(Con, g))
      BY <1>1, CountsAreNumbers DEF Con
    <2>4. Cardinality(LiveOf(Con, g) \ {e}) =
              IF e \in LiveOf(Con, g) THEN Cardinality(LiveOf(Con, g)) - 1 ELSE Cardinality(LiveOf(Con, g))
      BY ZenonT(40), <2>3, FS_RemoveElement
    <2>5. live_ports_[g] \in Int /\ g \in Handlers
      BY <1>1 DEF Handlers
    <2>6. live_ports_'[g] = IF h = g THEN live_ports_[g] - LiveAmong({i}) ELSE live_ports_[g]
      BY <1>1, <1>3, <2>5
    <2>. HIDE DEF e
    <2>. QED  BY SMTT(60), <1>1, <1>5, <2>1, <2>2, <2>4, <2>5, <2>6
  <1>9. PortInv'
    BY ZenonT(40), <1>4, <1>7, <1>8 DEF PortInv
  <1>. QED  BY <1>2, <1>4, <1>9


LEMMA EntriesCounted ==
    ASSUME PortInv, NEW E \in SUBSET Con
    PROVE  /\ IsFiniteSet({i \in 0 .. capacity_ - 1 : map_[i] \in E})
           /\ Cardinality({i \in 0 .. capacity_ - 1 : map_[i] \in E}) = Cardinality(E)
  <1>1. IsTable(map_, capacity_)
    BY DEF PortInv
  <1>. QED  BY <1>1, SlotsCounted DEF Con

(* The slots of an isolate, and those of its live ports.                   *)
LEMMA SlotsOf ==
    ASSUME PortInv, NEW h \in Isolates
    PROVE  /\ HandlersPorts(h) = {i \in 0 .. capacity_ - 1 : map_[i] \in {e \in Con : e.handler = h}}
           /\ LiveAmong(HandlersPorts(h)) = Cardinality(LiveOf(Con, h))
           /\ DOMAIN map_ = 0 .. capacity_ - 1
  <1>1. IsTable(map_, capacity_)
    BY DEF PortInv
  <1>2. DOMAIN map_ = 0 .. capacity_ - 1
    BY <1>1 DEF IsTable
  <1>3. h # NULL /\ h # DELETED
    BY HandlersAssumption
  <1>4. \A i \in 0 .. capacity_ - 1 : map_[i].handler = h => map_[i] \in Con
    <2>. SUFFICES ASSUME NEW i \in 0 .. capacity_ - 1, map_[i].handler = h PROVE map_[i] \in Con
      OBVIOUS
    <2>1. map_[i] \in Slots
      BY <1>1, ContentEntries
    <2>2. map_[i].port # 0
      BY <1>3, <2>1, SlotKinds
    <2>. QED  BY <1>1, <2>2, ContentEntries DEF Con
  <1>5. HandlersPorts(h) = {i \in 0 .. capacity_ - 1 : map_[i] \in {e \in Con : e.handler = h}}
    BY <1>2, <1>4 DEF HandlersPorts
  <1>6. {i \in HandlersPorts(h) : map_[i].state = "kLivePort"} =
            {i \in 0 .. capacity_ - 1 : map_[i] \in LiveOf(Con, h)}
    BY <1>5 DEF LiveOf
  <1>7. LiveOf(Con, h) \in SUBSET Con
    BY DEF LiveOf
  <1>8. Cardinality({i \in 0 .. capacity_ - 1 : map_[i] \in LiveOf(Con, h)}) = Cardinality(LiveOf(Con, h))
    BY <1>7, EntriesCounted
  <1>. QED  BY ZenonT(40), <1>2, <1>5, <1>6, <1>8 DEF LiveAmong

LEMMA CloseAllStep ==
    ASSUME PortInv, NEW h \in Isolates, ClosePorts(h)
    PROVE  PortInv' /\ Con' = {e \in Con : e.handler # h}
  <1>. DEFINE X == HandlersPorts(h)
  <1>1. /\ IsTable(map_, capacity_) /\ live_ports_ \in [Handlers -> Int]
        /\ \A g \in Isolates : live_ports_[g] = Cardinality(LiveOf(Con, g))
    BY DEF PortInv
  <1>2. /\ X = {i \in 0 .. capacity_ - 1 : map_[i] \in {e \in Con : e.handler = h}}
        /\ LiveAmong(X) = Cardinality(LiveOf(Con, h)) /\ DOMAIN map_ = 0 .. capacity_ - 1
    BY SlotsOf
  <1>3. /\ MaintainInvariants([i \in DOMAIN map_ |-> IF i \in X THEN Closed ELSE map_[i]],
                              used_ - Cardinality(X), deleted_ + Cardinality(X))
        /\ live_ports_' = [live_ports_ EXCEPT ![h] = @ - LiveAmong(X)]
    BY DEF ClosePorts, LiveWithout
  <1>. HIDE DEF X
  <1>4. X \in SUBSET {i \in 0 .. capacity_ - 1 : map_[i].port # 0}
    <2>1. \A e \in Con : e.port # 0
      BY <1>1, ContentEntries DEF Con
    <2>. QED  BY SMTT(60), <1>2, <2>1
  <1>5. {map_[i] : i \in X} = {e \in Con : e.handler = h}
    <2>1. \A e \in Con : \E i \in 0 .. capacity_ - 1 : map_[i] = e
      BY SMTT(60), <1>1, ContentEntries DEF Con
    <2>. QED  BY <1>2, <2>1
  <1>6. /\ IsTable(map_', capacity_') /\ Con' = {e \in Con : e.handler # h}
        /\ used_' = Cardinality(Con') /\ deleted_' = Cardinality(DeletedSlots(map_', capacity_'))
        /\ used_' + deleted_' < capacity_'
    <2>1. [i \in DOMAIN map_ |-> IF i \in X THEN Closed ELSE map_[i]] = ClosedAt(map_, capacity_, X)
      BY <1>2 DEF ClosedAt
    <2>2. Con \ {map_[i] : i \in X} = {e \in Con : e.handler # h}
      BY <1>5
    <2>. QED  BY <1>3, <1>4, <2>1, <2>2, ClosingStep
  <1>7. h \in Handlers /\ live_ports_[h] \in Int /\ LiveAmong(X) = live_ports_[h]
    BY <1>1, <1>2 DEF Handlers
  <1>8. live_ports_' \in [Handlers -> Int]
    BY <1>1, <1>3, <1>7
  <1>9. ASSUME NEW g \in Isolates PROVE live_ports_'[g] = Cardinality(LiveOf(Con', g))
    <2>1. CASE g = h
      <3>1. LiveOf(Con', g) = {}
        BY <1>6, <2>1 DEF LiveOf
      <3>2. live_ports_'[g] = 0
        BY <1>1, <1>3, <1>7, <2>1
      <3>. QED  BY <3>1, <3>2, FS_EmptySet
    <2>2. CASE g # h
      <3>1. LiveOf(Con', g) = LiveOf(Con, g)
        BY <1>6, <2>2 DEF LiveOf
      <3>2. live_ports_'[g] = live_ports_[g]
        BY <1>1, <1>3, <2>2 DEF Handlers
      <3>. QED  BY <1>1, <3>1, <3>2
    <2>. QED  BY <2>1, <2>2
  <1>. QED  BY <1>6, <1>8, <1>9 DEF PortInv

LEMMA InitialTable == Init => PortInv /\ Con = {}
  <1>. SUFFICES ASSUME Init PROVE PortInv /\ Con = {}
    OBVIOUS
  <1>1. /\ capacity_ \in Nat \ {0} /\ map_ = [j \in 0 .. capacity_ - 1 |-> Free]
        /\ used_ = 0 /\ deleted_ = 0 /\ live_ports_ = [h \in Handlers |-> 0]
    BY CapacityAssumption DEF Init
  <1>2. IsTable(map_, capacity_) /\ Con = {}
    BY ZenonT(40), <1>1, EmptyTable DEF Con
  <1>3. DeletedSlots(map_, capacity_) = {}
    BY <1>1, HandlersAssumption DEF DeletedSlots, Free
  <1>4. \A h \in Isolates : LiveOf(Con, h) = {} /\ live_ports_[h] = 0
    BY <1>1, <1>2 DEF LiveOf, Handlers
  <1>5. live_ports_ \in [Handlers -> Int]
    BY <1>1
  <1>6. \A h \in Isolates : live_ports_[h] = Cardinality(LiveOf(Con, h))
    BY <1>4, FS_EmptySet
  <1>7. used_ = Cardinality(Con) /\ deleted_ = Cardinality(DeletedSlots(map_, capacity_))
    BY <1>1, <1>2, <1>3, FS_EmptySet
  <1>8. used_ + deleted_ < capacity_
    BY <1>1
  <1>. QED  BY <1>2, <1>5, <1>6, <1>7, <1>8 DEF PortInv


LEMMA PortStep == PortInv /\ [Next]_vars => PortInv'
  <1>. SUFFICES ASSUME PortInv, [Next]_vars PROVE PortInv'
    OBVIOUS
  <1>1. CASE UNCHANGED vars
    BY <1>1 DEF vars, PortInv, Con
  <1>2. ASSUME NEW port \in PortIds \cup {ILLEGAL_PORT}, ClosePortFails(port) PROVE PortInv'
    BY <1>1, <1>2 DEF ClosePortFails
  <1>. QED  BY <1>1, <1>2, CreateStep, SetStateStep, CloseStep, CloseAllStep DEF Next

(* Every call of PortMap keeps the table a hash table: each entry can be   *)
(* reached from the slot its port hashes to, no port is entered twice, and *)
(* the counters used_, deleted_ and live_ports count what they are named   *)
(* after.                                                                  *)
THEOREM PortInvariant == Spec => []PortInv
  <1>1. Init => PortInv
    BY InitialTable
  <1>. QED  BY <1>1, PortStep, PTL DEF Spec

LEMMA FreeSlot ==
    ASSUME PortInv
    PROVE  \E i \in 0 .. capacity_ - 1 : map_[i].handler = NULL
  <1>. DEFINE U == {i \in 0 .. capacity_ - 1 : map_[i] \in Con}
              D == DeletedSlots(map_, capacity_)
  <1>. SUFFICES ASSUME \A i \in 0 .. capacity_ - 1 : map_[i].handler # NULL PROVE FALSE
    OBVIOUS
  <1>1. /\ IsTable(map_, capacity_) /\ used_ = Cardinality(Con) /\ deleted_ = Cardinality(D)
        /\ used_ + deleted_ < capacity_
    BY DEF PortInv
  <1>2. capacity_ \in Nat \ {0} /\ IsFiniteSet(D) /\ used_ \in Nat /\ deleted_ \in Nat
    BY <1>1, CountsAreNumbers DEF Con
  <1>3. IsFiniteSet(U) /\ Cardinality(U) = used_
    <2>1. Con \in SUBSET Con
      OBVIOUS
    <2>. QED  BY <1>1, <2>1, EntriesCounted
  <1>4. 0 .. capacity_ - 1 = U \cup D
    <2>1. \A i \in 0 .. capacity_ - 1 : map_[i] \in Slots /\ (map_[i].port # 0 => map_[i] \in Con)
      BY <1>1, ContentEntries DEF Con
    <2>2. \A i \in 0 .. capacity_ - 1 : map_[i].port = 0 => map_[i].handler = DELETED
      BY <2>1, SlotKinds
    <2>. QED  BY <2>1, <2>2 DEF DeletedSlots
  <1>. HIDE DEF U, D
  <1>5. Cardinality(U \cup D) = used_ + deleted_ - Cardinality(U \cap D)
    BY <1>1, <1>2, <1>3, FS_Union
  <1>6. Cardinality(U \cap D) \in Nat
    BY <1>3, FS_Intersection, FS_CardinalityType
  <1>7. Cardinality(0 .. capacity_ - 1) = capacity_
    BY <1>2, FS_Interval
  <1>8. capacity_ = used_ + deleted_ - Cardinality(U \cap D)
    BY ZenonT(40), <1>4, <1>5, <1>7
  <1>. QED  BY <1>1, <1>2, <1>6, <1>8

(* However many ports there are and whatever is done with them, the table  *)
(* never fills up and its counters stay exact: a search ends, be the port  *)
(* there or not, and an isolate that counts no live ports has none.        *)
THEOREM TableStaysInOrder == Spec => []TableInOrder
  <1>1. ASSUME PortInv PROVE TableInOrder
    <2>1. /\ IsTable(map_, capacity_) /\ used_ = Cardinality(Con) /\ used_ + deleted_ < capacity_
          /\ deleted_ = Cardinality(DeletedSlots(map_, capacity_))
          /\ \A g \in Isolates : live_ports_[g] = Cardinality(LiveOf(Con, g))
      BY <1>1 DEF PortInv
    <2>2. DOMAIN map_ = 0 .. capacity_ - 1 /\ map_ \in [0 .. capacity_ - 1 -> Slots]
      BY <2>1 DEF IsTable
    <2>3. map_ \in [0 .. capacity_ - 1 -> Entries]
      <3>1. Slots \subseteq Entries
        BY DEF Slots, Free, Closed, PortEntries, Entries, States
      <3>. QED  BY <2>2, <3>1
    <2>4. used_ = Cardinality({i \in DOMAIN map_ : map_[i].port # 0})
      <3>1. {i \in DOMAIN map_ : map_[i].port # 0} = {i \in 0 .. capacity_ - 1 : map_[i] \in Con}
        BY ZenonT(40), <2>1, <2>2, ContentEntries DEF Con
      <3>2. Con \in SUBSET Con
        OBVIOUS
      <3>3. Cardinality({i \in 0 .. capacity_ - 1 : map_[i] \in Con}) = Cardinality(Con)
        BY <1>1, <3>2, EntriesCounted
      <3>. QED  BY ZenonT(40), <2>1, <3>1, <3>3
    <2>5. deleted_ = Cardinality({i \in DOMAIN map_ : map_[i].handler = DELETED})
      BY <2>1, <2>2 DEF DeletedSlots
    <2>6. \A port \in PortIds : Stops(port)
      BY <1>1, <2>1, FreeSlot, SearchEnds
    <2>7. \A h \in Isolates : live_ports_[h] = LiveAmong(HandlersPorts(h))
      BY <1>1, <2>1, SlotsOf
    <2>. QED  BY <2>1, <2>3, <2>4, <2>5, <2>6, <2>7 DEF TableInOrder
  <1>. QED  BY <1>1, PortInvariant, PTL


-----------------------------------------------------------------------------
(* A lookup gives what the content says.                                   *)
LookupsAgree ==
    \A port \in PortIds :
       /\ \A e \in Con : e.port = port => Lookup(port) = [handler |-> e.handler, state |-> e.state]
       /\ (\A e \in Con : e.port # port) => Lookup(port) = Abstract!ClosedPort

LEMMA LookupsAreRight == PortInv => LookupsAgree
  <1>. SUFFICES ASSUME PortInv, NEW port \in PortIds
                PROVE  /\ \A e \in Con : e.port = port =>
                             Lookup(port) = [handler |-> e.handler, state |-> e.state]
                       /\ (\A e \in Con : e.port # port) => Lookup(port) = Abstract!ClosedPort
    BY DEF LookupsAgree
  <1>1. IsTable(map_, capacity_) /\ capacity_ \in Nat
    BY SMTT(60) DEF PortInv, IsTable
  <1>2. ASSUME NEW e \in Con, e.port = port
        PROVE  Lookup(port) = [handler |-> e.handler, state |-> e.state]
    <2>1. PICK i \in 0 .. capacity_ - 1 : map_[i] = e /\ e.port # 0
      BY <1>1, ContentEntries DEF Con
    <2>2. FindPort(port) = i
      BY <1>1, <1>2, <2>1, PortIsFound
    <2>3. ~(i < 0)
      BY <1>1
    <2>. QED  BY <2>1, <2>2, <2>3 DEF Lookup
  <1>3. ASSUME \A e \in Con : e.port # port PROVE Lookup(port) = Abstract!ClosedPort
    <2>1. \A i \in 0 .. capacity_ - 1 : map_[i].port = port => port = 0
      BY <1>1, <1>3, ContentEntries DEF Con
    <2>2. FindPort(port) = -1
      BY <1>1, <2>1, FindPortIs
    <2>. QED  BY <2>2 DEF Lookup, Abstract!ClosedPort
  <1>. QED  BY <1>2, <1>3

(* A port keeps its entry when the step changes only those of others.      *)
LEMMA PortsStay ==
    ASSUME LookupsAgree, LookupsAgree', NEW port \in PortIds,
           \A e \in Con : e.port = port => e \in Con',
           \A e \in Con' : e.port = port => e \in Con
    PROVE  OpenPorts'[port] = OpenPorts[port]
  <1>1. OpenPorts[port] = Lookup(port) /\ OpenPorts'[port] = Lookup(port)'
    BY DEF OpenPorts
  <1>2. CASE \E e \in Con : e.port = port
    BY <1>1, <1>2 DEF LookupsAgree
  <1>3. CASE \A e \in Con : e.port # port
    <2>1. \A e \in Con' : e.port # port
      BY <1>3
    <2>. QED  BY <1>1, <1>3, <2>1 DEF LookupsAgree
  <1>. QED  BY <1>2, <1>3

LEMMA PortSteps ==
    ASSUME PortInv, PortInv', LookupsAgree, LookupsAgree', [Next]_vars
    PROVE  [DOMAIN OpenPorts' = PortIds /\ Abstract!Next]_OpenPorts
  <1>1. DOMAIN OpenPorts' = PortIds
    BY DEF OpenPorts
  <1>2. \A port \in PortIds : OpenPorts[port] = Lookup(port) /\ OpenPorts'[port] = Lookup(port)'
    BY SMTT(60) DEF OpenPorts
  <1>3. \A d, e \in Con : d.port = e.port => d = e
    BY Zenon, ContentEntries DEF PortInv, Con
  <1>4. \A e \in Con : e \in PortEntries /\ e.handler # NULL
    <2>1. Con \subseteq PortEntries
      BY Zenon, ContentEntries DEF PortInv, Con
    <2>. QED  BY <2>1, SlotKinds
  <1>5. ASSUME NEW h \in Handlers, NEW port \in PortIds, CreatePort(h, port) PROVE Abstract!Next
    <2>. DEFINE e == Opened(port, h)
    <2>1. Con' = Con \cup {e} /\ \A d \in Con : d.port # port
      BY <1>5, CreateStep
    <2>2. e.port = port /\ e.handler = h /\ e.state = "kNewPort"
      BY DEF Opened
    <2>. HIDE DEF e
    <2>3. OpenPorts[port] = Abstract!ClosedPort
      BY <1>2, <2>1 DEF LookupsAgree
    <2>4. OpenPorts'[port] = [handler |-> h, state |-> "kNewPort"]
      BY <1>2, <2>1, <2>2 DEF LookupsAgree
    <2>5. \A q \in PortIds \ {port} : OpenPorts'[q] = OpenPorts[q]
      BY SMTT(60), <2>1, <2>2, PortsStay
    <2>6. Abstract!Open(port, h)
      BY <2>3, <2>4, <2>5 DEF Abstract!Open, Abstract!Change
    <2>. QED  BY <2>6 DEF Abstract!Next
  <1>6. ASSUME NEW port \in PortIds, NEW state \in States \ {"kNewPort"}, SetPortState(port, state)
        PROVE  Abstract!Next
    <2>1. PICK e \in Con : /\ e.port = port /\ e.state = "kNewPort"
                           /\ Con' = (Con \ {e}) \cup {Marked(e, state)}
      BY <1>6, SetStateStep
    <2>. DEFINE d == Marked(e, state)
    <2>2. d.port = port /\ d.handler = e.handler /\ d.state = state
      BY SMTT(60), <1>4, <2>1 DEF Marked, PortEntries
    <2>. HIDE DEF d
    <2>3. OpenPorts[port] = [handler |-> e.handler, state |-> "kNewPort"]
      <3>1. OpenPorts[port] = [handler |-> e.handler, state |-> e.state]
        BY Zenon, <1>2, <2>1 DEF LookupsAgree
      <3>. QED  BY Zenon, <2>1, <3>1
    <2>4. OpenPorts'[port] = [handler |-> e.handler, state |-> state]
      <3>1. d \in Con'
        BY Zenon, <2>1 DEF d
      <3>2. OpenPorts'[port] = [handler |-> d.handler, state |-> d.state]
        BY Zenon, <1>2, <2>2, <3>1 DEF LookupsAgree
      <3>. QED  BY Zenon, <2>2, <3>2
    <2>5. OpenPorts'[port] = [OpenPorts[port] EXCEPT !.state = state]
      BY <2>3, <2>4
    <2>6. \A q \in PortIds \ {port} : OpenPorts'[q] = OpenPorts[q]
      <3>. TAKE q \in PortIds \ {port}
      <3>1. \A x : x.port = q => (x \in Con <=> x \in Con')
        BY <2>1, <2>2 DEF d
      <3>. QED  BY <3>1, PortsStay
    <2>7. Abstract!SetState(port, state)
      BY <2>3, <2>5, <2>6 DEF Abstract!SetState, Abstract!Change
    <2>8. state \in {"kLivePort", "kControlPort"}
      BY DEF States
    <2>. QED  BY <2>7, <2>8 DEF Abstract!Next
  <1>7. ASSUME NEW port \in PortIds \cup {ILLEGAL_PORT}, ClosePort(port) PROVE Abstract!Next
    <2>1. PICK e \in Con : e.port = port /\ Con' = Con \ {e} /\ port \in PortIds
      BY SMTT(60), <1>7, CloseStep
    <2>2. OpenPorts[port] = [handler |-> e.handler, state |-> e.state]
      BY Zenon, <1>2, <2>1 DEF LookupsAgree
    <2>3. OpenPorts[port] # Abstract!ClosedPort
      BY SMTT(60), <1>4, <2>2 DEF Abstract!ClosedPort
    <2>4. OpenPorts'[port] = Abstract!ClosedPort
      <3>1. \A d \in Con' : d.port # port
        BY <1>3, <2>1
      <3>. QED  BY Zenon, <1>2, <2>1, <3>1 DEF LookupsAgree
    <2>5. \A q \in PortIds \ {port} : OpenPorts'[q] = OpenPorts[q]
      BY <2>1, PortsStay
    <2>6. Abstract!Close(port)
      BY <2>3, <2>4, <2>5 DEF Abstract!Close, Abstract!Change
    <2>. QED  BY <2>1, <2>6 DEF Abstract!Next
  <1>8. ASSUME NEW h \in Isolates, ClosePorts(h) PROVE Abstract!Next
    <2>1. Con' = {e \in Con : e.handler # h} /\ h # NULL
      BY SMTT(60), <1>8, CloseAllStep, HandlersAssumption
    <2>2. ASSUME NEW port \in PortIds
          PROVE  OpenPorts'[port] = IF OpenPorts[port].handler = h THEN Abstract!ClosedPort
                                    ELSE OpenPorts[port]
      <3>1. CASE \E e \in Con : e.port = port /\ e.handler = h
        <4>1. PICK e \in Con : e.port = port /\ e.handler = h
          BY SMTT(60), <3>1
        <4>2. OpenPorts[port] = [handler |-> e.handler, state |-> e.state]
          BY Zenon, <1>2, <4>1 DEF LookupsAgree
        <4>3. \A d \in Con' : d.port # port
          BY Zenon, <1>3, <2>1, <4>1
        <4>4. OpenPorts'[port] = Abstract!ClosedPort
          BY Zenon, <1>2, <4>3 DEF LookupsAgree
        <4>. QED  BY <4>1, <4>2, <4>4
      <3>2. CASE \A e \in Con : e.port = port => e.handler # h
        <4>1. OpenPorts'[port] = OpenPorts[port]
          <5>1. /\ \A e \in Con : e.port = port => e \in Con'
                /\ \A e \in Con' : e.port = port => e \in Con
            BY Zenon, <2>1, <3>2
          <5>. QED  BY Zenon, <5>1, PortsStay
        <4>2. OpenPorts[port].handler # h
          <5>1. CASE \E e \in Con : e.port = port
            <6>1. PICK e \in Con : e.port = port
              BY Zenon, <5>1
            <6>2. OpenPorts[port] = [handler |-> e.handler, state |-> e.state]
              BY Zenon, <1>2, <6>1 DEF LookupsAgree
            <6>. QED  BY SMT, <3>2, <6>1, <6>2
          <5>2. CASE \A e \in Con : e.port # port
            <6>1. OpenPorts[port] = Abstract!ClosedPort
              BY Zenon, <1>2, <5>2 DEF LookupsAgree
            <6>. QED  BY SMT, <2>1, <6>1 DEF Abstract!ClosedPort
          <5>. QED  BY Zenon, <5>1, <5>2
        <4>. QED  BY <4>1, <4>2
      <3>. QED  BY SMTT(60), <3>1, <3>2
    <2>3. Abstract!CloseAll(h) /\ h \in Handlers
      BY <2>2 DEF Abstract!CloseAll, Handlers
    <2>. QED  BY <2>3 DEF Abstract!Next
  <1>9. CASE UNCHANGED vars
    <2>1. Con' = Con
      BY <1>9 DEF vars, Con
    <2>2. \A port \in PortIds : OpenPorts'[port] = OpenPorts[port]
      BY <2>1, PortsStay
    <2>. QED  BY <2>2 DEF OpenPorts
  <1>10. ASSUME NEW port \in PortIds \cup {ILLEGAL_PORT}, ClosePortFails(port) PROVE UNCHANGED vars
    BY <1>10 DEF ClosePortFails
  <1>. QED  BY <1>1, <1>5, <1>6, <1>7, <1>8, <1>9, <1>10 DEF Next

(* The hash table is the map it stands for: whatever collisions, deletions *)
(* and rehashes there were, a port that was created is found with its      *)
(* handler and state until it is closed, and no other is.                  *)
THEOREM TableImplementsPorts == Spec => ImplementsPorts
  <1>1. Init => Abstract!Init
    <2>. SUFFICES ASSUME Init PROVE Abstract!Init
      OBVIOUS
    <2>1. LookupsAgree /\ Con = {}
      BY InitialTable, LookupsAreRight
    <2>. QED  BY <2>1 DEF Abstract!Init, OpenPorts, LookupsAgree
  <1>2. PortInv /\ PortInv' /\ LookupsAgree /\ LookupsAgree' /\ [Next]_vars
           => [DOMAIN OpenPorts' = PortIds /\ Abstract!Next]_OpenPorts
    BY PortSteps
  <1>. QED  BY <1>1, <1>2, LookupsAreRight, PortInvariant, PTL
            DEF Spec, ImplementsPorts, Abstract!Spec

===============================================================================
