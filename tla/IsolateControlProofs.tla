------------------------- MODULE IsolateControlProofs -------------------------
(***************************************************************************)
(* Proofs about IsolateControl and the MessageQueue it extends, for any    *)
(* number of messages, capabilities, ports and scenarios.                  *)
(***************************************************************************)
EXTENDS IsolateControl, FiniteSetTheorems, BasicLemmas

-----------------------------------------------------------------------------
(* The linked list.                                                        *)

-----------------------------------------------------------------------------
(* The control messages at the front end before place k.                   *)
FrontEnd(q, k) ==
    /\ k \in 1 .. Len(q) + 1
    /\ \A i \in 1 .. k - 1 : q[i] \in Controls
    /\ k <= Len(q) => q[k] \in Events

LEMMA FrontEnds ==
    ASSUME NEW q \in Seq(Messages)
    PROVE  \E k \in 1 .. Len(q) + 1 : FrontEnd(q, k)
  <1>. DEFINE T == {i \in 1 .. Len(q) + 1 : i <= Len(q) => q[i] \in Events}
  <1>1. T \in SUBSET Nat /\ Len(q) + 1 \in T
    OBVIOUS
  <1>2. PICK k \in T : \A j \in T : k <= j
    <2>. HIDE DEF T
    <2>. QED  BY Zenon, <1>1, LeastNat
  <1>3. \A i \in 1 .. k - 1 : q[i] \in Controls
    <2>. TAKE i \in 1 .. k - 1
    <2>1. i \in 1 .. Len(q) /\ i \notin T
      BY <1>2
    <2>2. q[i] \in Messages
      BY <2>1
    <2>. QED  BY <2>1, <2>2 DEF Messages
  <1>. QED  BY Zenon, <1>2, <1>3 DEF FrontEnd

LEMMA FrontEndIsOne ==
    ASSUME NEW q \in Seq(Messages), NEW k, NEW l, FrontEnd(q, k), FrontEnd(q, l)
    PROVE  k = l
  <1>1. Len(q) \in Nat /\ k \in 1 .. Len(q) + 1 /\ l \in 1 .. Len(q) + 1
    BY DEF FrontEnd
  <1>2. CASE k < l
    <2>1. k \in 1 .. l - 1 /\ k <= Len(q)
      BY <1>1, <1>2
    <2>. QED  BY ZenonT(40), <2>1, MessagesAssumption DEF FrontEnd
  <1>3. CASE l < k
    <2>1. l \in 1 .. k - 1 /\ l <= Len(q)
      BY <1>1, <1>3
    <2>. QED  BY ZenonT(40), <2>1, MessagesAssumption DEF FrontEnd
  <1>. QED  BY <1>1, <1>2, <1>3

LEMMA FirstEventIs ==
    ASSUME NEW k, Contents \in Seq(Messages), FrontEnd(Contents, k)
    PROVE  Abstract!FirstEvent = k
  <1>. DEFINE q == Contents
              Is(i) == /\ i <= Len(q) => q[i] \in Events
                       /\ \A j \in 1 .. i - 1 : q[j] \notin Events
  <1>1. k \in 1 .. Len(q) + 1 /\ Is(k)
    BY Zenon, MessagesAssumption DEF FrontEnd
  <1>2. Abstract!FirstEvent = CHOOSE i \in 1 .. Len(q) + 1 : Is(i)
    BY ZenonT(40) DEF Abstract!FirstEvent
  <1>3. ASSUME NEW i \in 1 .. Len(q) + 1, Is(i) PROVE FrontEnd(q, i)
    <2>1. ASSUME NEW j \in 1 .. i - 1 PROVE q[j] \in Controls
      <3>1. j \in 1 .. Len(q)
        OBVIOUS
      <3>2. q[j] \in Messages
        BY <3>1
      <3>. QED  BY Zenon, <1>3, <3>2 DEF Messages
    <2>. QED  BY ZenonT(40), <1>3, <2>1 DEF FrontEnd
  <1>4. \A i \in 1 .. Len(q) + 1 : Is(i) => i = k
    <2>. HIDE DEF q, Is
    <2>. QED  BY Zenon, <1>3, FrontEndIsOne DEF q
  <1>. HIDE DEF q, Is
  <1>. QED  BY ZenonT(40), <1>1, <1>2, <1>4

(* Pointers and contents agree.                                            *)
ListInv == Linked(Messages, NULL, Contents, head_, tail_, next_)

LEMMA LastControlIs ==
    ASSUME ListInv, NEW k, FrontEnd(Contents, k), k # 1
    PROVE  LastControlAtFront = Contents[k - 1] /\ k - 1 \in 1 .. Len(Contents)
  <1>. DEFINE q == Contents
              Is(n) == /\ \A i \in 1 .. n : q[i] \in Controls
                       /\ n < Len(q) => q[n + 1] \in Events
  <1>1. q \in Seq(Messages) /\ Len(q) \in Nat /\ DOMAIN q = 1 .. Len(q)
    BY DEF ListInv, Linked
  <1>2. k - 1 \in DOMAIN q /\ Is(k - 1)
    BY <1>1 DEF FrontEnd
  <1>3. LastControlAtFront = q[CHOOSE n \in DOMAIN q : Is(n)]
    BY Zenon DEF LastControlAtFront
  <1>4. ASSUME NEW n \in DOMAIN q, Is(n) PROVE n = k - 1
    <2>1. FrontEnd(q, n + 1)
      BY <1>1, <1>4 DEF FrontEnd
    <2>2. n + 1 = k
      BY Zenon, <1>1, <2>1, FrontEndIsOne
    <2>. QED  BY <1>1, <2>2
  <1>. HIDE DEF q, Is
  <1>5. (CHOOSE n \in DOMAIN q : Is(n)) = k - 1
    BY ZenonT(40), <1>2, <1>4
  <1>. QED  BY Zenon, <1>1, <1>2, <1>3, <1>5 DEF q

(* Enqueue puts the message at the end, or behind the control messages at  *)
(* the front.                                                              *)
Posted(m, b, k) ==
    /\ k \in 1 .. Len(Contents) + 1
    /\ IF b THEN FrontEnd(Contents, k) ELSE k = Len(Contents) + 1
    /\ Contents' = InsertAt(Contents, k, m)

LEMMA LinkedNext ==
    ASSUME NEW q, Linked(Messages, NULL, q, head_', tail_', next_')
    PROVE  Contents' = q /\ ListInv'
  <1>1. Chain(Messages, NULL, head_', next_') = q
    BY Zenon, ChainIs
  <1>. QED  BY Zenon, <1>1 DEF Contents, ListInv

(* The pointers change as they must for m to come in at place k.           *)
PutsAt(q, k, m) ==
    /\ k \in 1 .. Len(q) + 1
    /\ head_' = IF k = 1 THEN m ELSE head_
    /\ tail_' = IF k = Len(q) + 1 THEN m ELSE tail_
    /\ next_' \in [Messages -> Messages \cup {NULL}]
    /\ next_'[m] = IF k = Len(q) + 1 THEN NULL ELSE q[k]
    /\ k > 1 => next_'[q[k - 1]] = m
    /\ \A c \in Messages \ {m} : k = 1 \/ c # q[k - 1] => next_'[c] = next_[c]

LEMMA PutPosts ==
    ASSUME ListInv, NEW m \in Messages, m \notin Range(Contents), NEW b \in BOOLEAN,
           NEW k, PutsAt(Contents, k, m),
           IF b THEN FrontEnd(Contents, k) ELSE k = Len(Contents) + 1
    PROVE  ListInv' /\ Posted(m, b, k)
  <1>. DEFINE q == Contents
  <1>1. Linked(Messages, NULL, q, head_, tail_, next_) /\ m \notin Range(q) /\ PutsAt(q, k, m)
    BY Zenon DEF ListInv
  <1>. HIDE DEF q
  <1>2. Linked(Messages, NULL, InsertAt(q, k, m), head_', tail_', next_')
    BY <1>1, Inserting DEF PutsAt
  <1>3. Contents' = InsertAt(q, k, m) /\ ListInv'
    BY Zenon, <1>2, LinkedNext
  <1>. QED  BY ZenonT(40), <1>1, <1>3 DEF q, Posted, PutsAt

LEMMA EnqueuePuts ==
    ASSUME NEW q, Linked(Messages, NULL, q, head_, tail_, next_), NEW m \in Messages, m \notin Range(q)
    PROVE  /\ EnqueueFirst(m) => q = << >> /\ PutsAt(q, 1, m)
           /\ head_ # NULL /\ AppendAtTail(m) => PutsAt(q, Len(q) + 1, m)
           /\ head_ # NULL /\ PrependAtHead(m) => PutsAt(q, 1, m)
           /\ \A k \in 2 .. Len(q) : SpliceAfter(q[k - 1], m) => PutsAt(q, k, m)
  <1>. DEFINE L == Len(q)
              Cells == [Messages -> Messages \cup {NULL}]
  <1>1. q \in Seq(Messages) /\ L \in Nat /\ DOMAIN q = 1 .. L /\ NULL \notin Messages
    BY MessagesAssumption DEF Linked, Messages
  <1>2. \A i \in 1 .. L : q[i] \in Messages /\ q[i] # m /\ q[i] # NULL
    BY <1>1 DEF Range
  <1>3. /\ next_ \in Cells /\ next_[m] = NULL
        /\ IF q = << >> THEN head_ = NULL ELSE head_ = q[1] /\ tail_ = q[L]
    BY Zenon DEF Linked
  <1>5. q = << >> <=> L = 0
    BY <1>1
  <1>. HIDE DEF L, Cells
  <1>6. ASSUME EnqueueFirst(m) PROVE q = << >> /\ PutsAt(q, 1, m)
    <2>1. q = << >> /\ L = 0
      BY <1>1, <1>2, <1>3, <1>5, <1>6 DEF EnqueueFirst
    <2>. QED  BY <1>3, <1>6, <2>1 DEF EnqueueFirst, PutsAt, L, Cells
  <1>7. ASSUME head_ # NULL PROVE L \in Nat \ {0} /\ head_ = q[1] /\ tail_ = q[L]
    BY Zenon, <1>1, <1>3, <1>5, <1>7
  <1>8. ASSUME head_ # NULL, AppendAtTail(m) PROVE PutsAt(q, L + 1, m)
    <2>1. L \in Nat \ {0} /\ tail_ = q[L] /\ tail_ \in Messages /\ tail_ # m
      BY <1>2, <1>7, <1>8
    <2>2. next_' = [next_ EXCEPT ![tail_] = m] /\ tail_' = m /\ head_' = head_
      BY Zenon, <1>8 DEF AppendAtTail
    <2>3. /\ next_' \in Cells /\ next_'[m] = NULL /\ next_'[q[L]] = m
          /\ \A c \in Messages \ {m} : c # q[L] => next_'[c] = next_[c]
      BY ZenonT(40), <1>3, <2>1, <2>2 DEF Cells
    <2>4. (L + 1) - 1 = L /\ L + 1 > 1 /\ L + 1 \in 1 .. L + 1 /\ L + 1 # 1
      BY <2>1
    <2>. QED  BY ZenonT(40), <2>2, <2>3, <2>4 DEF PutsAt, L, Cells
  <1>9. ASSUME head_ # NULL, PrependAtHead(m) PROVE PutsAt(q, 1, m)
    <2>1. L \in Nat \ {0} /\ head_ = q[1] /\ head_ \in Messages
      BY <1>2, <1>7, <1>9
    <2>2. next_' = [next_ EXCEPT ![m] = head_] /\ head_' = m /\ tail_' = tail_
      BY Zenon, <1>9 DEF PrependAtHead
    <2>3. /\ next_' \in Cells /\ next_'[m] = q[1]
          /\ \A c \in Messages \ {m} : next_'[c] = next_[c]
      BY Zenon, <1>3, <2>1, <2>2 DEF Cells
    <2>4. 1 \in 1 .. L + 1 /\ 1 # L + 1 /\ ~(1 > 1)
      BY <2>1
    <2>. QED  BY ZenonT(40), <2>2, <2>3, <2>4 DEF PutsAt, L, Cells
  <1>10. ASSUME NEW k \in 2 .. L, SpliceAfter(q[k - 1], m) PROVE PutsAt(q, k, m)
    <2>. DEFINE cur == q[k - 1]
                n1 == [next_ EXCEPT ![m] = next_[cur]]
    <2>1. k - 1 \in 1 .. L /\ k - 1 # L /\ k \in 1 .. L /\ (k - 1) + 1 = k
      BY <1>1
    <2>2. next_[cur] = q[k] /\ cur \in Messages /\ cur # m /\ q[k] \in Messages
      BY Zenon, <1>2, <2>1 DEF Linked, L
    <2>3. next_' = [n1 EXCEPT ![cur] = m] /\ UNCHANGED <<head_, tail_>>
      BY Zenon, <1>10 DEF SpliceAfter
    <2>. HIDE DEF cur
    <2>4. n1 \in Cells /\ n1[m] = q[k] /\ \A c \in Messages \ {m} : n1[c] = next_[c]
      BY Zenon, <1>3, <2>2 DEF Cells
    <2>. HIDE DEF n1
    <2>5. /\ next_' \in Cells /\ next_'[m] = q[k] /\ next_'[cur] = m
          /\ \A c \in Messages \ {m} : c # cur => next_'[c] = next_[c]
      BY ZenonT(40), <2>2, <2>3, <2>4 DEF Cells
    <2>6. k # 1 /\ k # L + 1 /\ k \in 1 .. L + 1
      BY <1>1
    <2>. QED  BY Zenon, <2>3, <2>5, <2>6 DEF PutsAt, L, Cells, cur
  <1>. QED  BY Zenon, <1>6, <1>8, <1>9, <1>10 DEF L

LEMMA EnqueueIs ==
    ASSUME ListInv, NEW m \in Messages, NEW b \in BOOLEAN, Enqueue(m, b)
    PROVE  ListInv' /\ m \notin Range(Contents) /\ \E k : Posted(m, b, k)
  <1>. DEFINE q == Contents
  <1>1. Linked(Messages, NULL, q, head_, tail_, next_) /\ m \notin Range(q)
    BY Zenon DEF ListInv, Enqueue, Pending
  <1>. SUFFICES \E k : PutsAt(q, k, m) /\ IF b THEN FrontEnd(q, k) ELSE k = Len(q) + 1
    BY ZenonT(40), <1>1, PutPosts
  <1>2. CASE EnqueueFirst(m)
    <2>1. q = << >> /\ PutsAt(q, 1, m)
      BY Zenon, <1>1, <1>2, EnqueuePuts
    <2>. HIDE DEF q
    <2>2. FrontEnd(q, 1) /\ 1 = Len(q) + 1
      BY <2>1 DEF FrontEnd
    <2>. QED  BY Zenon, <2>1, <2>2
  <1>3. CASE head_ # NULL /\ ~b /\ AppendAtTail(m)
    BY ZenonT(40), <1>1, <1>3, EnqueuePuts
  <1>4. CASE head_ # NULL /\ b /\ EnqueueBeforeEvents(m)
    <2>1. PICK k \in 1 .. Len(q) + 1 : FrontEnd(q, k)
      BY Zenon, <1>1, FrontEnds DEF Linked
    <2>2. ASSUME k # 1 PROVE LastControlAtFront = q[k - 1] /\ k - 1 \in 1 .. Len(q)
      BY ZenonT(40), <2>1, <2>2, LastControlIs
    <2>. HIDE DEF q
    <2>3. q \in Seq(Messages) /\ Len(q) \in Nat \ {0} /\ head_ = q[1]
      BY <1>1, <1>4 DEF Linked
    <2>4. CASE head_ \in Events
      <3>1. FrontEnd(q, 1)
        BY <2>3, <2>4 DEF FrontEnd
      <3>2. PrependAtHead(m)
        BY Zenon, <1>4, <2>4 DEF EnqueueBeforeEvents
      <3>. QED  BY Zenon, <1>1, <1>4, <3>1, <3>2, EnqueuePuts
    <2>5. CASE head_ \notin Events
      <3>1. k # 1
        BY <2>1, <2>3, <2>5 DEF FrontEnd
      <3>. DEFINE cur == q[k - 1]
      <3>2. LastControlAtFront = cur /\ k - 1 \in 1 .. Len(q)
        BY Zenon, <2>2, <3>1
      <3>3. next_[cur] = IF k - 1 = Len(q) THEN NULL ELSE q[(k - 1) + 1]
        BY ZenonT(40), <1>1, <3>2 DEF Linked
      <3>4. CASE k = Len(q) + 1
        <4>1. next_[cur] = NULL
          BY <2>3, <3>3, <3>4
        <4>2. AppendAtTail(m)
          BY Zenon, <1>4, <2>5, <3>2, <4>1 DEF EnqueueBeforeEvents
        <4>. QED  BY Zenon, <1>1, <1>4, <2>1, <3>4, <4>2, EnqueuePuts
      <3>5. CASE k # Len(q) + 1
        <4>1. k \in 2 .. Len(q) /\ k - 1 # Len(q) /\ (k - 1) + 1 = k
          BY <2>1, <2>3, <3>1, <3>5
        <4>2. next_[cur] # NULL
          BY <2>3, <3>3, <4>1, MessagesAssumption DEF Messages
        <4>3. SpliceAfter(cur, m)
          BY Zenon, <1>4, <2>5, <3>2, <4>2 DEF EnqueueBeforeEvents
        <4>4. PutsAt(q, k, m)
          BY Zenon, <1>1, <4>1, <4>3, EnqueuePuts
        <4>. QED  BY Zenon, <1>4, <2>1, <4>4
      <3>. QED  BY Zenon, <3>4, <3>5
    <2>. QED  BY Zenon, <2>4, <2>5
  <1>. QED  BY ZenonT(40), <1>2, <1>3, <1>4 DEF Enqueue

LEMMA DequeueIs ==
    ASSUME ListInv, Dequeue
    PROVE  /\ ListInv' /\ Contents # << >> /\ head_ = Head(Contents)
           /\ Contents' = Tail(Contents)
  <1>1. head_ # NULL /\ Linked(Messages, NULL, Contents, head_, tail_, next_)
    BY Zenon DEF ListInv, Dequeue
  <1>2. /\ Contents # << >> /\ head_ = Head(Contents)
        /\ Linked(Messages, NULL, Tail(Contents), next_[head_], IF next_[head_] = NULL THEN NULL ELSE tail_,
                  [next_ EXCEPT ![head_] = NULL])
    BY Zenon, <1>1, Removing
  <1>3. Linked(Messages, NULL, Tail(Contents), head_', tail_', next_')
    BY ZenonT(40), <1>2 DEF Dequeue, TailAfterDequeue
  <1>. QED  BY ZenonT(40), <1>2, <1>3, LinkedNext

LEMMA ClearIs ==
    ASSUME Clear
    PROVE  ListInv' /\ Contents' = << >>
  BY ZenonT(40), Cleared, LinkedNext, MessagesAssumption DEF Clear, Messages

LEMMA ListUnchanged ==
    ASSUME ListInv, UNCHANGED vars
    PROVE  ListInv' /\ Contents' = Contents
  <1>1. Linked(Messages, NULL, Contents, head_', tail_', next_')
    BY ZenonT(40) DEF ListInv, vars
  <1>. QED  BY Zenon, <1>1, LinkedNext

-----------------------------------------------------------------------------
(* The order of requests and events.                                       *)

Requests == UNION {s.requests : s \in Scenarios}

RequestMessages == [request : Requests, from : UNION {s.senders : s \in Scenarios},
                    number : 1 .. MaxSends]

First(d, c) == d[c].request.priority = BeforeNextEvent

(* The pairs of messages of which the first may be ahead of the second.    *)
MayPrecede(d) ==
    {p \in Messages \X Messages :
        LET x == p[1]
            y == p[2] IN
        /\ x \in Events => y \in Events \/ ~First(d, y)
        /\ x \in Controls /\ y \in Events /\ ~First(d, x) => d[x].number < d[y].number
        /\ x \in Controls /\ y \in Controls /\ First(d, x) = First(d, y) => d[x].number < d[y].number
        /\ x \in Events /\ y \in Events => d[x].number < d[y].number}

(* What is in the queues q and o, with the data d and s messages sent.     *)
Ordered(q, d, o, s) ==
    /\ s \in 0 .. MaxSends
    /\ q \in Seq(Messages) /\ IsInjective(q)
    /\ DOMAIN d = Messages
    /\ \A e \in Range(q) \cap Events : d[e].number \in 0 .. s
    /\ \A c \in Range(q) \cap Controls : d[c] \in RequestMessages /\ d[c].number <= s
    /\ \A b, c \in Range(q) \cap Controls : d[b].number = d[c].number => b = c
    /\ Sorted(q, MayPrecede(d))
    /\ o \in Seq(RequestMessages)
    /\ \A i \in 1 .. Len(o) : /\ o[i].number <= s
                              /\ \A j \in 1 .. Len(o) : i < j => o[i].number < o[j].number
                              /\ \A c \in Range(q) \cap Controls : d[c].number < o[i].number

LEMMA OrderedEmpty ==
    ASSUME NEW d, DOMAIN d = Messages, NEW s \in 0 .. MaxSends
    PROVE  Ordered(<< >>, d, << >>, s)
  <1>1. /\ << >> \in Seq(Messages) /\ << >> \in Seq(RequestMessages) /\ Len(<< >>) = 0
        /\ IsInjective(<< >>) /\ Range(<< >>) = {}
    BY DEF IsInjective, Range
  <1>. QED  BY <1>1 DEF Ordered, Sorted

(* An event that is younger than all there is comes last.                  *)
LEMMA OrderedEvent ==
    ASSUME NEW q, NEW d, NEW o, NEW s, Ordered(q, d, o, s),
           NEW e \in Events, e \notin Range(q), NEW x,
           NEW s2 \in s .. MaxSends, x.number \in 0 .. s2,
           \A c \in Range(q) : d[c].number < x.number
    PROVE  Ordered(InsertAt(q, Len(q) + 1, e), [d EXCEPT ![e] = x], o, s2)
  <1>. DEFINE r == InsertAt(q, Len(q) + 1, e)
              d2 == [d EXCEPT ![e] = x]
              L == Len(q)
  <1>1. /\ q \in Seq(Messages) /\ L \in Nat /\ IsInjective(q) /\ e \in Messages /\ DOMAIN d = Messages
        /\ L + 1 \in 1 .. L + 1 /\ s \in Nat /\ s2 \in Nat /\ MaxSends \in Nat
    BY IsolateControlAssumption DEF Ordered, Messages
  <1>2. r \in Seq(Messages) /\ Range(r) = Range(q) \cup {e} /\ IsInjective(r)
    <2>1. r \in Seq(Messages) /\ Inserted(q, L + 1, e, r)
      BY Zenon, <1>1, InsertAtElements
    <2>. HIDE DEF r
    <2>. QED  BY ZenonT(40), <1>1, <2>1 DEF Inserted
  <1>3. DOMAIN d2 = Messages /\ d2[e] = x /\ \A c \in Messages \ {e} : d2[c] = d[c]
    BY Zenon, <1>1
  <1>4. \A i \in 1 .. L : q[i] \in Range(q) /\ q[i] \in Messages /\ q[i] # e
    BY <1>1 DEF Range
  <1>5. Range(q) \subseteq Messages \ {e}
    BY <1>1 DEF Range
  <1>6. Range(r) \cap Controls = Range(q) \cap Controls
    BY Zenon, <1>2, MessagesAssumption
  <1>. HIDE DEF d2
  <1>7. Sorted(r, MayPrecede(d2))
    <2>1. ASSUME NEW a \in Messages \ {e}, NEW b \in Messages \ {e}, <<a, b>> \in MayPrecede(d)
          PROVE  <<a, b>> \in MayPrecede(d2)
      BY Zenon, <1>3, <2>1 DEF MayPrecede, First
    <2>2. Sorted(q, MayPrecede(d2))
      BY ZenonT(40), <1>4, <2>1 DEF Ordered, Sorted
    <2>3. ASSUME NEW i \in 1 .. L PROVE <<q[i], e>> \in MayPrecede(d2)
      <3>1. d2[q[i]].number < d2[e].number
        BY Zenon, <1>3, <1>4
      <3>. QED  BY ZenonT(40), <1>1, <1>4, <3>1, MessagesAssumption DEF MayPrecede
    <2>4. \A i \in 1 .. (L + 1) - 1 : <<q[i], e>> \in MayPrecede(d2)
      BY <1>1, <2>3
    <2>5. \A i \in L + 1 .. L : <<e, q[i]>> \in MayPrecede(d2)
      BY <1>1
    <2>. QED  BY Zenon, <1>1, <2>2, <2>4, <2>5, SortedInsert
  <1>. HIDE DEF r
  <1>8. \A c \in Range(r) \cap Events : d2[c].number \in 0 .. s2
    <2>. SUFFICES ASSUME NEW c \in Range(r) \cap Events PROVE d2[c].number \in 0 .. s2
      BY Zenon
    <2>1. CASE c = e
      BY ZenonT(40), <1>3, <2>1
    <2>2. CASE c # e
      <3>1. d2[c] = d[c] /\ c \in Range(q) \cap Events
        BY Zenon, <1>2, <1>3, <1>5, <2>2
      <3>2. d[c].number \in 0 .. s
        BY ZenonT(40), <3>1 DEF Ordered
      <3>. QED  BY <1>1, <3>1, <3>2
    <2>. QED  BY Zenon, <2>1, <2>2
  <1>9. \A c \in Range(r) \cap Controls : d2[c] = d[c]
    BY Zenon, <1>3, <1>5, <1>6
  <1>10. \A c \in Range(r) \cap Controls : d2[c] \in RequestMessages /\ d2[c].number <= s2
    <2>. SUFFICES ASSUME NEW c \in Range(q) \cap Controls
                  PROVE  d[c] \in RequestMessages /\ d[c].number <= s2
      BY Zenon, <1>6, <1>9
    <2>1. d[c] \in RequestMessages /\ d[c].number <= s
      BY Zenon DEF Ordered
    <2>2. d[c].number \in Nat
      BY <1>1, <2>1 DEF RequestMessages
    <2>. QED  BY <1>1, <2>1, <2>2
  <1>11. \A b, c \in Range(r) \cap Controls : d2[b].number = d2[c].number => b = c
    BY Zenon, <1>6, <1>9 DEF Ordered
  <1>12. o \in Seq(RequestMessages) /\ s2 \in 0 .. MaxSends
    BY <1>1 DEF Ordered
  <1>13. ASSUME NEW i \in 1 .. Len(o)
         PROVE  /\ o[i].number <= s2
                /\ \A j \in 1 .. Len(o) : i < j => o[i].number < o[j].number
                /\ \A c \in Range(r) \cap Controls : d2[c].number < o[i].number
    <2>1. o[i] \in RequestMessages
      BY <1>12
    <2>2. o[i].number \in Nat /\ o[i].number <= s
      BY <1>1, <2>1 DEF RequestMessages, Ordered
    <2>3. o[i].number <= s2
      BY <1>1, <2>2
    <2>. QED  BY Zenon, <1>6, <1>9, <2>3 DEF Ordered
  <1>14. Ordered(r, d2, o, s2)
    BY Zenon, <1>2, <1>3, <1>7, <1>8, <1>10, <1>11, <1>12, <1>13 DEF Ordered
  <1>. QED  BY Zenon, <1>14 DEF r, d2

LEMMA OrderedRequest ==
    ASSUME NEW q, NEW d, NEW o, NEW s, Ordered(q, d, o, s), s < MaxSends,
           NEW m \in RequestMessages, m.number = s + 1
    PROVE  Ordered(q, d, Append(o, m), s + 1)
  <1>. DEFINE u == Append(o, m)
  <1>1. s \in Nat /\ MaxSends \in Nat /\ o \in Seq(RequestMessages) /\ s + 1 \in 0 .. MaxSends
    BY IsolateControlAssumption DEF Ordered
  <1>2. /\ u \in Seq(RequestMessages) /\ Len(u) = Len(o) + 1 /\ Len(o) \in Nat
        /\ u[Len(o) + 1] = m /\ \A i \in 1 .. Len(o) : u[i] = o[i]
    BY <1>1
  <1>3. \A i \in 1 .. Len(o) : o[i].number \in Nat /\ o[i].number <= s
    <2>. TAKE i \in 1 .. Len(o)
    <2>1. o[i] \in RequestMessages
      BY <1>1
    <2>. QED  BY <1>1, <2>1 DEF Ordered, RequestMessages
  <1>4. \A c \in Range(q) \cap Controls : d[c].number \in Nat /\ d[c].number <= s
    BY <1>1 DEF Ordered, RequestMessages
  <1>5. \A e \in Range(q) \cap Events : d[e].number \in 0 .. s + 1
    BY <1>1 DEF Ordered
  <1>. HIDE DEF u
  <1>6. ASSUME NEW i \in 1 .. Len(u)
        PROVE  /\ u[i].number <= s + 1
               /\ \A j \in 1 .. Len(u) : i < j => u[i].number < u[j].number
               /\ \A c \in Range(q) \cap Controls : d[c].number < u[i].number
    <2>1. CASE i = Len(o) + 1
      <3>1. u[i].number = s + 1
        BY Zenon, <1>2, <2>1
      <3>. QED  BY <1>1, <1>2, <1>4, <2>1, <3>1
    <2>2. CASE i # Len(o) + 1
      <3>1. i \in 1 .. Len(o) /\ u[i] = o[i]
        BY <1>2, <2>2
      <3>2. ASSUME NEW j \in 1 .. Len(u), i < j PROVE u[i].number < u[j].number
        <4>1. CASE j = Len(o) + 1
          <5>1. u[j].number = s + 1
            BY Zenon, <1>2, <4>1
          <5>. QED  BY <1>1, <1>3, <3>1, <5>1
        <4>2. CASE j # Len(o) + 1
          <5>1. j \in 1 .. Len(o) /\ u[j] = o[j]
            BY <1>2, <4>2
          <5>. QED  BY ZenonT(40), <3>1, <3>2, <5>1 DEF Ordered
        <4>. QED  BY Zenon, <4>1, <4>2
      <3>3. u[i].number <= s + 1
        BY <1>1, <1>3, <3>1
      <3>. QED  BY ZenonT(40), <3>1, <3>2, <3>3 DEF Ordered
    <2>. QED  BY Zenon, <2>1, <2>2
  <1>7. \A c \in Range(q) \cap Controls : d[c] \in RequestMessages /\ d[c].number <= s + 1
    BY <1>1, <1>4 DEF Ordered
  <1>8. Ordered(q, d, u, s + 1)
    BY Zenon, <1>1, <1>2, <1>5, <1>6, <1>7 DEF Ordered
  <1>. QED  BY Zenon, <1>8 DEF u

(* A request is served at once.                                            *)
LEMMA OrderedServe ==
    ASSUME NEW q, NEW d, NEW o, NEW s, Ordered(q, d, o, s), o # << >>
    PROVE  /\ Ordered(q, d, Tail(o), s) /\ Head(o) \in RequestMessages
           /\ Head(o).number <= s
           /\ \A i \in 1 .. Len(Tail(o)) : Head(o).number < Tail(o)[i].number
           /\ \A c \in Range(q) \cap Controls : d[c].number < Head(o).number
  <1>. DEFINE u == Tail(o)
  <1>1. /\ o \in Seq(RequestMessages) /\ u \in Seq(RequestMessages)
        /\ Len(u) = Len(o) - 1 /\ Len(o) \in Nat /\ 1 \in 1 .. Len(o) /\ Head(o) = o[1]
        /\ Head(o) \in RequestMessages
    BY DEF Ordered
  <1>2. \A i \in 1 .. Len(u) : u[i] = o[i + 1] /\ i + 1 \in 1 .. Len(o)
    BY <1>1
  <1>. HIDE DEF u
  <1>3. ASSUME NEW i \in 1 .. Len(u)
        PROVE  /\ u[i].number <= s
               /\ \A j \in 1 .. Len(u) : i < j => u[i].number < u[j].number
               /\ \A c \in Range(q) \cap Controls : d[c].number < u[i].number
               /\ Head(o).number < u[i].number
    <2>1. u[i] = o[i + 1] /\ i + 1 \in 1 .. Len(o) /\ 1 < i + 1
      BY <1>1, <1>2
    <2>2. ASSUME NEW j \in 1 .. Len(u), i < j PROVE u[i].number < u[j].number
      <3>1. u[j] = o[j + 1] /\ j + 1 \in 1 .. Len(o) /\ i + 1 < j + 1
        BY <1>1, <1>2, <2>2
      <3>. QED  BY Zenon, <2>1, <3>1 DEF Ordered
    <2>. QED  BY Zenon, <1>1, <2>1, <2>2 DEF Ordered
  <1>4. Ordered(q, d, u, s)
    BY Zenon, <1>1, <1>3 DEF Ordered
  <1>. QED  BY Zenon, <1>1, <1>3, <1>4 DEF u, Ordered

(* A request that waits is posted again.                                   *)
LEMMA OrderedRepost ==
    ASSUME NEW q, NEW d, NEW o, NEW s, Ordered(q, d, o, s), o # << >>,
           NEW m \in Controls, m \notin Range(q), NEW k \in 1 .. Len(q) + 1,
           IF Head(o).request.priority = BeforeNextEvent THEN FrontEnd(q, k) ELSE k = Len(q) + 1
    PROVE  Ordered(InsertAt(q, k, m), [d EXCEPT ![m] = Head(o)], Tail(o), s)
  <1>. DEFINE r == InsertAt(q, k, m)
              x == Head(o)
              u == Tail(o)
              d2 == [d EXCEPT ![m] = x]
              L == Len(q)
  <1>1. /\ q \in Seq(Messages) /\ L \in Nat /\ IsInjective(q) /\ m \in Messages
        /\ DOMAIN d = Messages /\ s \in Nat /\ MaxSends \in Nat
    BY IsolateControlAssumption DEF Ordered, Messages
  <1>2. r \in Seq(Messages) /\ Range(r) = Range(q) \cup {m} /\ IsInjective(r)
    <2>1. r \in Seq(Messages) /\ Inserted(q, k, m, r)
      BY Zenon, <1>1, InsertAtElements
    <2>. HIDE DEF r
    <2>. QED  BY ZenonT(40), <1>1, <2>1 DEF Inserted
  <1>3. DOMAIN d2 = Messages /\ d2[m] = x /\ \A c \in Messages \ {m} : d2[c] = d[c]
    BY Zenon, <1>1
  <1>4. \A i \in 1 .. L : q[i] \in Range(q) /\ q[i] \in Messages /\ q[i] # m
    BY <1>1 DEF Range
  <1>5. \A c \in Range(q) : c \in Messages /\ c # m /\ d2[c] = d[c]
    BY <1>1, <1>3 DEF Range
  <1>6. /\ Ordered(q, d, u, s) /\ x \in RequestMessages /\ x.number <= s
        /\ \A i \in 1 .. Len(u) : x.number < u[i].number
        /\ \A c \in Range(q) \cap Controls : d[c].number < x.number
    BY Zenon, OrderedServe
  <1>7. x.number \in Nat /\ \A c \in Range(q) \cap Controls : d[c].number \in Nat
    BY <1>1, <1>6 DEF RequestMessages, Ordered
  <1>. HIDE DEF d2, u
  <1>8. Sorted(r, MayPrecede(d2))
    <2>1. ASSUME NEW a \in Messages \ {m}, NEW b \in Messages \ {m}, <<a, b>> \in MayPrecede(d)
          PROVE  <<a, b>> \in MayPrecede(d2)
      BY Zenon, <1>3, <2>1 DEF MayPrecede, First
    <2>2. Sorted(q, MayPrecede(d2))
      BY ZenonT(40), <1>4, <2>1 DEF Ordered, Sorted
    <2>3. m \notin Events /\ (First(d2, m) <=> x.request.priority = BeforeNextEvent)
      BY Zenon, <1>3, MessagesAssumption DEF First
    <2>4. ASSUME NEW i \in 1 .. k - 1 PROVE <<q[i], m>> \in MayPrecede(d2)
      <3>1. i \in 1 .. L /\ q[i] \in Range(q) /\ q[i] \in Messages
        BY <1>1, <1>4
      <3>2. q[i] \in Controls => d2[q[i]].number < d2[m].number
        BY Zenon, <1>3, <1>5, <1>6, <3>1
      <3>3. q[i] \in Events => ~First(d2, m)
        BY ZenonT(40), <2>3, MessagesAssumption DEF FrontEnd
      <3>. QED  BY ZenonT(40), <1>1, <2>3, <3>1, <3>2, <3>3 DEF MayPrecede
    <2>5. ASSUME NEW i \in k .. L PROVE <<m, q[i]>> \in MayPrecede(d2)
      <3>1. i \in 1 .. L /\ q[i] \in Messages /\ k # L + 1 /\ k \in 1 .. L
        BY <1>1, <1>4
      <3>2. First(d2, m) /\ q[k] \in Events
        BY <2>3, <3>1 DEF FrontEnd
      <3>3. q[i] \in Controls => ~First(d2, q[i])
        <4>1. CASE i = k
          BY ZenonT(40), <3>2, <4>1, MessagesAssumption
        <4>2. CASE i # k
          <5>1. <<q[k], q[i]>> \in MayPrecede(d2)
            BY <2>2, <3>1, <4>2 DEF Sorted
          <5>. QED  BY Zenon, <3>2, <5>1, MessagesAssumption DEF MayPrecede
        <4>. QED  BY Zenon, <4>1, <4>2
      <3>. QED  BY Zenon, <1>1, <2>3, <3>1, <3>2, <3>3 DEF MayPrecede
    <2>. QED  BY Zenon, <1>1, <2>2, <2>4, <2>5, SortedInsert
  <1>. HIDE DEF r, x
  <1>9. \A e \in Range(r) \cap Events : d2[e].number \in 0 .. s
    <2>1. \A e \in Range(r) \cap Events : e \in Range(q) /\ d2[e] = d[e]
      BY Zenon, <1>2, <1>5, MessagesAssumption
    <2>. QED  BY Zenon, <2>1 DEF Ordered
  <1>10. \A c \in Range(r) \cap Controls : d2[c] \in RequestMessages /\ d2[c].number <= s
    <2>. SUFFICES ASSUME NEW c \in Range(r) \cap Controls
                  PROVE  d2[c] \in RequestMessages /\ d2[c].number <= s
      BY ZenonT(40)
    <2>1. CASE c = m
      BY ZenonT(40), <1>3, <1>6, <2>1
    <2>2. CASE c # m
      BY Zenon, <1>2, <1>5, <2>2 DEF Ordered
    <2>. QED  BY Zenon, <2>1, <2>2
  <1>11. \A b, c \in Range(r) \cap Controls : d2[b].number = d2[c].number => b = c
    <2>. SUFFICES ASSUME NEW b \in Range(r) \cap Controls, NEW c \in Range(r) \cap Controls,
                         d2[b].number = d2[c].number
                  PROVE  b = c
      BY Zenon
    <2>1. CASE b # m /\ c # m
      BY Zenon, <1>2, <1>5, <2>1 DEF Ordered
    <2>2. CASE b = m /\ c # m
      BY <1>2, <1>3, <1>5, <1>6, <1>7, <2>2
    <2>3. CASE b # m /\ c = m
      BY <1>2, <1>3, <1>5, <1>6, <1>7, <2>3
    <2>. QED  BY ZenonT(40), <2>1, <2>2, <2>3
  <1>12. ASSUME NEW i \in 1 .. Len(u)
         PROVE  /\ u[i].number <= s
                /\ \A j \in 1 .. Len(u) : i < j => u[i].number < u[j].number
                /\ \A c \in Range(r) \cap Controls : d2[c].number < u[i].number
    <2>1. ASSUME NEW c \in Range(r) \cap Controls PROVE d2[c].number < u[i].number
      <3>1. CASE c = m
        BY ZenonT(40), <1>3, <1>6, <3>1
      <3>2. CASE c # m
        BY Zenon, <1>2, <1>5, <1>6, <3>2 DEF Ordered
      <3>. QED  BY Zenon, <3>1, <3>2
    <2>. QED  BY Zenon, <1>6, <2>1 DEF Ordered
  <1>13. u \in Seq(RequestMessages) /\ s \in 0 .. MaxSends
    BY ZenonT(40), <1>6 DEF Ordered
  <1>14. Ordered(r, d2, u, s)
    BY ZenonT(40), <1>2, <1>3, <1>8, <1>9, <1>10, <1>11, <1>12, <1>13 DEF Ordered
  <1>. QED  BY ZenonT(40), <1>14 DEF r, d2, u, x

LEMMA OrderedDequeue ==
    ASSUME NEW q, NEW d, NEW o, NEW s, Ordered(q, d, o, s), q # << >>
    PROVE  Ordered(Tail(q), [d EXCEPT ![Head(q)] = NULL], o, s)
  <1>. DEFINE r == Tail(q)
              h == Head(q)
              d2 == [d EXCEPT ![h] = NULL]
  <1>1. q \in Seq(Messages) /\ IsInjective(q) /\ DOMAIN d = Messages
    BY Zenon DEF Ordered
  <1>2. /\ h \in Messages /\ r \in Seq(Messages) /\ Range(q) = {h} \cup Range(r)
        /\ IsInjective(r) /\ h \notin Range(r)
    BY Zenon, <1>1, TailElements
  <1>3. Sorted(r, MayPrecede(d))
    <2>1. Sorted(q, MayPrecede(d))
      BY Zenon DEF Ordered
    <2>. QED  BY ZenonT(40), <1>1, <2>1, SortedTail
  <1>4. DOMAIN d2 = Messages /\ \A c \in Messages \ {h} : d2[c] = d[c]
    BY Zenon, <1>1
  <1>. HIDE DEF r, h, d2
  <1>5. \A i \in 1 .. Len(r) : r[i] \in Range(r) /\ r[i] \in Messages \ {h}
    BY <1>2 DEF Range
  <1>6. \A c \in Range(r) : c \in Messages /\ c # h /\ d2[c] = d[c] /\ c \in Range(q)
    <2>1. Range(r) \subseteq Messages
      BY <1>2 DEF Range
    <2>2. Range(r) \subseteq Range(q)
      BY Zenon, <1>2
    <2>. QED  BY ZenonT(40), <1>2, <1>4, <2>1, <2>2
  <1>7. Sorted(r, MayPrecede(d2))
    <2>1. ASSUME NEW a \in Messages \ {h}, NEW b \in Messages \ {h}, <<a, b>> \in MayPrecede(d)
          PROVE  <<a, b>> \in MayPrecede(d2)
      BY Zenon, <1>4, <2>1 DEF MayPrecede, First
    <2>. QED  BY Zenon, <1>3, <1>5, <2>1 DEF Sorted
  <1>8. \A c \in Range(r) \cap Events : d2[c].number \in 0 .. s
    BY Zenon, <1>6 DEF Ordered
  <1>9. \A c \in Range(r) \cap Controls : d2[c] \in RequestMessages /\ d2[c].number <= s
    BY ZenonT(40), <1>6 DEF Ordered
  <1>10. \A b, c \in Range(r) \cap Controls : d2[b].number = d2[c].number => b = c
    BY Zenon, <1>6 DEF Ordered
  <1>11. ASSUME NEW i \in 1 .. Len(o)
         PROVE  /\ o[i].number <= s
                /\ \A j \in 1 .. Len(o) : i < j => o[i].number < o[j].number
                /\ \A c \in Range(r) \cap Controls : d2[c].number < o[i].number
    BY Zenon, <1>6 DEF Ordered
  <1>12. o \in Seq(RequestMessages) /\ s \in 0 .. MaxSends
    BY ZenonT(40) DEF Ordered
  <1>13. Ordered(r, d2, o, s)
    BY ZenonT(40), <1>2, <1>4, <1>7, <1>8, <1>9, <1>10, <1>11, <1>12 DEF Ordered
  <1>. QED  BY ZenonT(40), <1>13 DEF r, h, d2

(* The numbers of the pending messages tell how many there are, so a cell  *)
(* is free for the next one.                                               *)
LEMMA FreshEvent ==
    ASSUME NEW q, NEW d, NEW o, NEW s, Ordered(q, d, o, s), s < MaxSends
    PROVE  \E e \in Events : e \notin Range(q)
  <1>. SUFFICES ASSUME Events \subseteq Range(q) PROVE FALSE
    BY Zenon
  <1>. DEFINE f == [e \in Events |-> d[e].number]
  <1>1. s \in Nat /\ MaxSends \in Nat /\ q \in Seq(Messages)
    BY IsolateControlAssumption DEF Ordered
  <1>2. f \in [Events -> 0 .. s]
    BY Zenon DEF Ordered
  <1>3. IsFiniteSet(Events)
    BY FS_Subset, MessagesAssumption
  <1>4. IsFiniteSet(0 .. s) /\ Cardinality(0 .. s) = s + 1
    BY <1>1, FS_Interval
  <1>5. Cardinality(Events) \in Nat
    BY Zenon, <1>3, FS_CardinalityType
  <1>6. Cardinality(0 .. s) < Cardinality(Events)
    BY <1>1, <1>4, <1>5, IsolateControlAssumption
  <1>7. PICK x \in Events, y \in Events : x # y /\ f[x] = f[y]
    <2>. HIDE DEF f
    <2>. QED  BY ZenonT(40), <1>2, <1>3, <1>4, <1>6, FS_PigeonHole
  <1>8. PICK i \in 1 .. Len(q) : q[i] = x
    BY <1>1 DEF Range
  <1>9. PICK j \in 1 .. Len(q) : q[j] = y
    BY <1>1 DEF Range
  <1>10. i < j \/ j < i
    BY <1>1, <1>7, <1>8, <1>9
  <1>11. <<x, y>> \in MayPrecede(d) \/ <<y, x>> \in MayPrecede(d)
    BY Zenon, <1>8, <1>9, <1>10 DEF Ordered, Sorted
  <1>12. d[x].number < d[y].number \/ d[y].number < d[x].number
    BY Zenon, <1>11 DEF MayPrecede
  <1>13. d[x].number \in 0 .. s /\ d[x].number = d[y].number
    BY Zenon, <1>2, <1>7
  <1>. QED  BY <1>1, <1>12, <1>13

LEMMA FreshControl ==
    ASSUME NEW q, NEW d, NEW o, NEW s, Ordered(q, d, o, s), o # << >>
    PROVE  \E c \in Controls : c \notin Range(q)
  <1>. SUFFICES ASSUME Controls \subseteq Range(q) PROVE FALSE
    BY Zenon
  <1>. DEFINE f == [c \in Controls |-> d[c].number]
              n == Head(o).number
  <1>1. s \in Nat /\ s <= MaxSends /\ MaxSends \in Nat
    BY IsolateControlAssumption DEF Ordered
  <1>2. /\ Head(o) \in RequestMessages /\ n <= s
        /\ \A c \in Range(q) \cap Controls : d[c].number < n
    BY Zenon, OrderedServe
  <1>3. n \in 1 .. MaxSends
    BY Zenon, <1>2 DEF RequestMessages
  <1>4. \A c \in Controls : d[c].number \in 1 .. MaxSends /\ d[c].number < n
    BY ZenonT(40), <1>2 DEF Ordered, RequestMessages
  <1>. HIDE DEF n
  <1>5. f \in [Controls -> 1 .. n - 1]
    BY <1>1, <1>3, <1>4
  <1>6. IsFiniteSet(Controls)
    BY Zenon, FS_Subset, MessagesAssumption
  <1>7. IsFiniteSet(1 .. n - 1) /\ Cardinality(1 .. n - 1) = n - 1
    BY <1>1, <1>3, FS_Interval
  <1>8. Cardinality(Controls) \in Nat
    BY Zenon, <1>6, FS_CardinalityType
  <1>9. Cardinality(1 .. n - 1) < Cardinality(Controls)
    BY <1>1, <1>3, <1>7, <1>8, IsolateControlAssumption
  <1>10. PICK x \in Controls, y \in Controls : x # y /\ f[x] = f[y]
    <2>. HIDE DEF f
    <2>. QED  BY Zenon, <1>5, <1>6, <1>7, <1>9, FS_PigeonHole
  <1>. QED  BY Zenon, <1>10 DEF Ordered

-----------------------------------------------------------------------------
PlaceInv ==
    /\ ListInv /\ scenario \in Scenarios
    /\ Ordered(Contents, data, oob_queue, sent)
    /\ status = "starting" => Contents = << >> /\ oob_queue = << >> /\ sent = 0

LEMMA QueuePosts ==
    ASSUME ListInv, NEW m \in Messages, NEW b \in BOOLEAN, b => m \in Controls, Enqueue(m, b)
    PROVE  Abstract!Next
  <1>1. m \notin Range(Contents) /\ Contents \in Seq(Messages)
    BY ZenonT(40), EnqueueIs DEF ListInv, Linked
  <1>2. PICK k : Posted(m, b, k)
    BY Zenon, EnqueueIs
  <1>3. CASE b
    <2>1. Contents' = InsertAt(Contents, Abstract!FirstEvent, m)
      BY ZenonT(40), <1>1, <1>2, <1>3, FirstEventIs DEF Posted
    <2>2. m \in Controls \ Abstract!Queued
      BY Zenon, <1>1, <1>3 DEF Range, Abstract!Queued
    <2>. QED  BY Zenon, <2>1, <2>2 DEF Abstract!Next, Abstract!PostBeforeEvents, InsertAt
  <1>4. CASE ~b
    <2>1. Contents' = Append(Contents, m)
      BY ZenonT(40), <1>1, <1>2, <1>4, InsertAtEnd DEF Posted
    <2>2. m \in (Events \cup Controls) \ Abstract!Queued
      BY Zenon, <1>1 DEF Range, Abstract!Queued, Messages
    <2>. QED  BY ZenonT(40), <2>1, <2>2 DEF Abstract!Next, Abstract!Post
  <1>. QED  BY Zenon, <1>3, <1>4

LEMMA QueueDelivers ==
    ASSUME ListInv, Dequeue
    PROVE  Abstract!Next
  BY ZenonT(40), DequeueIs DEF Abstract!Next, Abstract!Deliver

LEMMA SentBound ==
    ASSUME PlaceInv, sent < scenario.sends
    PROVE  /\ sent \in Nat /\ MaxSends \in Nat /\ sent < MaxSends
           /\ sent + 1 \in sent .. MaxSends /\ sent + 1 \in 1 .. MaxSends
  <1>1. scenario.sends \in 0 .. MaxSends
    BY Zenon, ScenariosAssumption DEF PlaceInv
  <1>2. sent \in 0 .. MaxSends /\ MaxSends \in Nat
    BY Zenon, IsolateControlAssumption DEF PlaceInv, Ordered
  <1>. QED  BY <1>1, <1>2

LEMMA PlaceStep ==
    ASSUME PlaceInv, [ControlNext]_allvars
    PROVE  PlaceInv' /\ [Abstract!Next]_Contents
  <1>. USE DEF PlaceInv
  <1>1. CASE Starts
    <2>1. PICK spawn \in scenario.spawns : RunIsolate(spawn)
      BY Zenon, <1>1 DEF Starts
    <2>. DEFINE e == CHOOSE x \in Events : TRUE
                x0 == [kind |-> "event", from |-> NULL, number |-> 0]
    <2>2. /\ status = "starting" /\ status' = "idle" /\ Enqueue(e, FALSE)
          /\ data' = [data EXCEPT ![e] = x0] /\ UNCHANGED <<scenario, sent, oob_queue>>
      BY Zenon, <2>1 DEF RunIsolate
    <2>3. Contents = << >> /\ oob_queue = << >> /\ sent = 0 /\ sent \in 0 .. MaxSends
      BY ZenonT(40), <2>2 DEF Ordered
    <2>4. e \in Events
      <3>1. IsFiniteSet(Events)
        BY Zenon, FS_Subset, MessagesAssumption
      <3>2. Events # {}
        BY <3>1, FS_EmptySet, IsolateControlAssumption
      <3>. QED  BY Zenon, <3>2
    <2>. HIDE DEF e
    <2>5. e \in Messages
      BY Zenon, <2>4 DEF Messages
    <2>6. ListInv' /\ e \notin Range(Contents) /\ \E k : Posted(e, FALSE, k)
      BY Zenon, <2>2, <2>5, EnqueueIs
    <2>7. Contents' = InsertAt(Contents, Len(Contents) + 1, e)
      BY Zenon, <2>6 DEF Posted
    <2>8. \A c \in Range(Contents) : data[c].number < x0.number
      BY <2>3 DEF Range
    <2>9. sent \in sent .. MaxSends /\ x0.number \in 0 .. sent
      BY <2>3, IsolateControlAssumption
    <2>. HIDE DEF x0
    <2>10. Ordered(Contents', data', oob_queue', sent')
      BY Zenon, <2>2, <2>4, <2>6, <2>7, <2>8, <2>9, OrderedEvent
    <2>. QED  BY ZenonT(40), <2>2, <2>5, <2>6, <2>10, QueuePosts
  <1>2. ASSUME NEW s \in scenario.senders, SendEvent(s)
        PROVE  PlaceInv' /\ Abstract!Next
    <2>. DEFINE e == Fresh(Events)
                x == [kind |-> "event", from |-> s, number |-> sent']
    <2>1. /\ status # "starting" /\ sent < scenario.sends /\ sent' = sent + 1 /\ Enqueue(e, FALSE)
          /\ data' = [data EXCEPT ![e] = x] /\ UNCHANGED <<scenario, oob_queue, status>>
      BY Zenon, <1>2 DEF SendEvent
    <2>2. sent \in Nat /\ MaxSends \in Nat /\ sent + 1 \in sent .. MaxSends /\ sent < MaxSends
      BY ZenonT(40), <2>1, SentBound
    <2>3. e \in Events
      BY ZenonT(40), <2>2, FreshEvent DEF Fresh, Pending
    <2>. HIDE DEF e
    <2>4. e \in Messages
      BY Zenon, <2>3 DEF Messages
    <2>5. ListInv' /\ e \notin Range(Contents) /\ \E k : Posted(e, FALSE, k)
      BY ZenonT(40), <2>1, <2>4, EnqueueIs
    <2>6. Contents' = InsertAt(Contents, Len(Contents) + 1, e)
      BY Zenon, <2>5 DEF Posted
    <2>7. x.number = sent + 1 /\ x.number \in 0 .. sent + 1
      BY <2>1, <2>2
    <2>. HIDE DEF x
    <2>8. \A c \in Range(Contents) : data[c].number < x.number
      <3>. SUFFICES ASSUME NEW c \in Range(Contents) PROVE data[c].number < x.number
        BY Zenon
      <3>1. c \in Events \/ c \in Controls
        BY DEF Ordered, Range, Messages
      <3>2. data[c].number \in Nat /\ data[c].number <= sent
        BY <2>2, <3>1 DEF Ordered, RequestMessages
      <3>. QED  BY <2>2, <2>7, <3>2
    <2>9. Ordered(Contents', data', oob_queue', sent')
      BY Zenon, <2>1, <2>2, <2>3, <2>5, <2>6, <2>7, <2>8, OrderedEvent
    <2>. QED  BY ZenonT(40), <2>1, <2>4, <2>5, <2>9, QueuePosts
  <1>3. ASSUME NEW s \in scenario.senders, NEW r \in scenario.requests, SendOOB(s, r)
        PROVE  PlaceInv' /\ UNCHANGED Contents
    <2>. DEFINE m == [request |-> r, from |-> s, number |-> sent']
    <2>1. /\ status # "starting" /\ sent < scenario.sends /\ sent' = sent + 1
          /\ oob_queue' = Append(oob_queue, m) /\ UNCHANGED <<scenario, data, vars, status>>
      BY Zenon, <1>3 DEF SendOOB
    <2>2. sent \in Nat /\ MaxSends \in Nat /\ sent + 1 \in 1 .. MaxSends /\ sent < MaxSends
      BY Zenon, <2>1, SentBound
    <2>3. m \in RequestMessages /\ m.number = sent + 1
      BY ZenonT(40), <2>1, <2>2 DEF RequestMessages, Requests
    <2>. HIDE DEF m
    <2>4. ListInv' /\ Contents' = Contents
      BY Zenon, <2>1, ListUnchanged
    <2>5. Ordered(Contents, data, Append(oob_queue, m), sent + 1)
      BY Zenon, <2>2, <2>3, OrderedRequest
    <2>. QED  BY ZenonT(40), <2>1, <2>4, <2>5
  <1>4. CASE HandleOOBMessage
    <2>. DEFINE m == Head(oob_queue)
    <2>1. /\ status # "starting" /\ oob_queue # << >> /\ oob_queue' = Tail(oob_queue)
          /\ UNCHANGED <<scenario, sent>>
      BY Zenon, <1>4 DEF HandleOOBMessage, MayHandleOOB
    <2>2. CASE MayWait(m)
      <3>. DEFINE c == Fresh(Controls)
      <3>1. Enqueue(c, AtHead(m)) /\ data' = [data EXCEPT ![c] = m] /\ status' = status
        BY ZenonT(40), <1>4, <2>2 DEF HandleOOBMessage, Repost
      <3>2. c \in Controls
        BY Zenon, <2>1, FreshControl DEF Fresh, Pending
      <3>. HIDE DEF c
      <3>3. c \in Messages /\ AtHead(m) \in BOOLEAN
        BY ZenonT(40), <3>2 DEF Messages, AtHead
      <3>4. ListInv' /\ c \notin Range(Contents) /\ \E k : Posted(c, AtHead(m), k)
        BY Zenon, <3>1, <3>3, EnqueueIs
      <3>5. PICK k : Posted(c, AtHead(m), k)
        BY ZenonT(40), <3>4
      <3>6. /\ k \in 1 .. Len(Contents) + 1 /\ Contents' = InsertAt(Contents, k, c)
            /\ IF m.request.priority = BeforeNextEvent THEN FrontEnd(Contents, k)
               ELSE k = Len(Contents) + 1
        BY ZenonT(40), <3>5 DEF Posted, AtHead
      <3>7. Ordered(Contents', data', oob_queue', sent')
        BY Zenon, <2>1, <3>1, <3>2, <3>4, <3>6, OrderedRepost
      <3>8. Abstract!Next
        BY ZenonT(40), <3>1, <3>2, <3>3, QueuePosts
      <3>. QED  BY Zenon, <2>1, <3>1, <3>4, <3>7, <3>8
    <2>3. CASE ~MayWait(m)
      <3>1. UNCHANGED <<data, vars>> /\ status' # "starting"
        BY ZenonT(40), <1>4, <2>1, <2>3 DEF HandleOOBMessage, Serve
      <3>2. ListInv' /\ Contents' = Contents
        BY Zenon, <3>1, ListUnchanged
      <3>3. Ordered(Contents, data, Tail(oob_queue), sent)
        BY ZenonT(40), <2>1, OrderedServe
      <3>. QED  BY Zenon, <2>1, <3>1, <3>2, <3>3
    <2>. QED  BY ZenonT(40), <2>2, <2>3
  <1>5. CASE HandleDelayed \/ HandleEvent
    <2>1. /\ status = "idle" /\ status' # "starting"
          /\ Dequeue /\ data' = [data EXCEPT ![head_] = NULL]
          /\ UNCHANGED <<scenario, sent, oob_queue>>
      BY ZenonT(40), <1>5 DEF HandleDelayed, HandleEvent, MayHandleNormal, Serve
    <2>2. /\ ListInv' /\ Contents # << >> /\ head_ = Head(Contents)
          /\ Contents' = Tail(Contents)
      BY ZenonT(40), <2>1, DequeueIs
    <2>3. Ordered(Contents', data', oob_queue', sent')
      BY Zenon, <2>1, <2>2, OrderedDequeue
    <2>. QED  BY Zenon, <2>1, <2>2, <2>3, QueueDelivers
  <1>6. CASE EventEnds
    <2>1. UNCHANGED <<data, vars, scenario, sent, oob_queue>> /\ status' # "starting"
      BY Zenon, <1>6 DEF EventEnds, EventReturns, EventThrows, queues
    <2>2. ListInv' /\ Contents' = Contents
      BY ZenonT(40), <2>1, ListUnchanged
    <2>. QED  BY ZenonT(40), <2>1, <2>2
  <1>7. CASE LowLevelShutdown
    <2>1. /\ status' = "dead" /\ Clear /\ oob_queue' = << >>
          /\ data' = [m \in Messages |-> NULL] /\ UNCHANGED <<scenario, sent>>
      BY ZenonT(40), <1>7 DEF LowLevelShutdown
    <2>2. ListInv' /\ Contents' = << >>
      BY ZenonT(40), <2>1, ClearIs
    <2>3. Ordered(<< >>, data', << >>, sent)
      BY <2>1, OrderedEmpty DEF Ordered
    <2>. QED  BY Zenon, <2>1, <2>2, <2>3 DEF Abstract!Next, Abstract!DropAll
  <1>8. CASE UNCHANGED allvars
    <2>1. UNCHANGED <<data, vars, scenario, sent, oob_queue, status>>
      BY ZenonT(40), <1>8 DEF allvars, queues
    <2>2. ListInv' /\ Contents' = Contents
      BY Zenon, <2>1, ListUnchanged
    <2>. QED  BY Zenon, <2>1, <2>2
  <1>. QED  BY Zenon, <1>1, <1>2, <1>3, <1>4, <1>5, <1>6, <1>7, <1>8 DEF ControlNext

LEMMA PlaceStarts ==
    ASSUME ControlInit
    PROVE  PlaceInv /\ Abstract!Init
  <1>1. Linked(Messages, NULL, << >>, head_, tail_, next_)
    BY ZenonT(40), Cleared, MessagesAssumption DEF ControlInit, Init, Messages
  <1>2. Contents = << >> /\ ListInv
    BY ZenonT(40), <1>1, ChainIs DEF Contents, ListInv
  <1>3. Ordered(<< >>, data, << >>, 0)
    BY OrderedEmpty, IsolateControlAssumption DEF ControlInit
  <1>. QED  BY ZenonT(40), <1>2, <1>3 DEF PlaceInv, Abstract!Init, ControlInit

(* The list that Enqueue and Dequeue keep with head_, tail_ and next_ is   *)
(* the queue EventQueue describes, whatever the isolate does with it.      *)
THEOREM QueueKeepsItsPromise ==
    ControlSpec => ImplementsQueue
  <1>1. ControlInit => PlaceInv /\ Abstract!Init
    BY Zenon, PlaceStarts
  <1>2. PlaceInv /\ [ControlNext]_allvars => PlaceInv' /\ [Abstract!Next]_Contents
    BY PlaceStep
  <1>. QED  BY <1>1, <1>2, PTL DEF ControlSpec, ImplementsQueue, Abstract!Spec

LEMMA PlaceHolds ==
    ASSUME PlaceInv
    PROVE  RequestsKeepTheirPlace
  <1>. SUFFICES ASSUME NEW i \in DOMAIN Contents, NEW j \in DOMAIN Contents, i < j
                PROVE  <<Contents[i], Contents[j]>> \in MayPrecede(data)
    BY ZenonT(40) DEF RequestsKeepTheirPlace, MayPrecede, First
  <1>. QED  BY DEF PlaceInv, Ordered, Sorted

(* A ping or kill that waits is never overtaken by what its sender sent    *)
(* later, and one that may overtake the events does: HandleLibMessage      *)
(* posts it again from the OOB queue, in the order of the OOB queue, while *)
(* events keep coming in.  Every pending request is older than every       *)
(* message of the OOB queue, and that is what the proof needs.             *)
THEOREM RequestsStayInPlace ==
    ControlSpec => []RequestsKeepTheirPlace
  <1>1. ControlInit => PlaceInv
    BY Zenon, PlaceStarts
  <1>2. PlaceInv /\ [ControlNext]_allvars => PlaceInv'
    BY ZenonT(40), PlaceStep
  <1>3. PlaceInv => RequestsKeepTheirPlace
    BY PlaceHolds
  <1>. QED  BY <1>1, <1>2, <1>3, PTL DEF ControlSpec

-----------------------------------------------------------------------------
(* The arrays with their gaps.                                             *)

Unique(l) == \A i, j \in DOMAIN l : l[i] = l[j] /\ l[i] # NULL => i = j

(* r is l with x in a gap or at the end.                                   *)
Filled(l, x, r, k) ==
    /\ k \in 1 .. Len(l) + 1 /\ DOMAIN r = DOMAIN l \cup {k}
    /\ k \in DOMAIN l => l[k] = NULL
    /\ r[k] = x
    /\ \A i \in DOMAIN l \ {k} : r[i] = l[i]

LEMMA InsertFills ==
    ASSUME NEW S, NEW l \in Seq(S), NEW x \in S
    PROVE  Insert(l, x) \in Seq(S) /\ \E k : Filled(l, x, Insert(l, x), k)
  <1>1. DOMAIN l = 1 .. Len(l) /\ Len(l) \in Nat
    OBVIOUS
  <1>2. CASE Gaps(l) = {}
    <2>1. Insert(l, x) = Append(l, x)
      BY Zenon, <1>2 DEF Insert
    <2>2. DOMAIN Append(l, x) = 1 .. Len(l) + 1 /\ 1 .. Len(l) + 1 = DOMAIN l \cup {Len(l) + 1}
      BY <1>1
    <2>3. Filled(l, x, Append(l, x), Len(l) + 1)
      BY <1>1, <2>2 DEF Filled
    <2>. QED  BY <2>1, <2>3
  <1>3. CASE Gaps(l) # {}
    <2>. DEFINE k == CHOOSE i \in Gaps(l) : \A j \in Gaps(l) : i <= j
    <2>1. Gaps(l) \in SUBSET Nat
      BY <1>1 DEF Gaps
    <2>2. k \in Gaps(l)
      BY ZenonT(40), <1>3, <2>1, LeastNat
    <2>3. Insert(l, x) = [l EXCEPT ![k] = x]
      BY Zenon, <1>3 DEF Insert
    <2>. HIDE DEF k
    <2>4. k \in 1 .. Len(l) /\ l[k] = NULL
      BY Zenon, <1>1, <2>2 DEF Gaps
    <2>5. Filled(l, x, [l EXCEPT ![k] = x], k)
      BY <1>1, <2>4 DEF Filled
    <2>6. [l EXCEPT ![k] = x] \in Seq(S)
      BY <1>1, <2>4
    <2>. QED  BY Zenon, <2>3, <2>5, <2>6
  <1>. QED  BY Zenon, <1>2, <1>3

LEMMA InsertHolds ==
    ASSUME NEW S, NULL \notin S, NEW l \in Seq(S \cup {NULL}), NEW x \in S,
           x \notin Range(l), Unique(l)
    PROVE  /\ Insert(l, x) \in Seq(S \cup {NULL}) /\ Unique(Insert(l, x))
           /\ Held(Insert(l, x)) = Held(l) \cup {x}
  <1>. DEFINE r == Insert(l, x)
  <1>1. r \in Seq(S \cup {NULL}) /\ \E k : Filled(l, x, r, k)
    BY ZenonT(40), InsertFills
  <1>. HIDE DEF r
  <1>2. PICK k : Filled(l, x, r, k)
    BY Zenon, <1>1
  <1>3. \A i \in DOMAIN r : i = k \/ (i \in DOMAIN l \ {k} /\ r[i] = l[i])
    BY Zenon, <1>2 DEF Filled
  <1>4. Unique(r)
    <2>. SUFFICES ASSUME NEW i \in DOMAIN r, NEW j \in DOMAIN r, r[i] = r[j], r[i] # NULL
                  PROVE  i = j
      BY Zenon DEF Unique
    <2>1. \A n \in DOMAIN l : l[n] # x
      BY Zenon DEF Range
    <2>2. r[k] = x
      BY ZenonT(40), <1>2 DEF Filled
    <2>. QED  BY ZenonT(40), <1>3, <2>1, <2>2 DEF Unique
  <1>5. Held(r) \subseteq Held(l) \cup {x}
    BY Zenon, <1>2, <1>3 DEF Held, Range, Filled
  <1>6. Held(l) \cup {x} \subseteq Held(r)
    BY ZenonT(40), <1>2 DEF Held, Range, Filled
  <1>. QED  BY Zenon, <1>1, <1>4, <1>5, <1>6 DEF r

LEMMA EraseHolds ==
    ASSUME NEW S, NULL \notin S, NEW l \in Seq(S \cup {NULL}), NEW i \in DOMAIN l,
           l[i] # NULL, Unique(l)
    PROVE  /\ Erase(l, i) \in Seq(S \cup {NULL}) /\ Unique(Erase(l, i))
           /\ Held(Erase(l, i)) = Held(l) \ {l[i]}
  <1>. DEFINE r == Erase(l, i)
  <1>1. /\ r \in Seq(S \cup {NULL}) /\ DOMAIN r = DOMAIN l /\ r[i] = NULL
        /\ \A j \in DOMAIN l \ {i} : r[j] = l[j]
    BY DEF Erase
  <1>. HIDE DEF r
  <1>2. Unique(r)
    BY Zenon, <1>1 DEF Unique
  <1>3. \A j \in DOMAIN l \ {i} : l[j] # l[i]
    BY Zenon DEF Unique
  <1>4. Held(r) \subseteq Held(l) \ {l[i]}
    BY Zenon, <1>1, <1>3 DEF Held, Range
  <1>5. Held(l) \ {l[i]} \subseteq Held(r)
    BY ZenonT(40), <1>1 DEF Held, Range
  <1>. QED  BY ZenonT(40), <1>1, <1>2, <1>4, <1>5 DEF r

(* The pause count is the number of capabilities held.                     *)
PauseInv ==
    /\ resume_capabilities \in Seq(Capabilities \cup {NULL}) /\ Unique(resume_capabilities)
    /\ IsFiniteSet(Held(resume_capabilities))
    /\ paused_ = Cardinality(Held(resume_capabilities))

LEMMA PauseAdded ==
    ASSUME PauseInv, NEW c \in Capabilities, AddResumeCapability(c)
    PROVE  PauseInv' /\ Held(resume_capabilities') = Held(resume_capabilities) \cup {c}
  <1>. DEFINE l == resume_capabilities
  <1>1. NULL \notin Capabilities /\ c # NULL
    BY Zenon, IsolateControlAssumption
  <1>2. CASE c \in Range(l)
    <2>1. UNCHANGED <<resume_capabilities, paused_>>
      BY Zenon, <1>2 DEF AddResumeCapability, Contains
    <2>2. Held(l) \cup {c} = Held(l)
      BY Zenon, <1>1, <1>2 DEF Held
    <2>. QED  BY ZenonT(40), <2>1, <2>2 DEF PauseInv
  <1>3. CASE c \notin Range(l)
    <2>1. resume_capabilities' = Insert(l, c) /\ paused_' = paused_ + 1
      BY ZenonT(40), <1>3 DEF AddResumeCapability, Contains
    <2>2. /\ Insert(l, c) \in Seq(Capabilities \cup {NULL}) /\ Unique(Insert(l, c))
          /\ Held(Insert(l, c)) = Held(l) \cup {c}
      BY <1>1, <1>3, InsertHolds DEF PauseInv
    <2>3. IsFiniteSet(Held(l) \cup {c}) /\ Cardinality(Held(l) \cup {c}) = paused_ + 1
      BY Zenon, <1>3, FS_AddElement DEF PauseInv, Held
    <2>. QED  BY ZenonT(40), <2>1, <2>2, <2>3 DEF PauseInv
  <1>. QED  BY ZenonT(40), <1>2, <1>3

LEMMA PauseRemoved ==
    ASSUME PauseInv, NEW c \in Capabilities, RemoveResumeCapability(c)
    PROVE  PauseInv' /\ Held(resume_capabilities') = Held(resume_capabilities) \ {c}
  <1>. DEFINE l == resume_capabilities
              at == {i \in DOMAIN l : l[i] = c}
              k == CHOOSE i \in at : \A j \in at : i <= j
  <1>1. NULL \notin Capabilities /\ c # NULL
    BY Zenon, IsolateControlAssumption
  <1>2. CASE at = {}
    <2>1. UNCHANGED <<resume_capabilities, paused_>>
      BY ZenonT(40), <1>2 DEF RemoveResumeCapability
    <2>2. Held(l) \ {c} = Held(l)
      BY ZenonT(40), <1>2 DEF Held, Range
    <2>. QED  BY Zenon, <2>1, <2>2 DEF PauseInv
  <1>3. CASE at # {}
    <2>1. resume_capabilities' = Erase(l, k) /\ paused_' = paused_ - 1
      BY ZenonT(40), <1>3 DEF RemoveResumeCapability
    <2>2. at \in SUBSET Nat
      BY DEF PauseInv
    <2>3. k \in at
      BY Zenon, <1>3, <2>2, LeastNat
    <2>. HIDE DEF k
    <2>4. k \in DOMAIN l /\ l[k] = c
      BY Zenon, <2>3
    <2>5. /\ Erase(l, k) \in Seq(Capabilities \cup {NULL}) /\ Unique(Erase(l, k))
          /\ Held(Erase(l, k)) = Held(l) \ {c}
      BY Zenon, <1>1, <2>4, EraseHolds DEF PauseInv
    <2>6. c \in Held(l)
      BY Zenon, <1>1, <2>4 DEF Held, Range
    <2>7. IsFiniteSet(Held(l) \ {c}) /\ Cardinality(Held(l) \ {c}) = paused_ - 1
      BY ZenonT(40), <2>6, FS_RemoveElement DEF PauseInv
    <2>. QED  BY Zenon, <2>1, <2>5, <2>7 DEF PauseInv
  <1>. QED  BY Zenon, <1>2, <1>3

ErrorInv == error_listeners \in Seq(Ports \cup {NULL}) /\ Unique(error_listeners)

LEMMA ErrorAdded ==
    ASSUME ErrorInv, NEW p \in Ports, AddErrorListener(p)
    PROVE  ErrorInv' /\ Held(error_listeners') = Held(error_listeners) \cup {p}
  <1>1. NULL \notin Ports /\ p # NULL
    BY Zenon, IsolateControlAssumption
  <1>2. CASE p \in Range(error_listeners)
    <2>1. error_listeners' = error_listeners
      BY Zenon, <1>2 DEF AddErrorListener, Contains
    <2>2. Held(error_listeners) \cup {p} = Held(error_listeners)
      BY Zenon, <1>1, <1>2 DEF Held
    <2>. QED  BY ZenonT(40), <2>1, <2>2 DEF ErrorInv
  <1>3. CASE p \notin Range(error_listeners)
    <2>1. error_listeners' = Insert(error_listeners, p)
      BY Zenon, <1>3 DEF AddErrorListener, Contains
    <2>. QED  BY ZenonT(40), <1>1, <1>3, <2>1, InsertHolds DEF ErrorInv
  <1>. QED  BY Zenon, <1>2, <1>3

LEMMA ErrorRemoved ==
    ASSUME ErrorInv, NEW p \in Ports, RemoveErrorListener(p)
    PROVE  ErrorInv' /\ Held(error_listeners') = Held(error_listeners) \ {p}
  <1>. DEFINE l == error_listeners
              k == CHOOSE i \in DOMAIN l : l[i] = p
  <1>1. NULL \notin Ports /\ p # NULL
    BY Zenon, IsolateControlAssumption
  <1>2. CASE p \notin Range(l)
    <2>1. error_listeners' = l
      BY ZenonT(40), <1>2 DEF RemoveErrorListener, Contains
    <2>2. Held(l) \ {p} = Held(l)
      BY ZenonT(40), <1>2 DEF Held
    <2>. QED  BY Zenon, <2>1, <2>2 DEF ErrorInv
  <1>3. CASE p \in Range(l)
    <2>1. error_listeners' = Erase(l, k)
      BY ZenonT(40), <1>3 DEF RemoveErrorListener, Contains
    <2>2. k \in DOMAIN l /\ l[k] = p
      BY ZenonT(40), <1>3 DEF Range
    <2>. HIDE DEF k
    <2>. QED  BY Zenon, <1>1, <2>1, <2>2, EraseHolds DEF ErrorInv
  <1>. QED  BY ZenonT(40), <1>2, <1>3

-----------------------------------------------------------------------------
(* The exit listeners, as a function from ports to responses.              *)

Exits == [port : Ports, response : Responses]

Taken(l) == {i \in DOMAIN l : l[i] # NULL}

OnePerPort(l) == \A i, j \in Taken(l) : l[i].port = l[j].port => i = j

(* f holds just the entries of l.                                          *)
Tells(l, f) ==
    /\ f = [p \in DOMAIN f |-> f[p]]
    /\ DOMAIN f = {l[i].port : i \in Taken(l)}
    /\ \A i \in Taken(l) : f[l[i].port] = l[i].response

ExitInv == exit_listeners \in Seq(Exits \cup {NULL}) /\ OnePerPort(exit_listeners)

LEMMA TellsIsOne ==
    ASSUME NEW l, NEW f, NEW g, Tells(l, f), Tells(l, g)
    PROVE  f = g
  <1>1. \A p \in DOMAIN f : f[p] = g[p]
    BY DEF Tells
  <1>. QED  BY Zenon, <1>1 DEF Tells

LEMMA ExitMessagesTell ==
    ASSUME ExitInv
    PROVE  Tells(exit_listeners, ExitMessages)
  <1>. DEFINE l == exit_listeners
              D == {l[i].port : i \in Taken(l)}
              g == [p \in D |-> l[CHOOSE i \in IndexOfListener(p) : TRUE].response]
  <1>1. ExitMessages = g
    BY Zenon DEF ExitMessages, Taken
  <1>2. ASSUME NEW i \in Taken(l) PROVE g[l[i].port] = l[i].response
    <2>. DEFINE k == CHOOSE j \in IndexOfListener(l[i].port) : TRUE
    <2>1. i \in IndexOfListener(l[i].port)
      BY Zenon DEF IndexOfListener, Taken
    <2>2. k \in IndexOfListener(l[i].port)
      BY ZenonT(40), <2>1
    <2>. HIDE DEF k
    <2>3. k \in Taken(l) /\ l[k].port = l[i].port
      BY Zenon, <2>2 DEF IndexOfListener, Taken
    <2>4. k = i
      BY Zenon, <2>3 DEF ExitInv, OnePerPort
    <2>5. g[l[i].port] = l[k].response
      BY ZenonT(40) DEF k
    <2>. QED  BY Zenon, <2>4, <2>5
  <1>3. DOMAIN g = D /\ g = [p \in DOMAIN g |-> g[p]]
    OBVIOUS
  <1>. HIDE DEF g
  <1>. QED  BY ZenonT(40), <1>1, <1>2, <1>3 DEF Tells

MessagesTell == Tells(exit_listeners, ExitMessages)

LEMMA MessagesTellNext ==
    ExitInv' => MessagesTell'
  <1>1. ExitInv => MessagesTell
    BY ExitMessagesTell DEF MessagesTell
  <1>. QED  BY <1>1, PTL

LEMMA ExitMessagesAre ==
    ASSUME ExitInv', NEW f, Tells(exit_listeners', f)
    PROVE  ExitMessages' = f
  <1>1. Tells(exit_listeners', ExitMessages')
    BY Zenon, MessagesTellNext DEF MessagesTell
  <1>. QED  BY Zenon, <1>1, TellsIsOne

WithExit(f, p, r) == [q \in DOMAIN f \cup {p} |-> IF q = p THEN r ELSE f[q]]
WithoutExit(f, p) == [q \in DOMAIN f \ {p} |-> f[q]]

LEMMA ExitAdded ==
    ASSUME ExitInv, NEW p \in Ports, NEW r \in Responses, AddExitListener(p, r)
    PROVE  ExitInv' /\ ExitMessages' = WithExit(ExitMessages, p, r)
  <1>. DEFINE l == exit_listeners
              l2 == exit_listeners'
              f == ExitMessages
              at == IndexOfListener(p)
              x == [port |-> p, response |-> r]
              g == WithExit(f, p, r)
  <1>1. l \in Seq(Exits \cup {NULL}) /\ OnePerPort(l) /\ Tells(l, f)
    BY ZenonT(40), ExitMessagesTell DEF ExitInv
  <1>2. x \in Exits /\ NULL \notin Exits
    BY ZenonT(40), IsolateControlAssumption DEF Exits
  <1>3. \A i \in Taken(l) : l[i] \in Exits /\ l[i] # NULL
    BY <1>1 DEF Taken
  (* Either way, one entry becomes x and the others stay.                  *)
  <1>4. PICK k : /\ l2 \in Seq(Exits \cup {NULL}) /\ DOMAIN l2 = DOMAIN l \cup {k}
                 /\ l2[k] = x
                 /\ \A i \in DOMAIN l \ {k} : l2[i] = l[i]
                 /\ \A i \in Taken(l) \ {k} : l[i].port # p
                 /\ k \in Taken(l) => l[k].port = p
    <2>1. CASE at # {}
      <3>. DEFINE k == CHOOSE i \in at : TRUE
      <3>1. k \in at
        BY ZenonT(40), <2>1
      <3>2. l2 = [l EXCEPT ![k].response = r]
        BY Zenon, <2>1 DEF AddExitListener
      <3>. HIDE DEF k
      <3>3. k \in Taken(l) /\ k \in DOMAIN l /\ l[k].port = p
        BY Zenon, <3>1 DEF IndexOfListener, Taken
      <3>4. l[k] \in Exits
        BY ZenonT(40), <1>3, <3>3
      <3>5. [l[k] EXCEPT !.response = r] = x
        BY <3>3, <3>4 DEF Exits
      <3>6. /\ DOMAIN l2 = DOMAIN l /\ l2[k] = x /\ \A i \in DOMAIN l \ {k} : l2[i] = l[i]
            /\ l2 \in Seq(Exits \cup {NULL})
        BY <1>1, <1>2, <3>2, <3>3, <3>5
      <3>7. \A i \in Taken(l) \ {k} : l[i].port # p
        BY Zenon, <1>1, <3>3 DEF OnePerPort
      <3>. QED  BY Zenon, <3>3, <3>6, <3>7
    <2>2. CASE at = {}
      <3>1. l2 = Insert(l, x)
        BY ZenonT(40), <2>2 DEF AddExitListener
      <3>2. l2 \in Seq(Exits \cup {NULL}) /\ \E k : Filled(l, x, l2, k)
        BY Zenon, <1>1, <1>2, <3>1, InsertFills
      <3>3. PICK k : Filled(l, x, l2, k)
        BY ZenonT(40), <3>2
      <3>4. \A i \in Taken(l) : l[i].port # p
        BY ZenonT(40), <2>2 DEF IndexOfListener, Taken
      <3>5. k \notin Taken(l)
        BY Zenon, <3>3 DEF Filled, Taken
      <3>6. DOMAIN l2 = DOMAIN l \cup {k} /\ l2[k] = x /\ \A i \in DOMAIN l \ {k} : l2[i] = l[i]
        BY ZenonT(40), <3>3 DEF Filled
      <3>. QED  BY Zenon, <3>2, <3>4, <3>5, <3>6
    <2>. QED  BY ZenonT(40), <2>1, <2>2
  <1>. HIDE DEF x
  <1>5. x.port = p /\ x.response = r
    BY Zenon DEF x
  <1>. HIDE DEF l2, f, at
  <1>6. /\ Taken(l2) = Taken(l) \cup {k}
        /\ \A i \in Taken(l) \ {k} : l2[i] = l[i]
    BY Zenon, <1>2, <1>4 DEF Taken
  <1>7. OnePerPort(l2)
    <2>. SUFFICES ASSUME NEW i \in Taken(l2), NEW j \in Taken(l2), l2[i].port = l2[j].port
                  PROVE  i = j
      BY Zenon DEF OnePerPort
    <2>1. CASE i # k /\ j # k
      BY Zenon, <1>1, <1>6, <2>1 DEF OnePerPort
    <2>2. CASE i = k /\ j # k
      BY ZenonT(40), <1>4, <1>5, <1>6, <2>2
    <2>3. CASE i # k /\ j = k
      BY Zenon, <1>4, <1>5, <1>6, <2>3
    <2>. QED  BY ZenonT(40), <2>1, <2>2, <2>3
  <1>8. DOMAIN g = DOMAIN f \cup {p} /\ g = [q \in DOMAIN g |-> g[q]] /\ g[p] = r
        /\ \A q \in DOMAIN f \ {p} : g[q] = f[q]
    BY ZenonT(40) DEF WithExit
  <1>. HIDE DEF g
  <1>9. {l2[i].port : i \in Taken(l2)} = {l[i].port : i \in Taken(l)} \cup {p}
    <2>1. ASSUME NEW i \in Taken(l2) PROVE l2[i].port \in {l[j].port : j \in Taken(l)} \cup {p}
      BY ZenonT(40), <1>4, <1>5, <1>6
    <2>2. p \in {l2[i].port : i \in Taken(l2)}
      BY Zenon, <1>4, <1>5, <1>6
    <2>3. ASSUME NEW i \in Taken(l) PROVE l[i].port \in {l2[j].port : j \in Taken(l2)}
      <3>1. CASE i = k
        BY Zenon, <1>4, <2>2, <3>1
      <3>2. CASE i # k
        BY ZenonT(40), <1>6, <3>2
      <3>. QED  BY ZenonT(40), <3>1, <3>2
    <2>. QED  BY ZenonT(40), <2>1, <2>2, <2>3
  <1>10. ASSUME NEW i \in Taken(l2) PROVE g[l2[i].port] = l2[i].response
    <2>1. CASE i = k
      BY ZenonT(40), <1>4, <1>5, <1>8, <2>1
    <2>2. CASE i # k
      <3>1. i \in Taken(l) \ {k} /\ l2[i] = l[i] /\ l[i].port # p
        BY ZenonT(40), <1>4, <1>6, <2>2
      <3>2. l[i].port \in DOMAIN f /\ f[l[i].port] = l[i].response
        BY Zenon, <1>1, <3>1 DEF Tells
      <3>. QED  BY Zenon, <1>8, <3>1, <3>2
    <2>. QED  BY Zenon, <2>1, <2>2
  <1>11. Tells(l2, g)
    BY ZenonT(40), <1>1, <1>8, <1>9, <1>10 DEF Tells
  <1>12. ExitInv'
    BY ZenonT(40), <1>4, <1>7 DEF ExitInv, l2
  <1>13. ExitMessages' = g
    BY Zenon, <1>11, <1>12, ExitMessagesAre DEF l2
  <1>. QED  BY Zenon, <1>12, <1>13 DEF f, g

LEMMA ExitRemoved ==
    ASSUME ExitInv, NEW p \in Ports, RemoveExitListener(p)
    PROVE  ExitInv' /\ ExitMessages' = WithoutExit(ExitMessages, p)
  <1>. DEFINE l == exit_listeners
              l2 == exit_listeners'
              f == ExitMessages
              at == IndexOfListener(p)
              g == WithoutExit(f, p)
  <1>1. l \in Seq(Exits \cup {NULL}) /\ OnePerPort(l) /\ Tells(l, f)
    BY Zenon, ExitMessagesTell DEF ExitInv
  <1>2. PICK k : /\ l2 \in Seq(Exits \cup {NULL}) /\ DOMAIN l2 = DOMAIN l
                 /\ k \in DOMAIN l => l2[k] = NULL
                 /\ \A i \in DOMAIN l \ {k} : l2[i] = l[i]
                 /\ \A i \in Taken(l) \ {k} : l[i].port # p
                 /\ k \in Taken(l) => l[k].port = p
    <2>1. CASE at # {}
      <3>. DEFINE k == CHOOSE i \in at : TRUE
      <3>1. k \in at
        BY ZenonT(40), <2>1
      <3>2. l2 = Erase(l, k)
        BY Zenon, <2>1 DEF RemoveExitListener
      <3>. HIDE DEF k
      <3>3. k \in Taken(l) /\ k \in DOMAIN l /\ l[k].port = p
        BY Zenon, <3>1 DEF IndexOfListener, Taken
      <3>4. /\ DOMAIN l2 = DOMAIN l /\ l2[k] = NULL /\ \A i \in DOMAIN l \ {k} : l2[i] = l[i]
            /\ l2 \in Seq(Exits \cup {NULL})
        BY <1>1, <3>2, <3>3 DEF Erase
      <3>5. \A i \in Taken(l) \ {k} : l[i].port # p
        BY Zenon, <1>1, <3>3 DEF OnePerPort
      <3>. QED  BY Zenon, <3>3, <3>4, <3>5
    <2>2. CASE at = {}
      <3>1. l2 = l
        BY ZenonT(40), <2>2 DEF RemoveExitListener
      <3>2. \A i \in Taken(l) : l[i].port # p
        BY ZenonT(40), <2>2 DEF IndexOfListener, Taken
      <3>3. DOMAIN l = 1 .. Len(l) /\ 0 \notin DOMAIN l
        BY <1>1
      <3>. QED  BY Zenon, <1>1, <3>1, <3>2, <3>3 DEF Taken
    <2>. QED  BY ZenonT(40), <2>1, <2>2
  <1>. HIDE DEF l2, f, at
  <1>3. Taken(l2) = Taken(l) \ {k} /\ \A i \in Taken(l) \ {k} : l2[i] = l[i]
    BY Zenon, <1>2 DEF Taken
  <1>4. OnePerPort(l2)
    BY ZenonT(40), <1>1, <1>3 DEF OnePerPort
  <1>5. DOMAIN g = DOMAIN f \ {p} /\ g = [q \in DOMAIN g |-> g[q]]
        /\ \A q \in DOMAIN f \ {p} : g[q] = f[q]
    BY Zenon DEF WithoutExit
  <1>. HIDE DEF g
  <1>6. {l2[i].port : i \in Taken(l2)} = {l[i].port : i \in Taken(l)} \ {p}
    <2>1. \A i \in Taken(l2) : l2[i].port \in {l[j].port : j \in Taken(l)} \ {p}
      BY ZenonT(40), <1>2, <1>3
    <2>2. ASSUME NEW i \in Taken(l), l[i].port # p PROVE l[i].port \in {l2[j].port : j \in Taken(l2)}
      BY Zenon, <1>2, <1>3, <2>2
    <2>. QED  BY Zenon, <2>1, <2>2
  <1>7. ASSUME NEW i \in Taken(l2) PROVE g[l2[i].port] = l2[i].response
    <2>1. i \in Taken(l) \ {k} /\ l2[i] = l[i] /\ l[i].port # p
      BY Zenon, <1>2, <1>3
    <2>2. l[i].port \in DOMAIN f /\ f[l[i].port] = l[i].response
      BY ZenonT(40), <1>1, <2>1 DEF Tells
    <2>. QED  BY ZenonT(40), <1>5, <2>1, <2>2
  <1>8. Tells(l2, g)
    BY Zenon, <1>1, <1>5, <1>6, <1>7 DEF Tells
  <1>9. ExitInv'
    BY ZenonT(40), <1>2, <1>4 DEF ExitInv, l2
  <1>10. ExitMessages' = g
    BY Zenon, <1>8, <1>9, ExitMessagesAre DEF l2
  <1>. QED  BY ZenonT(40), <1>9, <1>10 DEF f, g

-----------------------------------------------------------------------------
ListsInv ==
    /\ PauseInv /\ ExitInv /\ ErrorInv
    /\ status \in {"starting", "idle", "event", "failed", "dead"}
    /\ sticky_error # "none" => status \in {"failed", "dead"}
    /\ status = "starting" =>
          /\ resume_capabilities = << >> /\ exit_listeners = << >> /\ error_listeners = << >>


LEMMA PhaseIs ==
    /\ status = "starting" => Phase = "new"
    /\ status = "dead" => Phase = "ended"
    /\ status \notin {"starting", "dead"} => Phase = "started"
  BY ZenonT(40) DEF Phase

(* The state of ControlledIsolate does not change but for what is listed.  *)
LEMMA ViewUnchanged ==
    /\ UNCHANGED resume_capabilities => Held(resume_capabilities') = Held(resume_capabilities)
    /\ UNCHANGED error_listeners => Held(error_listeners') = Held(error_listeners)
    /\ UNCHANGED exit_listeners => UNCHANGED ExitMessages
    /\ UNCHANGED <<resume_capabilities, paused_>> /\ PauseInv => PauseInv'
    /\ UNCHANGED exit_listeners /\ ExitInv => ExitInv'
    /\ UNCHANGED error_listeners /\ ErrorInv => ErrorInv'
  <1>1. UNCHANGED exit_listeners => UNCHANGED ExitMessages
    BY DEF ExitMessages, IndexOfListener
  <1>2. /\ UNCHANGED <<resume_capabilities, paused_>> /\ PauseInv => PauseInv'
        /\ UNCHANGED exit_listeners /\ ExitInv => ExitInv'
        /\ UNCHANGED error_listeners /\ ErrorInv => ErrorInv'
    BY ZenonT(40) DEF PauseInv, ExitInv, ErrorInv
  <1>. QED  BY ZenonT(40), <1>1, <1>2

(* One lemma for each kind of request: what ControlledIsolate does for it. *)
Same == UNCHANGED <<notified, sticky_error = "internal kill", Phase>>

LEMMA PromiseCounts ==
    ASSUME NEW S
    PROVE  Promise!Cardinality(S) = Cardinality(S)
  BY Zenon DEF Cardinality, Promise!Cardinality

LEMMA PromisePauses ==
    ASSUME NEW c \in Capabilities, Same, UNCHANGED (status = "event"), PauseInv',
           UNCHANGED <<exit_listeners, error_listeners>>,
           \/ Held(resume_capabilities') = Held(resume_capabilities) \cup {c}
           \/ Held(resume_capabilities') = Held(resume_capabilities) \ {c}
    PROVE  Promise!Next
  <1>1. UNCHANGED ExitMessages /\ Held(error_listeners') = Held(error_listeners)
    BY Zenon, ViewUnchanged
  <1>2. paused_' = Cardinality(Held(resume_capabilities'))
    BY ZenonT(40) DEF PauseInv
  <1>3. CASE Held(resume_capabilities') = Held(resume_capabilities) \cup {c}
    <2>1. paused_' = Promise!Cardinality(Held(resume_capabilities) \cup {c})
      BY Zenon, <1>2, <1>3, PromiseCounts
    <2>2. Promise!Pause(c)
      BY ZenonT(40), <1>1, <1>3, <2>1 DEF Promise!Pause, Promise!PausedBy, Same, Phase, Held
    <2>. QED  BY ZenonT(40), <2>2 DEF Promise!Next
  <1>4. CASE Held(resume_capabilities') = Held(resume_capabilities) \ {c}
    <2>1. paused_' = Promise!Cardinality(Held(resume_capabilities) \ {c})
      BY ZenonT(40), <1>2, <1>4, PromiseCounts
    <2>2. Promise!Resume(c)
      BY Zenon, <1>1, <1>4, <2>1 DEF Promise!Resume, Promise!PausedBy, Same, Phase, Held
    <2>. QED  BY Zenon, <2>2 DEF Promise!Next
  <1>. QED  BY ZenonT(40), <1>3, <1>4

LEMMA PromiseExits ==
    ASSUME NEW p \in Ports, NEW r, Same, UNCHANGED (status = "event"),
           UNCHANGED <<resume_capabilities, paused_, error_listeners>>,
           \/ r \in Responses /\ ExitMessages' = WithExit(ExitMessages, p, r)
           \/ ExitMessages' = WithoutExit(ExitMessages, p)
    PROVE  Promise!Next
  <1>1. /\ Held(resume_capabilities') = Held(resume_capabilities)
        /\ Held(error_listeners') = Held(error_listeners)
    BY Zenon, ViewUnchanged
  <1>2. CASE r \in Responses /\ ExitMessages' = WithExit(ExitMessages, p, r)
    <2>1. Promise!AddExitListener(p, r)
      BY Zenon, <1>1, <1>2 DEF Promise!AddExitListener, Same, Phase, Held, WithExit
    <2>. QED  BY ZenonT(40), <1>2, <2>1 DEF Promise!Next
  <1>3. CASE ExitMessages' = WithoutExit(ExitMessages, p)
    <2>1. Promise!RemoveExitListener(p)
      BY Zenon, <1>1, <1>3 DEF Promise!RemoveExitListener, Same, Phase, Held, WithoutExit
    <2>. QED  BY ZenonT(40), <2>1 DEF Promise!Next
  <1>. QED  BY ZenonT(40), <1>2, <1>3

LEMMA PromiseErrors ==
    ASSUME NEW p \in Ports, Same, UNCHANGED (status = "event"),
           UNCHANGED <<resume_capabilities, paused_, exit_listeners>>,
           \/ Held(error_listeners') = Held(error_listeners) \cup {p}
           \/ Held(error_listeners') = Held(error_listeners) \ {p}
    PROVE  Promise!Next
  <1>1. UNCHANGED ExitMessages /\ Held(resume_capabilities') = Held(resume_capabilities)
    BY ZenonT(40), ViewUnchanged
  <1>2. Promise!AddErrorListener(p) \/ Promise!RemoveErrorListener(p)
    BY Zenon, <1>1 DEF Promise!AddErrorListener, Promise!RemoveErrorListener, Same, Phase, Held
  <1>. QED  BY ZenonT(40), <1>2 DEF Promise!Next

(* No list changes: the isolate goes on, ends an event or is condemned.    *)
LEMMA PromiseRuns ==
    ASSUME UNCHANGED <<resume_capabilities, paused_, exit_listeners, error_listeners>>,
           UNCHANGED <<notified, Phase>>,
           \/ UNCHANGED <<status = "event", sticky_error = "internal kill">>
           \/ status' # "event" /\ UNCHANGED (sticky_error = "internal kill")
           \/ status' # "event" /\ sticky_error' = "internal kill"
           \/ /\ status = "idle" /\ status' = "event" /\ paused_ = 0
              /\ UNCHANGED (sticky_error = "internal kill")
    PROVE  [Promise!Next]_(Promise!cvars)
  <1>1. /\ Held(resume_capabilities') = Held(resume_capabilities)
        /\ Held(error_listeners') = Held(error_listeners) /\ UNCHANGED ExitMessages
    BY Zenon, ViewUnchanged
  <1>2. CASE UNCHANGED <<status = "event", sticky_error = "internal kill">>
    <2>1. UNCHANGED Promise!cvars
      BY ZenonT(40), <1>1, <1>2 DEF Promise!cvars, Held, Phase
    <2>. QED  BY ZenonT(40), <2>1
  <1>3. CASE status' # "event" /\ UNCHANGED (sticky_error = "internal kill")
    <2>1. Promise!EventEnds
      BY ZenonT(40), <1>1, <1>3 DEF Promise!EventEnds, Held, Phase
    <2>. QED  BY ZenonT(40), <2>1 DEF Promise!Next
  <1>4. CASE status' # "event" /\ sticky_error' = "internal kill"
    <2>1. Promise!Condemn
      BY ZenonT(40), <1>1, <1>4 DEF Promise!Condemn, Held, Phase
    <2>. QED  BY Zenon, <2>1 DEF Promise!Next
  <1>5. CASE /\ status = "idle" /\ status' = "event" /\ paused_ = 0
             /\ UNCHANGED (sticky_error = "internal kill")
    <2>1. Phase = "started"
      BY Zenon, <1>5, PhaseIs
    <2>2. Promise!EventStarts
      BY ZenonT(40), <1>1, <1>5, <2>1 DEF Promise!EventStarts, Held, Phase
    <2>. QED  BY Zenon, <2>2 DEF Promise!Next
  <1>. QED  BY ZenonT(40), <1>2, <1>3, <1>4, <1>5

LEMMA PromiseServes ==
    ASSUME ListsInv, status \in {"idle", "event"}, NEW m, m.request \in Requests, Serve(m)
    PROVE  ListsInv' /\ [Promise!Next]_(Promise!cvars)
  <1>. DEFINE r == m.request
              kills == r.kind \in {"kill", "internal kill"} /\ r.granted
  <1>1. PICK s \in Scenarios : r \in s.requests
    BY ZenonT(40) DEF Requests
  <1>2. /\ r.kind \in {"pause", "resume"} => r.cap \in Capabilities
        /\ r.kind \in {"add exit", "del exit", "add error", "del error"} => r.port \in Ports
        /\ r.kind = "add exit" => r.response \in Responses
    BY ZenonT(40), <1>1, ScenariosAssumption
  <1>3. sticky_error = "none" /\ notified' = notified
    BY Zenon DEF ListsInv, Serve
  <1>4. /\ kills => sticky_error' = r.kind /\ status' = "failed"
        /\ ~kills => UNCHANGED <<sticky_error, status>>
    BY ZenonT(40) DEF Serve
  <1>. HIDE DEF r
  <1>5. /\ status' \in {"idle", "event", "failed"} /\ UNCHANGED Phase
        /\ sticky_error' # "none" => status' \in {"failed", "dead"}
    <2>1. status' \in {"idle", "event", "failed"}
      BY ZenonT(40), <1>4
    <2>2. status' \in {"idle", "event", "failed"} => Phase' = "started"
      BY Zenon DEF Phase
    <2>3. Phase = "started"
      BY Zenon, PhaseIs
    <2>. QED  BY ZenonT(40), <1>3, <1>4, <2>1, <2>2, <2>3
  <1>6. ASSUME PauseInv', ExitInv', ErrorInv' PROVE ListsInv'
    BY ZenonT(40), <1>5, <1>6 DEF ListsInv
  <1>7. ~kills => Same /\ UNCHANGED (status = "event")
    BY Zenon, <1>3, <1>4, <1>5 DEF Same
  <1>8. CASE /\ r.kind = "pause" /\ AddResumeCapability(r.cap)
             /\ UNCHANGED <<exit_listeners, error_listeners, errors_fatal, answered>>
    <2>1. ~kills /\ r.cap \in Capabilities
      BY ZenonT(40), <1>2, <1>8
    <2>2. PauseInv' /\ Held(resume_capabilities') = Held(resume_capabilities) \cup {r.cap}
      BY Zenon, <1>8, <2>1, PauseAdded DEF ListsInv
    <2>3. ListsInv'
      BY ZenonT(40), <1>6, <1>8, <2>2, ViewUnchanged DEF ListsInv
    <2>. QED  BY ZenonT(40), <1>7, <1>8, <2>1, <2>2, <2>3, PromisePauses
  <1>9. CASE /\ r.kind = "resume" /\ RemoveResumeCapability(r.cap)
             /\ UNCHANGED <<exit_listeners, error_listeners, errors_fatal, answered>>
    <2>1. ~kills /\ r.cap \in Capabilities
      BY ZenonT(40), <1>2, <1>9
    <2>2. PauseInv' /\ Held(resume_capabilities') = Held(resume_capabilities) \ {r.cap}
      BY Zenon, <1>9, <2>1, PauseRemoved DEF ListsInv
    <2>3. ListsInv'
      BY ZenonT(40), <1>6, <1>9, <2>2, ViewUnchanged DEF ListsInv
    <2>. QED  BY Zenon, <1>7, <1>9, <2>1, <2>2, <2>3, PromisePauses
  <1>10. CASE /\ r.kind \in {"add exit", "del exit"}
              /\ IF r.kind = "add exit" THEN AddExitListener(r.port, r.response)
                 ELSE RemoveExitListener(r.port)
              /\ UNCHANGED <<paused_, resume_capabilities, error_listeners, errors_fatal, answered>>
    <2>1. ~kills /\ r.port \in Ports
      BY ZenonT(40), <1>2, <1>10
    <2>2. CASE r.kind = "add exit"
      <3>1. r.response \in Responses /\ AddExitListener(r.port, r.response)
        BY ZenonT(40), <1>2, <1>10, <2>2
      <3>2. ExitInv' /\ ExitMessages' = WithExit(ExitMessages, r.port, r.response)
        BY Zenon, <2>1, <3>1, ExitAdded DEF ListsInv
      <3>3. ListsInv'
        BY ZenonT(40), <1>6, <1>10, <3>2, ViewUnchanged DEF ListsInv
      <3>. QED  BY Zenon, <1>7, <1>10, <2>1, <3>1, <3>2, <3>3, PromiseExits
    <2>3. CASE r.kind # "add exit"
      <3>1. RemoveExitListener(r.port)
        BY ZenonT(40), <1>10, <2>3
      <3>2. ExitInv' /\ ExitMessages' = WithoutExit(ExitMessages, r.port)
        BY Zenon, <2>1, <3>1, ExitRemoved DEF ListsInv
      <3>3. ListsInv'
        BY ZenonT(40), <1>6, <1>10, <3>2, ViewUnchanged DEF ListsInv
      <3>. QED  BY Zenon, <1>7, <1>10, <2>1, <3>2, <3>3, PromiseExits
    <2>. QED  BY Zenon, <2>2, <2>3
  <1>11. CASE /\ r.kind \in {"add error", "del error"}
              /\ IF r.kind = "add error" THEN AddErrorListener(r.port)
                 ELSE RemoveErrorListener(r.port)
              /\ UNCHANGED <<paused_, resume_capabilities, exit_listeners, errors_fatal, answered>>
    <2>1. ~kills /\ r.port \in Ports
      BY ZenonT(40), <1>2, <1>11
    <2>2. /\ ErrorInv'
          /\ \/ Held(error_listeners') = Held(error_listeners) \cup {r.port}
             \/ Held(error_listeners') = Held(error_listeners) \ {r.port}
      BY Zenon, <1>11, <2>1, ErrorAdded, ErrorRemoved DEF ListsInv
    <2>3. ListsInv'
      BY ZenonT(40), <1>6, <1>11, <2>2, ViewUnchanged DEF ListsInv
    <2>. QED  BY Zenon, <1>7, <1>11, <2>1, <2>2, <2>3, PromiseErrors
  <1>12. CASE UNCHANGED <<paused_, resume_capabilities, exit_listeners, error_listeners>>
    <2>1. ListsInv'
      BY ZenonT(40), <1>6, <1>12, ViewUnchanged DEF ListsInv
    <2>2. \/ UNCHANGED <<status = "event", sticky_error = "internal kill">>
          \/ status' # "event" /\ UNCHANGED (sticky_error = "internal kill")
          \/ status' # "event" /\ sticky_error' = "internal kill"
      BY Zenon, <1>3, <1>4
    <2>. QED  BY Zenon, <1>3, <1>5, <1>12, <2>1, <2>2, PromiseRuns
  <1>13. \/ /\ r.kind = "pause" /\ AddResumeCapability(r.cap)
            /\ UNCHANGED <<exit_listeners, error_listeners, errors_fatal, answered>>
         \/ /\ r.kind = "resume" /\ RemoveResumeCapability(r.cap)
            /\ UNCHANGED <<exit_listeners, error_listeners, errors_fatal, answered>>
         \/ /\ r.kind \in {"add exit", "del exit"}
            /\ IF r.kind = "add exit" THEN AddExitListener(r.port, r.response)
               ELSE RemoveExitListener(r.port)
            /\ UNCHANGED <<paused_, resume_capabilities, error_listeners, errors_fatal, answered>>
         \/ /\ r.kind \in {"add error", "del error"}
            /\ IF r.kind = "add error" THEN AddErrorListener(r.port)
               ELSE RemoveErrorListener(r.port)
            /\ UNCHANGED <<paused_, resume_capabilities, exit_listeners, errors_fatal, answered>>
         \/ UNCHANGED <<paused_, resume_capabilities, exit_listeners, error_listeners>>
    BY ZenonT(40) DEF Serve, lists, r
  <1>. QED  BY Zenon, <1>8, <1>9, <1>10, <1>11, <1>12, <1>13

LEMMA PromiseStarts ==
    ASSUME ListsInv, scenario \in Scenarios, Starts
    PROVE  ListsInv' /\ Promise!Next
  <1>1. PICK w \in scenario.spawns : RunIsolate(w)
    BY Zenon DEF Starts
  <1>2. {w.onExit, w.onError} \subseteq Ports \cup {NULL}
    BY ZenonT(40), ScenariosAssumption
  <1>3. /\ status = "starting" /\ status' = "idle" /\ UNCHANGED <<sticky_error, notified>>
        /\ sticky_error = "none"
        /\ resume_capabilities = << >> /\ exit_listeners = << >> /\ error_listeners = << >>
    BY Zenon, <1>1 DEF RunIsolate, ListsInv, outcome
  <1>4. Phase = "new" /\ Phase' = "started"
    BY Zenon, <1>3 DEF Phase
  <1>5. Held(resume_capabilities) = {} /\ Held(error_listeners) = {}
    BY <1>3 DEF Held, Range
  <1>6. PICK C \in SUBSET Capabilities : PauseInv' /\ Held(resume_capabilities') = C
    <2>1. CASE w.paused
      <3>1. AddResumeCapability(PauseCapability) /\ PauseCapability \in Capabilities
        BY Zenon, <1>1, <2>1, IsolateControlAssumption DEF RunIsolate
      <3>2. PauseInv' /\ Held(resume_capabilities') = {PauseCapability}
        BY ZenonT(40), <1>5, <3>1, PauseAdded DEF ListsInv
      <3>. QED  BY Zenon, <3>1, <3>2
    <2>2. CASE ~w.paused
      <3>1. UNCHANGED <<paused_, resume_capabilities>>
        BY ZenonT(40), <1>1, <2>2 DEF RunIsolate
      <3>. QED  BY Zenon, <1>5, <3>1, ViewUnchanged DEF ListsInv
    <2>. QED  BY ZenonT(40), <2>1, <2>2
  <1>7. PICK E \in SUBSET Ports : ErrorInv' /\ Held(error_listeners') = E
    <2>1. CASE w.onError = NULL
      <3>1. UNCHANGED error_listeners
        BY Zenon, <1>1, <2>1 DEF RunIsolate
      <3>. QED  BY ZenonT(40), <1>5, <3>1, ViewUnchanged DEF ListsInv
    <2>2. CASE w.onError # NULL
      <3>1. AddErrorListener(w.onError) /\ w.onError \in Ports
        BY Zenon, <1>1, <1>2, <2>2 DEF RunIsolate
      <3>2. ErrorInv' /\ Held(error_listeners') = {w.onError}
        BY ZenonT(40), <1>5, <3>1, ErrorAdded DEF ListsInv
      <3>. QED  BY ZenonT(40), <3>1, <3>2
    <2>. QED  BY Zenon, <2>1, <2>2
  <1>8. PICK X \in SUBSET Ports : ExitInv' /\ ExitMessages' \in [X -> Responses]
    <2>1. Tells(exit_listeners, ExitMessages)
      BY ZenonT(40), ExitMessagesTell DEF ListsInv
    <2>2. DOMAIN ExitMessages = {} /\ ExitMessages = [p \in {} |-> ExitMessages[p]]
      BY <1>3, <2>1 DEF Tells, Taken
    <2>3. CASE w.onExit = NULL
      <3>1. UNCHANGED exit_listeners
        BY Zenon, <1>1, <2>3 DEF RunIsolate
      <3>2. ExitMessages \in [{} -> Responses]
        BY ZenonT(40), <2>2
      <3>. QED  BY Zenon, <3>1, <3>2, ViewUnchanged DEF ListsInv
    <2>4. CASE w.onExit # NULL
      <3>1. /\ AddExitListener(w.onExit, NoResponse) /\ w.onExit \in Ports
            /\ NoResponse \in Responses
        BY ZenonT(40), <1>1, <1>2, <2>4, IsolateControlAssumption DEF RunIsolate
      <3>2. ExitInv' /\ ExitMessages' = WithExit(ExitMessages, w.onExit, NoResponse)
        BY Zenon, <3>1, ExitAdded DEF ListsInv
      <3>3. WithExit(ExitMessages, w.onExit, NoResponse) \in [{w.onExit} -> Responses]
        BY ZenonT(40), <2>2, <3>1 DEF WithExit
      <3>. QED  BY Zenon, <3>1, <3>2, <3>3
    <2>. QED  BY Zenon, <2>3, <2>4
  <1>9. ListsInv'
    BY Zenon, <1>3, <1>6, <1>7, <1>8 DEF ListsInv
  <1>10. paused_' = Promise!Cardinality(C)
    BY ZenonT(40), <1>6, PromiseCounts DEF PauseInv
  <1>11. Promise!Start(C, ExitMessages', E)
    BY Zenon, <1>3, <1>4, <1>6, <1>7, <1>10 DEF Promise!Start, Promise!PausedBy, Held, Phase
  <1>12. Promise!Next
    BY ZenonT(40), <1>4, <1>8, <1>11 DEF Promise!Next, Phase
  <1>. QED  BY ZenonT(40), <1>9, <1>12

LEMMA PromiseStep ==
    ASSUME PlaceInv, ListsInv, [ControlNext]_allvars
    PROVE  ListsInv' /\ [Promise!Next]_(Promise!cvars)
  <1>1. CASE Starts
    BY ZenonT(40), <1>1, PromiseStarts DEF PlaceInv
  <1>2. ASSUME UNCHANGED <<paused_, resume_capabilities, exit_listeners, error_listeners,
                           status, sticky_error, notified>>
        PROVE  ListsInv' /\ [Promise!Next]_(Promise!cvars)
    <2>1. ListsInv'
      BY ZenonT(40), <1>2, ViewUnchanged DEF ListsInv
    <2>2. UNCHANGED Phase
      BY Zenon, <1>2 DEF Phase
    <2>. QED  BY Zenon, <1>2, <2>1, <2>2, PromiseRuns
  <1>3. ASSUME NEW s \in scenario.senders, SendEvent(s)
        PROVE  ListsInv' /\ [Promise!Next]_(Promise!cvars)
    BY ZenonT(40), <1>2, <1>3 DEF SendEvent, lists, outcome
  <1>4. ASSUME NEW s \in scenario.senders, NEW r \in scenario.requests, SendOOB(s, r)
        PROVE  ListsInv' /\ [Promise!Next]_(Promise!cvars)
    BY Zenon, <1>2, <1>4 DEF SendOOB, lists, outcome
  <1>5. CASE HandleOOBMessage
    <2>. DEFINE m == Head(oob_queue)
    <2>1. status \in {"idle", "event"} /\ oob_queue # << >>
      BY Zenon, <1>5 DEF HandleOOBMessage, MayHandleOOB
    <2>2. m \in RequestMessages
      BY ZenonT(40), <2>1, OrderedServe DEF PlaceInv
    <2>3. m.request \in Requests
      BY Zenon, <2>2 DEF RequestMessages
    <2>4. CASE MayWait(m)
      BY ZenonT(40), <1>2, <1>5, <2>4 DEF HandleOOBMessage, Repost, lists, outcome
    <2>5. CASE ~MayWait(m)
      <3>1. Serve(m)
        BY ZenonT(40), <1>5, <2>5 DEF HandleOOBMessage
      <3>. HIDE DEF m
      <3>. QED  BY Zenon, <2>1, <2>3, <3>1, PromiseServes
    <2>. QED  BY ZenonT(40), <2>4, <2>5
  <1>6. CASE HandleDelayed
    <2>. DEFINE m == data[head_]
    <2>1. status = "idle" /\ Dequeue /\ head_ \in Controls /\ Serve(m)
      BY ZenonT(40), <1>6 DEF HandleDelayed, MayHandleNormal
    <2>2. Contents # << >> /\ head_ = Head(Contents) /\ Contents \in Seq(Messages)
      BY Zenon, <2>1, DequeueIs DEF PlaceInv, Ordered
    <2>3. head_ \in Range(Contents)
      BY <2>2 DEF Range
    <2>4. m \in RequestMessages
      BY Zenon, <2>1, <2>3 DEF PlaceInv, Ordered
    <2>5. m.request \in Requests
      BY Zenon, <2>4 DEF RequestMessages
    <2>. HIDE DEF m
    <2>. QED  BY Zenon, <2>1, <2>5, PromiseServes
  <1>7. CASE HandleEvent
    <2>1. /\ status = "idle" /\ paused_ = 0 /\ status' \in {"event", status}
          /\ UNCHANGED <<paused_, resume_capabilities, exit_listeners, error_listeners,
                         sticky_error, notified>>
      BY ZenonT(40), <1>7 DEF HandleEvent, MayHandleNormal, lists, outcome
    <2>2. UNCHANGED Phase
      BY Zenon, <2>1 DEF Phase
    <2>3. ListsInv'
      BY Zenon, <2>1, ViewUnchanged DEF ListsInv
    <2>. QED  BY ZenonT(40), <2>1, <2>2, <2>3, PromiseRuns
  <1>8. CASE EventEnds
    <2>1. /\ status = "event" /\ status' \in {"idle", "failed"}
          /\ sticky_error' \in {sticky_error, "none", "error"}
          /\ sticky_error' # sticky_error => status' = "failed"
          /\ UNCHANGED <<paused_, resume_capabilities, exit_listeners, error_listeners, notified>>
      BY ZenonT(40), <1>8 DEF EventEnds, EventReturns, EventThrows, lists, outcome
    <2>2. sticky_error = "none"
      BY Zenon, <2>1 DEF ListsInv
    <2>3. UNCHANGED Phase
      BY ZenonT(40), <2>1 DEF Phase
    <2>4. ListsInv'
      BY Zenon, <2>1, <2>2, ViewUnchanged DEF ListsInv
    <2>5. status' # "event" /\ UNCHANGED (sticky_error = "internal kill")
      BY ZenonT(40), <2>1, <2>2
    <2>. QED  BY ZenonT(40), <2>1, <2>3, <2>4, <2>5, PromiseRuns
  <1>9. CASE LowLevelShutdown
    <2>1. /\ status \in {"failed", "idle"} /\ status' = "dead"
          /\ notified' = IF ListenersAreTold THEN ExitMessages ELSE << >>
          /\ UNCHANGED <<paused_, resume_capabilities, exit_listeners, error_listeners, sticky_error>>
      BY ZenonT(40), <1>9 DEF LowLevelShutdown, HandlerStops, lists
    <2>2. ListsInv'
      BY Zenon, <2>1, ViewUnchanged DEF ListsInv
    <2>3. Phase = "started" /\ Phase' = "ended"
      BY ZenonT(40), <2>1 DEF Phase
    <2>4. /\ Held(resume_capabilities') = Held(resume_capabilities)
          /\ Held(error_listeners') = Held(error_listeners) /\ UNCHANGED ExitMessages
      BY ZenonT(40), <2>1, ViewUnchanged
    <2>5. CASE ListenersAreTold
      <3>1. Promise!Ends(ExitMessages)
        BY ZenonT(40), <2>1, <2>3, <2>4, <2>5 DEF Promise!Ends, Held, Phase
      <3>. QED  BY Zenon, <2>2, <3>1 DEF Promise!Next
    <2>6. CASE ~ListenersAreTold
      <3>1. Promise!Ends(<< >>)
        BY ZenonT(40), <2>1, <2>3, <2>4, <2>6 DEF Promise!Ends, ListenersAreTold, Held, Phase
      <3>. QED  BY Zenon, <2>2, <3>1 DEF Promise!Next
    <2>. QED  BY Zenon, <2>5, <2>6
  <1>10. CASE UNCHANGED allvars
    BY Zenon, <1>2, <1>10 DEF allvars, lists, outcome
  <1>. QED
    BY Zenon, <1>1, <1>3, <1>4, <1>5, <1>6, <1>7, <1>8, <1>9, <1>10 DEF ControlNext

LEMMA ListsStart ==
    ASSUME ControlInit
    PROVE  ListsInv /\ Promise!Init
  <1>1. /\ resume_capabilities = << >> /\ exit_listeners = << >> /\ error_listeners = << >>
        /\ paused_ = 0 /\ status = "starting" /\ sticky_error = "none" /\ notified = << >>
    BY Zenon DEF ControlInit
  <1>2. Held(<< >>) = {} /\ Taken(<< >>) = {} /\ DOMAIN << >> = {}
    BY DEF Held, Taken, Range
  <1>3. PauseInv
    BY <1>1, <1>2, FS_EmptySet DEF PauseInv, Unique
  <1>4. ErrorInv /\ ExitInv
    BY <1>1, <1>2 DEF ErrorInv, ExitInv, Unique, OnePerPort
  <1>5. ExitMessages = << >>
    <2>1. Tells(<< >>, ExitMessages)
      BY ZenonT(40), <1>1, <1>4, ExitMessagesTell
    <2>2. Tells(<< >>, << >>)
      BY <1>2 DEF Tells
    <2>. QED  BY Zenon, <2>1, <2>2, TellsIsOne
  <1>6. Phase = "new"
    BY Zenon, <1>1, PhaseIs
  <1>7. ListsInv
    BY Zenon, <1>1, <1>3, <1>4 DEF ListsInv
  <1>8. Promise!Init
    BY ZenonT(40), <1>1, <1>2, <1>5, <1>6 DEF Promise!Init, Held, Phase
  <1>. QED  BY ZenonT(40), <1>7, <1>8

(* The arrays of resume capabilities, exit and error listeners, with the   *)
(* gaps that removals leave, and the pause count keep what isolate.dart    *)
(* promises to those who control an isolate.  The proof needs that no      *)
(* capability and no port is entered twice, wherever the gaps are, and     *)
(* that only an isolate that has failed has a sticky error.                *)
THEOREM ControlKeepsItsPromise ==
    ControlSpec => ImplementsControl
  <1>1. ControlInit => PlaceInv /\ ListsInv /\ Promise!Init
    BY ZenonT(40), PlaceStarts, ListsStart
  <1>2. PlaceInv /\ ListsInv /\ [ControlNext]_allvars
           => PlaceInv' /\ ListsInv' /\ [Promise!Next]_(Promise!cvars)
    BY PlaceStep, PromiseStep
  <1>. QED  BY <1>1, <1>2, PTL DEF ControlSpec, ImplementsControl, Promise!Spec

===============================================================================
