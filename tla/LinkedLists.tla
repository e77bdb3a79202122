------------------------------ MODULE LinkedLists ------------------------------
(***************************************************************************)
(* The VM's linked lists, as sequences: what its loops over them do.  The  *)
(* few operators are defined here because the modules that use them are    *)
(* also proved about: every step of a proof carries all the definitions    *)
(* its module extends, and SequencesExt brings a great many.               *)
(***************************************************************************)
EXTENDS Integers, Sequences, Functions

Cons(e, s) == <<e>> \o s

Contains(s, e) == e \in Range(s)

InsertAt(s, i, e) == Append(SubSeq(s, 1, i - 1), e) \o SubSeq(s, i, Len(s))

(* The cells a walk from head along the next pointers meets, up to null.   *)
Chain(cells, null, head, next) ==
    LET Walk[c \in cells \cup {null}] ==
            IF c = null THEN << >> ELSE Cons(c, Walk[next[c]]) IN
    Walk[head]

Reverse(s) == [i \in 1 .. Len(s) |-> s[Len(s) - i + 1]]

RemoveAt(s, i) == SubSeq(s, 1, i - 1) \o SubSeq(s, i + 1, Len(s))

(* The list without the first occurrence of e, if it has one.              *)
RemoveFirst(s, e) ==
    IF Contains(s, e)
    THEN RemoveAt(s, CHOOSE i \in DOMAIN s : s[i] = e /\ \A j \in 1 .. i - 1 : s[j] # e)
    ELSE s

===============================================================================
