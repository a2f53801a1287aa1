---------------------------- MODULE BufferLemmas ----------------------------
(***************************************************************************)
(* Facts about buffers (sequences) and intervals that the proofs share.    *)
(***************************************************************************)
EXTENDS Integers, Sequences, FiniteSets, FiniteSetTheorems, TLAPS

\* What push_front does to the positions of a buffer.
LEMMA PushFrontFacts ==
    ASSUME NEW S, NEW q \in Seq(S), NEW e \in S
    PROVE  /\ <<e>> \o q \in Seq(S)
           /\ \A i \in DOMAIN (<<e>> \o q) :
                 \/ i = 1 /\ (<<e>> \o q)[i] = e
                 \/ i - 1 \in DOMAIN q /\ (<<e>> \o q)[i] = q[i - 1]
  OBVIOUS

\* What push does to the positions of a buffer.
LEMMA PushFacts ==
    ASSUME NEW S, NEW q \in Seq(S), NEW e \in S
    PROVE  /\ Append(q, e) \in Seq(S)
           /\ \A i \in DOMAIN Append(q, e) :
                 \/ i \in DOMAIN q /\ Append(q, e)[i] = q[i]
                 \/ i = Len(q) + 1 /\ Append(q, e)[i] = e
  OBVIOUS

\* What pop does to the positions of a buffer.
LEMMA PopFacts ==
    ASSUME NEW S, NEW q \in Seq(S), q # <<>>
    PROVE  /\ Head(q) \in S /\ Tail(q) \in Seq(S)
           /\ 1 \in DOMAIN q /\ Head(q) = q[1]
           /\ \A i \in DOMAIN Tail(q) :
                 i + 1 \in DOMAIN q /\ Tail(q)[i] = q[i + 1]
  OBVIOUS

\* What concatenation does to the positions of a buffer.
LEMMA ConcatFacts ==
    ASSUME NEW S, NEW q \in Seq(S), NEW p \in Seq(S)
    PROVE  /\ q \o p \in Seq(S) /\ Len(q \o p) = Len(q) + Len(p)
           /\ \A i \in DOMAIN q : i \in DOMAIN (q \o p) /\ (q \o p)[i] = q[i]
           /\ \A i \in DOMAIN p : /\ Len(q) + i \in DOMAIN (q \o p)
                                 /\ (q \o p)[Len(q) + i] = p[i]
           /\ \A i \in DOMAIN (q \o p) :
                 \/ i \in DOMAIN q /\ (q \o p)[i] = q[i]
                 \/ i - Len(q) \in DOMAIN p /\ (q \o p)[i] = p[i - Len(q)]
  OBVIOUS

\* What pop_back does to the positions of a buffer.
LEMMA PopBackFacts ==
    ASSUME NEW S, NEW q \in Seq(S), q # <<>>
    PROVE  LET r == SubSeq(q, 1, Len(q) - 1)
           IN  /\ r \in Seq(S) /\ DOMAIN r = 1 .. (Len(q) - 1)
               /\ \A i \in DOMAIN r : r[i] = q[i]
               /\ Len(q) \in Nat \ {0} /\ DOMAIN q = 1 .. Len(q)
               /\ q[Len(q)] \in S
  OBVIOUS

\* A function on an initial interval is a buffer.
LEMMA FunctionIsBuffer ==
    ASSUME NEW S, NEW n \in Nat, NEW p \in [1 .. n -> S]
    PROVE  p \in Seq(S)
  OBVIOUS

\* The length of an interval.
LEMMA IntervalFacts ==
    ASSUME NEW n \in Nat
    PROVE  IsFiniteSet(1 .. n) /\ Cardinality(1 .. n) = n
  BY FS_Interval
=============================================================================
