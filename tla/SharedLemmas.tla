---------------------------- MODULE SharedLemmas ----------------------------
(***************************************************************************)
(* Facts about sequences and numbers that several of the proof modules     *)
(* need and the libraries do not state.                                    *)
(***************************************************************************)
EXTENDS Functions, SequenceTheorems, FiniteSetTheorems, TLAPS

-----------------------------------------------------------------------------
(* Numbers.                                                                *)

\* Every non-empty set of natural numbers has a least element.
LEMMA LeastNumber ==
  ASSUME NEW T \in SUBSET Nat, T # {}
  PROVE  \E m \in T : \A n \in T : m <= n
<1> DEFINE U == {0..n : n \in T}
           R == StrictSubsetOrdering(Nat)
<1>1. U \subseteq FiniteSubsetsOf(Nat)
  <2> SUFFICES ASSUME NEW n \in T PROVE 0..n \in FiniteSubsetsOf(Nat)
    OBVIOUS
  <2>1. IsFiniteSet(0..n)
    BY FS_Interval
  <2>2. QED
    BY <2>1 DEF FiniteSubsetsOf
<1>2. U # {}
  OBVIOUS
<1>3. IsWellFoundedOn(R, FiniteSubsetsOf(Nat))
  BY FS_StrictSubsetOrderingWellFounded
<1> HIDE DEF U, R
<1>4. \E x \in U : \A y \in U : ~ (<<y, x>> \in R)
  BY <1>1, <1>2, <1>3, WFMin
<1>5. PICK m \in T : \A n \in T : ~ (<<0..n, 0..m>> \in R)
  BY <1>4 DEF U
<1>6. ASSUME NEW n \in T PROVE m <= n
  <2>1. \A A, B \in SUBSET Nat : A \subseteq B /\ A # B => <<A, B>> \in R
    BY DEF R, StrictSubsetOrdering
  <2>2. 0..n \in SUBSET Nat /\ 0..m \in SUBSET Nat
    OBVIOUS
  <2>3. ~ (0..n \subseteq 0..m /\ 0..n # 0..m)
    BY <1>5, <2>1, <2>2, Zenon
  <2>4. n < m => 0..n \subseteq 0..m /\ m \in 0..m /\ m \notin 0..n
    OBVIOUS
  <2>5. QED
    BY <2>3, <2>4
<1>7. QED
  BY <1>6

-----------------------------------------------------------------------------
(* Queues: m_pendingFunctors, and the vector that doPendingFunctors swaps  *)
(* it into.  s \o t is what is left of the swapped vector s followed by    *)
(* what is pending in t.                                                   *)

\* Appending to a sequence adds one element to its range (push_back).
LEMMA RangeOfAppend ==
  ASSUME NEW S, NEW s \in Seq(S), NEW e \in S
  PROVE  Range(Append(s, e)) = Range(s) \cup {e}
<1>1. DOMAIN s = 1..Len(s) /\ Len(s) \in Nat
  BY LenProperties
<1>2. DOMAIN Append(s, e) = 1..(Len(s) + 1)
  BY AppendProperties, LenProperties
<1>3. \A i \in 1..Len(s) : Append(s, e)[i] = s[i]
  BY AppendProperties
<1>4. Append(s, e)[Len(s) + 1] = e
  BY AppendProperties
<1>5. 1..(Len(s) + 1) = (1..Len(s)) \cup {Len(s) + 1}
  BY <1>1
<1>6. QED
  BY <1>1, <1>2, <1>3, <1>4, <1>5 DEF Range

\* An empty queue has no elements.
LEMMA RangeOfEmpty == Range(<< >>) = {}
BY DEF Range

\* Appending to t appends to s \o t: a functor pushed to m_pendingFunctors comes
\* after everything swapped out before.
LEMMA ConcatAppend ==
  ASSUME NEW S, NEW s \in Seq(S), NEW t \in Seq(S), NEW e \in S
  PROVE  s \o Append(t, e) = Append(s \o t, e)
<1>1. <<e>> \in Seq(S) /\ s \o t \in Seq(S)
  BY ConcatProperties
<1>2. s \o (t \o <<e>>) = (s \o t) \o <<e>>
  BY <1>1, ConcatAssociative
<1>3. QED
  BY <1>1, <1>2, AppendIsConcat

\* Moving the head of t to the end of s changes nothing in s \o t.
LEMMA MoveHead ==
  ASSUME NEW S, NEW s \in Seq(S), NEW t \in Seq(S), t # << >>
  PROVE  Append(s, Head(t)) \o Tail(t) = s \o t
<1>1. Head(t) \in S /\ Tail(t) \in Seq(S) /\ <<Head(t)>> \in Seq(S)
  BY HeadTailProperties
<1>2. t = <<Head(t)>> \o Tail(t)
  <2>1. Len(<<Head(t)>> \o Tail(t)) = Len(t)
    BY <1>1, ConcatProperties, HeadTailProperties, LenProperties
  <2>2. \A i \in 1..Len(t) : (<<Head(t)>> \o Tail(t))[i] = t[i]
    BY <1>1, <2>1, ConcatProperties, HeadTailProperties, LenProperties
  <2>3. <<Head(t)>> \o Tail(t) \in Seq(S)
    BY <1>1, ConcatProperties
  <2>4. QED
    BY <2>1, <2>2, <2>3, SeqEqual
<1>3. Append(s, Head(t)) = s \o <<Head(t)>>
  BY <1>1, AppendIsConcat
<1>4. (s \o <<Head(t)>>) \o Tail(t) = s \o (<<Head(t)>> \o Tail(t))
  BY <1>1, ConcatAssociative
<1>5. QED
  BY <1>2, <1>3, <1>4

\* The abstract effect of a step of doPendingFunctors that takes the head of t.
LEMMA HeadTailOfConcat ==
  ASSUME NEW S, NEW t \in Seq(S), NEW u \in Seq(S), t # << >>
  PROVE  /\ t \o u # << >>
         /\ Head(t \o u) = Head(t)
         /\ Tail(t \o u) = Tail(t) \o u
<1>1. t \o u \in Seq(S) /\ t \o u # << >>
  BY ConcatProperties, ConcatEqualIffEmpty
<1>2. Len(t) \in Nat \ {0} /\ Len(u) \in Nat
  BY LenProperties, EmptySeq
<1>3. Tail(t) \in Seq(S) /\ Len(Tail(t)) = Len(t) - 1
  BY HeadTailProperties
<1>4. Head(t \o u) = Head(t)
  <2>1. (t \o u)[1] = t[1]
    BY <1>2, ConcatProperties
  <2>2. QED
    BY <2>1
<1>5. Tail(t \o u) = Tail(t) \o u
  <2>1. Tail(t \o u) \in Seq(S) /\ Tail(t) \o u \in Seq(S)
    BY <1>1, <1>3, ConcatProperties, HeadTailProperties
  <2>2. Len(Tail(t \o u)) = Len(Tail(t) \o u)
    BY <1>1, <1>2, <1>3, ConcatProperties, HeadTailProperties
  <2>3. ASSUME NEW i \in 1..Len(Tail(t \o u))
        PROVE  Tail(t \o u)[i] = (Tail(t) \o u)[i]
    <3>1. Len(Tail(t \o u)) = Len(t) + Len(u) - 1
      BY <1>1, <1>2, ConcatProperties, HeadTailProperties
    <3>2. Tail(t \o u)[i] = (t \o u)[i + 1]
      BY <1>1, HeadTailProperties
    <3>3. (t \o u)[i + 1] = IF i + 1 <= Len(t) THEN t[i + 1] ELSE u[i + 1 - Len(t)]
      BY <1>2, <3>1, ConcatProperties
    <3>4. (Tail(t) \o u)[i]
            = IF i <= Len(t) - 1 THEN Tail(t)[i] ELSE u[i - (Len(t) - 1)]
      BY <1>2, <1>3, <3>1, ConcatProperties
    <3>5. i <= Len(t) - 1 => Tail(t)[i] = t[i + 1]
      BY <1>2, <1>3, HeadTailProperties
    <3>6. QED
      BY <1>2, <3>1, <3>2, <3>3, <3>4, <3>5
  <2>4. QED
    BY <2>1, <2>2, <2>3, SeqEqual
<1>6. QED
  BY <1>1, <1>4, <1>5

\* What a non-empty queue holds is its head and what its tail holds.
LEMMA RangeOfTail ==
  ASSUME NEW S, NEW s \in Seq(S), s # << >>
  PROVE  Range(s) = {Head(s)} \cup Range(Tail(s))
<1>1. <<Head(s)>> \in Seq(S) /\ Tail(s) \in Seq(S)
  BY HeadTailProperties
<1>2. << >> \in Seq(S) /\ Append(<< >>, Head(s)) \o Tail(s) = << >> \o s
  BY EmptySeq, MoveHead
<1>3. << >> \o s = s /\ Append(<< >>, Head(s)) = <<Head(s)>>
  BY <1>1, ConcatEmptySeq, AppendIsConcat, EmptySeq
<1>4. s = <<Head(s)>> \o Tail(s)
  BY <1>2, <1>3
<1>5. Range(<<Head(s)>> \o Tail(s)) = Range(<<Head(s)>>) \cup Range(Tail(s))
  BY <1>1, RangeConcatenation
<1>6. Range(<<Head(s)>>) = {Head(s)}
  BY DEF Range
<1>7. Range(s) = Range(<<Head(s)>> \o Tail(s))
  BY <1>4, Zenon
<1>8. QED
  BY <1>5, <1>6, <1>7, Zenon

-----------------------------------------------------------------------------
(* Byte buffers.                                                           *)

\* The elements between two offsets of a vector.
LEMMA Between ==
  ASSUME NEW S, NEW b \in Seq(S), NEW p \in Nat, NEW q \in Nat, p <= q, q <= Len(b)
  PROVE  /\ SubSeq(b, p + 1, q) \in Seq(S)
         /\ Len(SubSeq(b, p + 1, q)) = q - p
         /\ \A i \in 1..(q - p) : SubSeq(b, p + 1, q)[i] = b[p + i]
  <1>1. Len(b) \in Nat /\ \A i \in (p + 1)..q : b[i] \in S
    BY LenProperties, ElementOfSeq
  <1>2. p + 1 \in Int /\ q \in Int
    OBVIOUS
  <1>3. /\ SubSeq(b, p + 1, q) \in Seq(S)
        /\ Len(SubSeq(b, p + 1, q)) = IF p + 1 <= q THEN q - (p + 1) + 1 ELSE 0
        /\ \A i \in 1..(q - (p + 1) + 1) : SubSeq(b, p + 1, q)[i] = b[(p + 1) + i - 1]
    BY <1>1, <1>2, SubSeqProperties
  <1>4. q - (p + 1) + 1 = q - p /\ \A i \in Nat : (p + 1) + i - 1 = p + i
    OBVIOUS
  <1> QED
    BY <1>3, <1>4
=============================================================================
