---------------------------- MODULE BufferProofs ----------------------------
(***************************************************************************)
(* Proofs about module Buffer, for any sizes of the vector, of extrabuf    *)
(* and of the messages: the buffer is a FIFO, and it does not grow without *)
(* need.                                                                   *)
(***************************************************************************)
EXTENDS Buffer, SharedLemmas

-----------------------------------------------------------------------------
(* The operators that the model is built from.                             *)

(* The fresh bytes of an enlarged vector.                                  *)
LEMMA FreshBytes ==
  ASSUME NEW n \in Nat
  PROVE  Zeros(n) \in Seq(Bytes) /\ Len(Zeros(n)) = n
  <1>1. Zeros(n) \in [1..n -> Bytes]
    BY BufferAssumption DEF Zeros
  <1>2. Zeros(n) \in Seq(Bytes)
    BY <1>1, SeqDef
  <1>3. Len(Zeros(n)) \in Nat /\ DOMAIN Zeros(n) = 1..Len(Zeros(n)) /\ DOMAIN Zeros(n) = 1..n
    BY <1>1, <1>2, LenProperties
  <1>4. \A m \in Nat : 1..m = 1..n => m = n
    OBVIOUS
  <1>5. Len(Zeros(n)) = n
    BY <1>3, <1>4
  <1> QED
    BY <1>2, <1>5

(* A copy within the bounds of a vector keeps its length and changes the   *)
(* bytes copied to, no others.                                             *)
LEMMA CopyBytes ==
  ASSUME NEW b \in Seq(Bytes), NEW p \in Nat, NEW s \in Seq(Bytes), p + Len(s) <= Len(b)
  PROVE  /\ CopyTo(b, p, s) \in Seq(Bytes)
         /\ Len(CopyTo(b, p, s)) = Len(b)
         /\ \A i \in 1..Len(b) :
              CopyTo(b, p, s)[i] = IF i > p /\ i <= p + Len(s) THEN s[i - p] ELSE b[i]
  <1> DEFINE c == CopyTo(b, p, s)
  <1>1. Len(b) \in Nat /\ Len(s) \in Nat
    BY LenProperties
  <1>2. ASSUME NEW i \in 1..Len(b)
        PROVE  (IF i > p /\ i <= p + Len(s) THEN s[i - p] ELSE b[i]) \in Bytes
    <2>1. CASE i > p /\ i <= p + Len(s)
      <3>1. i - p \in 1..Len(s)
        BY <1>1, <2>1
      <3> QED
        BY <2>1, <3>1, ElementOfSeq
    <2>2. CASE ~ (i > p /\ i <= p + Len(s))
      BY <2>2, ElementOfSeq
    <2> QED
      BY <2>1, <2>2
  <1>3. c \in [1..Len(b) -> Bytes]
    BY <1>2 DEF CopyTo
  <1>4. c \in Seq(Bytes)
    BY <1>1, <1>3, SeqDef
  <1>5. Len(c) \in Nat /\ DOMAIN c = 1..Len(c) /\ DOMAIN c = 1..Len(b)
    BY <1>3, <1>4, LenProperties
  <1>6. Len(c) = Len(b)
    BY <1>1, <1>5
  <1> QED
    BY <1>4, <1>6 DEF CopyTo

(* Bytes copied to offset p follow the ones that lie before p.             *)
LEMMA CopyFollows ==
  ASSUME NEW b \in Seq(Bytes), NEW s \in Seq(Bytes), NEW q \in Nat, NEW p \in Nat,
         q <= p, p + Len(s) <= Len(b)
  PROVE  SubSeq(CopyTo(b, p, s), q + 1, p + Len(s)) = SubSeq(b, q + 1, p) \o s
  <1> DEFINE c == CopyTo(b, p, s)
             l == SubSeq(c, q + 1, p + Len(s))
             u == SubSeq(b, q + 1, p)
  <1>1. Len(b) \in Nat /\ Len(s) \in Nat /\ p + Len(s) \in Nat
    BY LenProperties
  <1>2. /\ c \in Seq(Bytes) /\ Len(c) = Len(b)
        /\ \A i \in 1..Len(b) : c[i] = IF i > p /\ i <= p + Len(s) THEN s[i - p] ELSE b[i]
    BY CopyBytes
  <1>3. /\ l \in Seq(Bytes) /\ Len(l) = (p + Len(s)) - q
        /\ \A i \in 1..((p + Len(s)) - q) : l[i] = c[q + i]
    <2> HIDE DEF c
    <2> QED
      BY <1>1, <1>2, Between
  <1>4. /\ u \in Seq(Bytes) /\ Len(u) = p - q
        /\ \A i \in 1..(p - q) : u[i] = b[q + i]
    BY <1>1, Between
  <1>5. /\ u \o s \in Seq(Bytes) /\ Len(u \o s) = (p - q) + Len(s)
        /\ \A i \in 1..((p - q) + Len(s)) :
             (u \o s)[i] = IF i <= p - q THEN u[i] ELSE s[i - (p - q)]
    <2> HIDE DEF u
    <2>1. /\ u \o s \in Seq(Bytes) /\ Len(u \o s) = Len(u) + Len(s)
          /\ \A i \in 1..(Len(u) + Len(s)) :
               (u \o s)[i] = IF i <= Len(u) THEN u[i] ELSE s[i - Len(u)]
      BY <1>4, ConcatProperties
    <2> QED
      BY <1>4, <2>1
  <1> HIDE DEF c, l, u
  <1>6. ASSUME NEW i \in 1..Len(l)
        PROVE  l[i] = (u \o s)[i]
    <2>1. i \in 1..((p - q) + Len(s)) /\ i \in 1..((p + Len(s)) - q) /\ q + i \in 1..Len(b)
      BY <1>1, <1>3
    <2>2. l[i] = IF q + i > p /\ q + i <= p + Len(s) THEN s[(q + i) - p] ELSE b[q + i]
      BY <1>2, <1>3, <2>1
    <2>3. CASE i <= p - q
      <3>1. ~ (q + i > p) /\ i \in 1..(p - q)
        BY <2>1, <2>3
      <3> QED
        BY <1>4, <1>5, <2>1, <2>2, <2>3, <3>1
    <2>4. CASE ~ (i <= p - q)
      <3>1. q + i > p /\ q + i <= p + Len(s) /\ (q + i) - p = i - (p - q)
        BY <1>1, <2>1, <2>4
      <3> QED
        BY <1>5, <2>1, <2>2, <2>4, <3>1
    <2> QED
      BY <2>3, <2>4
  <1>7. Len(l) = Len(u \o s)
    BY <1>1, <1>3, <1>5
  <1>8. l = u \o s
    BY <1>3, <1>5, <1>6, <1>7, SeqEqual
  <1> QED
    BY <1>8 DEF c, l, u

(* Enlarging a vector leaves the bytes it had where they were.             *)
LEMMA EnlargeKeeps ==
  ASSUME NEW b \in Seq(Bytes), NEW z \in Seq(Bytes), NEW p \in Nat, NEW q \in Nat,
         p <= q, q <= Len(b)
  PROVE  SubSeq(b \o z, p + 1, q) = SubSeq(b, p + 1, q)
  <1> DEFINE l == SubSeq(b \o z, p + 1, q)
             u == SubSeq(b, p + 1, q)
  <1>1. Len(b) \in Nat /\ Len(z) \in Nat
    BY LenProperties
  <1>2. /\ b \o z \in Seq(Bytes) /\ Len(b \o z) = Len(b) + Len(z)
        /\ \A i \in 1..(Len(b) + Len(z)) :
             (b \o z)[i] = IF i <= Len(b) THEN b[i] ELSE z[i - Len(b)]
    BY ConcatProperties
  <1>3. q <= Len(b \o z)
    BY <1>1, <1>2
  <1>4. l \in Seq(Bytes) /\ Len(l) = q - p /\ \A i \in 1..(q - p) : l[i] = (b \o z)[p + i]
    BY <1>2, <1>3, Between
  <1>5. u \in Seq(Bytes) /\ Len(u) = q - p /\ \A i \in 1..(q - p) : u[i] = b[p + i]
    BY Between
  <1> HIDE DEF l, u
  <1>6. ASSUME NEW i \in 1..(q - p)
        PROVE  l[i] = u[i]
    <2>1. p + i \in 1..(Len(b) + Len(z)) /\ p + i <= Len(b)
      BY <1>1
    <2> QED
      BY <1>2, <1>4, <1>5, <2>1
  <1>7. l = u
    BY <1>4, <1>5, <1>6, SeqEqual
  <1> QED
    BY <1>7 DEF l, u

-----------------------------------------------------------------------------
(* Appending.                                                              *)

\* b is a vector of bytes, and r and w are possible reader and writer indices.
WellFormed(b, r, w) ==
  /\ b \in Seq(Bytes)
  /\ r \in Nat /\ w \in Nat
  /\ CheapPrepend <= r /\ r <= w /\ w <= Len(b)

\* n is a vector with indices in which s follows what was readable in b, and that
\* is only longer than b if the free bytes on both sides were too few.
Follows(b, r, w, s, n) ==
  /\ WellFormed(n[1], n[2], n[3])
  /\ SubSeq(n[1], n[2] + 1, n[3]) = SubSeq(b, r + 1, w) \o s
  /\ n[3] - n[2] = (w - r) + Len(s)
  /\ \/ Len(n[1]) = Len(b)
     \/ /\ Len(n[1]) = w + Len(s)
        /\ (Len(b) - w) + r < Len(s) + CheapPrepend

(* Whether the bytes fit, the readable ones are moved to the front or the  *)
(* vector is enlarged: append puts s behind the readable bytes, and only   *)
(* enlarges the vector if the free bytes on both sides are too few.        *)
LEMMA AppendIsConcatenation ==
  ASSUME NEW b, NEW r, NEW w, WellFormed(b, r, w), NEW s \in Seq(Bytes),
         NEW n, n = Appended(b, r, w, s)
  PROVE  Follows(b, r, w, s, n)
  <1> DEFINE Space(c, q, p) ==
               /\ WellFormed(c, q, p)
               /\ SubSeq(c, q + 1, p) = SubSeq(b, r + 1, w)
               /\ p - q = w - r
               /\ p + Len(s) <= Len(c)
               /\ \/ Len(c) = Len(b)
                  \/ /\ Len(c) = w + Len(s)
                     /\ (Len(b) - w) + r < Len(s) + CheapPrepend
  <1>1. /\ b \in Seq(Bytes) /\ r \in Nat /\ w \in Nat /\ Len(b) \in Nat /\ Len(s) \in Nat
        /\ CheapPrepend \in Nat /\ CheapPrepend <= r /\ r <= w /\ w <= Len(b)
    BY BufferAssumption, LenProperties DEF WellFormed
  <1>2. \E c, q, p : Space(c, q, p) /\ n = <<CopyTo(c, p, s), q, p + Len(s)>>
    <2>1. CASE Len(s) <= Len(b) - w
      <3>1. n = <<CopyTo(b, w, s), r, w + Len(s)>>
        BY <2>1 DEF Appended
      <3>2. Space(b, r, w)
        BY <1>1, <2>1
      <3> QED
        BY <3>1, <3>2
    <2>2. CASE /\ ~ (Len(s) <= Len(b) - w)
               /\ (Len(b) - w) + r < Len(s) + CheapPrepend
      <3> DEFINE z == Zeros(w + Len(s) - Len(b))
      <3>1. n = <<CopyTo(b \o z, w, s), r, w + Len(s)>>
        BY <2>2 DEF Appended
      <3>2. w + Len(s) - Len(b) \in Nat
        BY <1>1, <2>2
      <3>3. z \in Seq(Bytes) /\ Len(z) = w + Len(s) - Len(b)
        BY <3>2, FreshBytes
      <3> HIDE DEF z
      <3>4. b \o z \in Seq(Bytes) /\ Len(b \o z) = Len(b) + Len(z)
        BY <1>1, <3>3, ConcatProperties
      <3>5. SubSeq(b \o z, r + 1, w) = SubSeq(b, r + 1, w)
        BY <1>1, <3>3, EnlargeKeeps
      <3>6. Len(b \o z) = w + Len(s) /\ w <= Len(b \o z)
        BY <1>1, <3>3, <3>4
      <3>7. WellFormed(b \o z, r, w)
        BY <1>1, <3>4, <3>6 DEF WellFormed
      <3>8. Space(b \o z, r, w)
        BY <1>1, <2>2, <3>5, <3>6, <3>7
      <3> QED
        BY <3>1, <3>8
    <2>3. CASE /\ ~ (Len(s) <= Len(b) - w)
               /\ ~ ((Len(b) - w) + r < Len(s) + CheapPrepend)
      <3> DEFINE t == SubSeq(b, r + 1, w)
                 c == CopyTo(b, CheapPrepend, t)
                 p == CheapPrepend + (w - r)
      <3>1. n = <<CopyTo(c, p, s), CheapPrepend, p + Len(s)>>
        BY <2>3 DEF Appended
      <3>2. t \in Seq(Bytes) /\ Len(t) = w - r
        BY <1>1, Between
      <3> HIDE DEF t
      <3>3. p \in Nat /\ p + Len(s) <= Len(b) /\ CheapPrepend <= p
            /\ p - CheapPrepend = w - r /\ p = CheapPrepend + Len(t)
        BY <1>1, <2>3, <3>2
      <3>4. CheapPrepend + Len(t) <= Len(b)
        BY <1>1, <3>3
      <3>5. c \in Seq(Bytes) /\ Len(c) = Len(b)
        BY <1>1, <3>2, <3>4, CopyBytes
      <3>6. SubSeq(c, CheapPrepend + 1, CheapPrepend + Len(t))
              = SubSeq(b, CheapPrepend + 1, CheapPrepend) \o t
        <4>1. /\ b \in Seq(Bytes) /\ t \in Seq(Bytes) /\ CheapPrepend \in Nat
              /\ CheapPrepend <= CheapPrepend /\ CheapPrepend + Len(t) <= Len(b)
          BY <1>1, <3>2, <3>4
        <4> QED
          BY <4>1, CopyFollows, Zenon
      <3>7. SubSeq(b, CheapPrepend + 1, CheapPrepend) = << >>
        BY <1>1, SubSeqEmpty
      <3>8. << >> \o t = t
        BY <3>2, ConcatEmptySeq
      <3>9. SubSeq(c, CheapPrepend + 1, p) = t
        BY <3>3, <3>6, <3>7, <3>8
      <3> HIDE DEF c, p
      <3>10. WellFormed(c, CheapPrepend, p)
        BY <1>1, <3>3, <3>5 DEF WellFormed
      <3>11. Space(c, CheapPrepend, p)
        BY <1>1, <3>3, <3>5, <3>9, <3>10 DEF t
      <3> QED
        BY <3>1, <3>11
    <2> QED
      BY <2>1, <2>2, <2>3
  <1>3. PICK c, q, p : Space(c, q, p) /\ n = <<CopyTo(c, p, s), q, p + Len(s)>>
    BY <1>2
  <1>4. /\ c \in Seq(Bytes) /\ q \in Nat /\ p \in Nat /\ CheapPrepend <= q /\ q <= p
        /\ p + Len(s) <= Len(c)
    BY <1>3 DEF WellFormed
  <1>5. n[1] = CopyTo(c, p, s) /\ n[2] = q /\ n[3] = p + Len(s)
    BY <1>3
  <1>6. n[1] \in Seq(Bytes) /\ Len(n[1]) = Len(c)
    BY <1>4, <1>5, CopyBytes
  <1>7. SubSeq(n[1], n[2] + 1, n[3]) = SubSeq(c, q + 1, p) \o s
    <2>1. SubSeq(CopyTo(c, p, s), q + 1, p + Len(s)) = SubSeq(c, q + 1, p) \o s
      BY <1>4, CopyFollows, Zenon
    <2> QED
      BY <1>5, <2>1
  <1>8. WellFormed(n[1], n[2], n[3]) /\ n[3] - n[2] = (w - r) + Len(s)
    BY <1>1, <1>3, <1>4, <1>5, <1>6 DEF WellFormed
  <1> QED
    BY <1>3, <1>6, <1>7, <1>8 DEF Follows

(* Receiving through the vector and extrabuf is one append of all that was *)
(* received.                                                               *)
LEMMA ReceiveIsConcatenation ==
  ASSUME WellFormed(buffer, readerIndex, writerIndex), NEW s \in Seq(Bytes),
         NEW n, n = Received(s)
  PROVE  /\ WellFormed(n[1], n[2], n[3])
         /\ SubSeq(n[1], n[2] + 1, n[3]) = Peek \o s
         /\ n[3] - n[2] = ReadableBytes + Len(s)
         /\ \/ Len(n[1]) = Len(buffer)
            \/ /\ Len(n[1]) = writerIndex + Len(s)
               /\ readerIndex < Len(s) + CheapPrepend
  <1> DEFINE b == buffer
             r == readerIndex
             w == writerIndex
             k == Len(buffer) - writerIndex
  <1>1. /\ b \in Seq(Bytes) /\ r \in Nat /\ w \in Nat /\ Len(b) \in Nat /\ Len(s) \in Nat
        /\ CheapPrepend \in Nat /\ CheapPrepend <= r /\ r <= w /\ w <= Len(b)
        /\ k \in Nat /\ w + k = Len(b)
    BY BufferAssumption, LenProperties DEF WellFormed
  <1>2. CASE Len(s) <= k
    <2>1. n = <<CopyTo(b, w, s), r, w + Len(s)>>
      BY <1>2 DEF Received, WritableBytes
    <2>2. n[1] = CopyTo(b, w, s) /\ n[2] = r /\ n[3] = w + Len(s)
      BY <2>1
    <2>3. w + Len(s) <= Len(b)
      BY <1>1, <1>2
    <2>4. CopyTo(b, w, s) \in Seq(Bytes) /\ Len(CopyTo(b, w, s)) = Len(b)
      BY <1>1, <2>3, CopyBytes
    <2>5. SubSeq(CopyTo(b, w, s), r + 1, w + Len(s)) = SubSeq(b, r + 1, w) \o s
      <3>1. /\ b \in Seq(Bytes) /\ r \in Nat /\ w \in Nat
            /\ r <= w /\ w + Len(s) <= Len(b)
        BY <1>1, <2>3
      <3> QED
        BY <3>1, CopyFollows, Zenon
    <2>6. WellFormed(n[1], n[2], n[3]) /\ n[3] - n[2] = (w - r) + Len(s)
      BY <1>1, <2>2, <2>3, <2>4 DEF WellFormed
    <2> QED
      BY <2>2, <2>4, <2>5, <2>6 DEF Peek, ReadableBytes
  <1>3. CASE ~ (Len(s) <= k)
    <2>1. PICK s1, s2, c : /\ s1 = SubSeq(s, 1, k)
                           /\ s2 = SubSeq(s, k + 1, Len(s))
                           /\ c = CopyTo(b, w, s1)
      OBVIOUS
    <2>2. n = Appended(c, r, Len(b), s2)
      BY <1>3, <2>1 DEF Received, WritableBytes
    <2>3. /\ s1 \in Seq(Bytes) /\ Len(s1) = k
          /\ s2 \in Seq(Bytes) /\ Len(s2) = Len(s) - k
      <3>1. 0 <= k /\ k <= Len(s) /\ 0 + 1 = 1 /\ k - 0 = k /\ 0 \in Nat /\ Len(s) <= Len(s)
        BY <1>1, <1>3
      <3>2. SubSeq(s, 0 + 1, k) \in Seq(Bytes) /\ Len(SubSeq(s, 0 + 1, k)) = k - 0
        <4>1. 0 \in Nat /\ k \in Nat /\ 0 <= k /\ k <= Len(s)
          BY <1>1, <3>1
        <4> QED
          BY <4>1, Between, Zenon
      <3>3. /\ SubSeq(s, k + 1, Len(s)) \in Seq(Bytes)
            /\ Len(SubSeq(s, k + 1, Len(s))) = Len(s) - k
        BY <1>1, <3>1, Between
      <3> QED
        BY <2>1, <3>1, <3>2, <3>3
    <2>4. s1 \o s2 = s
      <3>1. 1 \in 1..(Len(s) + 1) /\ k \in (1 - 1)..Len(s) /\ Len(s) \in k..Len(s)
        BY <1>1, <1>3
      <3>2. SubSeq(s, 1, k) \o SubSeq(s, k + 1, Len(s)) = SubSeq(s, 1, Len(s))
        BY <3>1, ConcatAdjacentSubSeq
      <3> QED
        BY <2>1, <3>2, SubSeqFull
    <2>5. w + Len(s1) = Len(b) /\ w + Len(s1) <= Len(b)
      BY <1>1, <2>3
    <2>6. c \in Seq(Bytes) /\ Len(c) = Len(b)
      BY <1>1, <2>1, <2>3, <2>5, CopyBytes
    <2>7. SubSeq(c, r + 1, Len(b)) = Peek \o s1
      <3>1. SubSeq(CopyTo(b, w, s1), r + 1, w + Len(s1)) = SubSeq(b, r + 1, w) \o s1
        <4>1. /\ b \in Seq(Bytes) /\ s1 \in Seq(Bytes) /\ r \in Nat /\ w \in Nat
              /\ r <= w /\ w + Len(s1) <= Len(b)
          BY <1>1, <2>3, <2>5
        <4> QED
          BY <4>1, CopyFollows, Zenon
      <3> QED
        BY <2>1, <2>5, <3>1 DEF Peek
    <2>8. WellFormed(c, r, Len(b))
      BY <1>1, <2>6 DEF WellFormed
    <2>9. /\ WellFormed(n[1], n[2], n[3])
          /\ SubSeq(n[1], n[2] + 1, n[3]) = SubSeq(c, r + 1, Len(b)) \o s2
          /\ n[3] - n[2] = (Len(b) - r) + Len(s2)
          /\ \/ Len(n[1]) = Len(c)
             \/ /\ Len(n[1]) = Len(b) + Len(s2)
                /\ (Len(c) - Len(b)) + r < Len(s2) + CheapPrepend
      <3>1. PICK q : q = Len(b)
        OBVIOUS
      <3>2. WellFormed(c, r, q) /\ s2 \in Seq(Bytes) /\ n = Appended(c, r, q, s2)
        BY <2>2, <2>3, <2>8, <3>1
      <3>3. Follows(c, r, q, s2, n)
        BY <3>2, AppendIsConcatenation, Zenon
      <3> QED
        BY <3>1, <3>3 DEF Follows
    <2>10. (Peek \o s1) \o s2 = Peek \o s
      <3>1. Peek \in Seq(Bytes)
        BY <1>1, Between DEF Peek
      <3>2. s1 \in Seq(Bytes) /\ s2 \in Seq(Bytes)
        BY <2>3
      <3>3. ASSUME NEW v \in Seq(Bytes)
            PROVE  (v \o s1) \o s2 = v \o (s1 \o s2)
        BY <3>2, <3>3, ConcatAssociative
      <3> QED
        BY <2>4, <3>1, <3>3, Zenon
    <2>11. n[3] - n[2] = ReadableBytes + Len(s)
      BY <1>1, <2>3, <2>9 DEF ReadableBytes
    <2>12. \/ Len(n[1]) = Len(b)
           \/ Len(n[1]) = w + Len(s) /\ r < Len(s) + CheapPrepend
      BY <1>1, <2>3, <2>6, <2>9
    <2> QED
      BY <2>7, <2>9, <2>10, <2>11, <2>12
  <1> QED
    BY <1>2, <1>3

-----------------------------------------------------------------------------
(* The inductive invariant.                                                *)

BufferInv ==
  /\ TypeOK
  /\ ReadableBytes <= MaxContent
  /\ SizeBounded

(* The invariant in the terms of the lemmas above.                         *)
LEMMA IndicesInOrder ==
  ASSUME BufferInv
  PROVE  /\ WellFormed(buffer, readerIndex, writerIndex)
         /\ Peek \in Seq(Bytes)
         /\ Len(Peek) = ReadableBytes
         /\ ReadableBytes \in Nat
  <1>1. /\ WellFormed(buffer, readerIndex, writerIndex)
        /\ readerIndex \in Nat /\ writerIndex \in Nat /\ buffer \in Seq(Bytes)
        /\ readerIndex <= writerIndex /\ writerIndex <= Len(buffer)
    BY DEF BufferInv, TypeOK, WellFormed
  <1>2. Peek \in Seq(Bytes) /\ Len(Peek) = writerIndex - readerIndex
    BY <1>1, Between DEF Peek
  <1> QED
    BY <1>1, <1>2 DEF ReadableBytes

(* What may be written or received are sequences of bytes.                 *)
LEMMA InputsAreBytes == Inputs \subseteq Seq(Bytes)
  <1>1. MaxLen \in Nat
    BY BufferAssumption
  <1>2. ASSUME NEW s \in Inputs
        PROVE  s \in Seq(Bytes)
    <2>1. PICK n \in 1..MaxLen : s \in [1..n -> Bytes]
      BY <1>2 DEF Inputs
    <2>2. n \in Nat
      BY <1>1
    <2> QED
      BY <2>1, <2>2, SeqDef
  <1> QED
    BY <1>2

(* The initial state is an empty buffer.                                   *)
LEMMA BufferInvInit == Init => BufferInv
  <1> SUFFICES ASSUME Init
               PROVE  BufferInv
    OBVIOUS
  <1>1. CheapPrepend \in Nat /\ InitialSize \in Nat /\ MaxContent \in Nat
    BY BufferAssumption
  <1>2. buffer \in Seq(Bytes) /\ Len(buffer) = CheapPrepend + InitialSize
    BY <1>1, FreshBytes DEF Init
  <1>3. << >> \in Seq(Bytes)
    BY EmptySeq
  <1>4. last \in {"none", "put", "recv", "get", "sent"} \X Seq(Bytes)
    BY <1>3 DEF Init
  <1>5. TypeOK
    BY <1>1, <1>2, <1>4 DEF Init, TypeOK
  <1>6. ReadableBytes <= MaxContent
    BY <1>1 DEF Init, ReadableBytes
  <1> QED
    BY <1>1, <1>2, <1>5, <1>6 DEF BufferInv, SizeBounded

(* What append and readFd have in common: the buffer becomes n, in which s *)
(* follows the readable bytes, and which is longer than before only if the *)
(* bytes before the readable ones were too few for s.                      *)
Takes(s, n) ==
  /\ ReadableBytes + Len(s) <= MaxContent
  /\ Become(n)
  /\ last' \in {<<"put", s>>, <<"recv", s>>}
  /\ WellFormed(n[1], n[2], n[3])
  /\ SubSeq(n[1], n[2] + 1, n[3]) = Peek \o s
  /\ n[3] - n[2] = ReadableBytes + Len(s)
  /\ \/ Len(n[1]) = Len(buffer)
     \/ /\ Len(n[1]) = writerIndex + Len(s)
        /\ readerIndex < Len(s) + CheapPrepend

(* append, and readFd with or without extrabuf, both do that.              *)
LEMMA AppendOrReceive ==
  ASSUME BufferInv, NEW s \in Inputs, AppendBytes(s) \/ ReadFd(s)
  PROVE  \E n : Takes(s, n)
  <1>1. s \in Seq(Bytes)
    BY InputsAreBytes
  <1>2. WellFormed(buffer, readerIndex, writerIndex)
    BY IndicesInOrder
  <1>3. CASE AppendBytes(s)
    <2>1. PICK n : n = Appended(buffer, readerIndex, writerIndex, s)
      OBVIOUS
    <2>2. /\ ReadableBytes + Len(s) <= MaxContent
          /\ Become(n)
          /\ last' = <<"put", s>>
      BY <1>3, <2>1 DEF AppendBytes
    <2>3. /\ WellFormed(n[1], n[2], n[3])
          /\ SubSeq(n[1], n[2] + 1, n[3]) = SubSeq(buffer, readerIndex + 1, writerIndex) \o s
          /\ n[3] - n[2] = (writerIndex - readerIndex) + Len(s)
          /\ \/ Len(n[1]) = Len(buffer)
             \/ /\ Len(n[1]) = writerIndex + Len(s)
                /\ (Len(buffer) - writerIndex) + readerIndex < Len(s) + CheapPrepend
      <3>1. Follows(buffer, readerIndex, writerIndex, s, n)
        BY <1>1, <1>2, <2>1, AppendIsConcatenation, Zenon
      <3> QED
        BY <3>1 DEF Follows
    <2>4. (Len(buffer) - writerIndex) + readerIndex < Len(s) + CheapPrepend
            => readerIndex < Len(s) + CheapPrepend
      <3>1. Len(buffer) \in Nat /\ Len(s) \in Nat /\ CheapPrepend \in Nat
        BY <1>1, <1>2, LenProperties, BufferAssumption DEF WellFormed
      <3> QED
        BY <1>2, <3>1 DEF WellFormed
    <2>5. Takes(s, n)
      BY <2>2, <2>3, <2>4 DEF Takes, Peek, ReadableBytes
    <2> QED
      BY <2>5
  <1>4. CASE ReadFd(s)
    <2>1. PICK n : n = Received(s)
      OBVIOUS
    <2>2. /\ ReadableBytes + Len(s) <= MaxContent
          /\ Become(n)
          /\ last' = <<"recv", s>>
      BY <1>4, <2>1 DEF ReadFd
    <2>3. Takes(s, n)
      BY <1>1, <1>2, <2>1, <2>2, ReceiveIsConcatenation DEF Takes
    <2> QED
      BY <2>3
  <1> QED
    BY <1>3, <1>4

(* Taking bytes preserves the invariant.  An enlarged vector ends with s;  *)
(* the bytes before the readable ones are fewer than s and the reserved    *)
(* space, so that it is not longer than the reserved space, s again and    *)
(* the readable bytes.                                                     *)
LEMMA TakesStep ==
  ASSUME BufferInv, NEW s \in Seq(Bytes), NEW n, Takes(s, n)
  PROVE  BufferInv'
  <1>1. /\ buffer' = n[1] /\ readerIndex' = n[2] /\ writerIndex' = n[3]
        /\ n[1] \in Seq(Bytes) /\ n[2] \in Nat /\ n[3] \in Nat
        /\ CheapPrepend <= n[2] /\ n[2] <= n[3] /\ n[3] <= Len(n[1])
        /\ n[3] - n[2] = ReadableBytes + Len(s)
        /\ ReadableBytes + Len(s) <= MaxContent
    BY DEF Takes, Become, WellFormed
  <1>2. /\ readerIndex \in Nat /\ writerIndex \in Nat /\ Len(buffer) \in Nat
        /\ Len(s) \in Nat /\ CheapPrepend \in Nat /\ MaxContent \in Nat /\ InitialSize \in Nat
        /\ readerIndex <= writerIndex
    BY BufferAssumption, LenProperties DEF BufferInv, TypeOK
  <1>3. last' \in {"none", "put", "recv", "get", "sent"} \X Seq(Bytes)
    BY DEF Takes
  <1>4. TypeOK'
    BY <1>1, <1>3 DEF TypeOK
  <1>5. (ReadableBytes <= MaxContent)'
    BY <1>1 DEF ReadableBytes
  <1>6. SizeBounded'
    <2>1. CASE Len(n[1]) = Len(buffer)
      BY <1>1, <2>1 DEF BufferInv, SizeBounded
    <2>2. CASE Len(n[1]) = writerIndex + Len(s) /\ readerIndex < Len(s) + CheapPrepend
      <3>1. (writerIndex - readerIndex) + Len(s) <= MaxContent
        BY <1>1 DEF ReadableBytes
      <3>2. writerIndex + Len(s) <= CheapPrepend + 2 * MaxContent
        BY <1>2, <2>2, <3>1
      <3> QED
        BY <1>1, <2>2, <3>2 DEF SizeBounded
    <2> QED
      BY <2>1, <2>2 DEF Takes
  <1> QED
    BY <1>4, <1>5, <1>6 DEF BufferInv

(* Retrieving leaves the vector alone, and the indices in order.           *)
LEMMA RetrieveStep ==
  ASSUME BufferInv, NEW len \in Nat, RetrieveAsString(len)
  PROVE  BufferInv'
  <1>1. /\ readerIndex \in Nat /\ writerIndex \in Nat /\ Len(buffer) \in Nat
        /\ buffer \in Seq(Bytes) /\ CheapPrepend \in Nat /\ MaxContent \in Nat
        /\ CheapPrepend <= readerIndex /\ readerIndex <= writerIndex
        /\ writerIndex <= Len(buffer) /\ writerIndex - readerIndex <= MaxContent
    BY BufferAssumption, LenProperties DEF BufferInv, TypeOK, ReadableBytes
  <1>2. /\ buffer' = buffer /\ len <= writerIndex - readerIndex
        /\ \/ /\ len < writerIndex - readerIndex
              /\ readerIndex' = readerIndex + len /\ writerIndex' = writerIndex
           \/ readerIndex' = CheapPrepend /\ writerIndex' = CheapPrepend
    BY DEF RetrieveAsString, Retrieve, ReadableBytes
  <1>3. /\ readerIndex' \in Nat /\ writerIndex' \in Nat
        /\ CheapPrepend <= readerIndex' /\ readerIndex' <= writerIndex'
        /\ writerIndex' <= Len(buffer') /\ writerIndex' - readerIndex' <= MaxContent
    BY <1>1, <1>2
  <1>4. last' \in {"none", "put", "recv", "get", "sent"} \X Seq(Bytes)
    <2>1. Peek \in Seq(Bytes) /\ Len(Peek) = ReadableBytes /\ ReadableBytes \in Nat
      BY IndicesInOrder
    <2>2. len <= Len(Peek)
      BY <2>1 DEF RetrieveAsString
    <2>3. SubSeq(Peek, 1, len) \in Seq(Bytes)
      <3>1. \A i \in 1..len : Peek[i] \in Bytes
        BY <2>1, <2>2, ElementOfSeq
      <3> QED
        BY <3>1, SubSeqProperties
    <2> QED
      BY <2>3 DEF RetrieveAsString
  <1>5. TypeOK'
    BY <1>1, <1>2, <1>3, <1>4 DEF TypeOK
  <1>6. SizeBounded' /\ (ReadableBytes <= MaxContent)'
    BY <1>2, <1>3 DEF BufferInv, SizeBounded, ReadableBytes
  <1> QED
    BY <1>5, <1>6 DEF BufferInv

(* writeFd changes neither the vector nor the indices.                     *)
LEMMA WriteFdStep ==
  ASSUME BufferInv, NEW n \in Nat, WriteFd(n)
  PROVE  BufferInv'
  <1>1. Peek \in Seq(Bytes) /\ Len(Peek) = ReadableBytes /\ ReadableBytes \in Nat
    BY IndicesInOrder
  <1>2. SubSeq(Peek, 1, n) \in Seq(Bytes)
    <2>1. \A i \in 1..n : Peek[i] \in Bytes
      BY <1>1, ElementOfSeq DEF WriteFd
    <2> QED
      BY <2>1, SubSeqProperties
  <1>3. last' \in {"none", "put", "recv", "get", "sent"} \X Seq(Bytes)
    BY <1>2 DEF WriteFd
  <1> QED
    BY <1>3 DEF WriteFd, BufferInv, TypeOK, SizeBounded, ReadableBytes

(* Every step preserves the invariant.                                     *)
LEMMA BufferInvStep == BufferInv /\ [Next]_vars => BufferInv'
  <1> SUFFICES ASSUME BufferInv, [Next]_vars
               PROVE  BufferInv'
    OBVIOUS
  <1>1. ASSUME NEW s \in Inputs, AppendBytes(s) \/ ReadFd(s)
        PROVE  BufferInv'
    <2>1. PICK n : Takes(s, n)
      BY <1>1, AppendOrReceive
    <2>2. s \in Seq(Bytes)
      BY <1>1, InputsAreBytes
    <2> QED
      BY <2>1, <2>2, TakesStep
  <1>2. ASSUME NEW len \in 0..MaxLen, RetrieveAsString(len)
        PROVE  BufferInv'
    <2>1. len \in Nat
      BY <1>2, BufferAssumption
    <2> QED
      BY <1>2, <2>1, RetrieveStep
  <1>3. ASSUME NEW n \in 0..MaxContent, WriteFd(n)
        PROVE  BufferInv'
    <2>1. n \in Nat
      BY <1>3, BufferAssumption
    <2> QED
      BY <1>3, <2>1, WriteFdStep
  <1>4. CASE UNCHANGED vars
    BY <1>4 DEF vars, BufferInv, TypeOK, SizeBounded, ReadableBytes
  <1> QED
    BY <1>1, <1>2, <1>3, <1>4 DEF Next

(* The invariant holds in every reachable state.                           *)
LEMMA BufferInvariant == Spec => []BufferInv
  BY BufferInvInit, BufferInvStep, PTL DEF Spec

-----------------------------------------------------------------------------
(* Results.                                                                *)

(* Whatever is written, received and retrieved, the indices stay in order  *)
(* within the vector and behind the reserved space.                        *)
THEOREM BufferTypesCorrect == Spec => []TypeOK
  <1>1. BufferInv => TypeOK
    BY DEF BufferInv
  <1> QED
    BY <1>1, BufferInvariant, PTL

(* The vector is never longer than the reserved space and twice the most   *)
(* bytes it has to hold, unless it was made longer: makeSpace enlarges it  *)
(* only when moving the readable bytes would not do.                       *)
THEOREM VectorBounded == Spec => []SizeBounded
  <1>1. BufferInv => SizeBounded
    BY DEF BufferInv
  <1> QED
    BY <1>1, BufferInvariant, PTL

(* An empty buffer is an empty FIFO.                                       *)
LEMMA FifoInit == Init => Fifo!Init
  <1> SUFFICES ASSUME Init
               PROVE  Fifo!Init
    OBVIOUS
  <1>1. CheapPrepend \in Nat /\ MaxContent \in Nat
    BY BufferAssumption
  <1>2. Peek = << >>
    <2>1. CheapPrepend < CheapPrepend + 1 /\ CheapPrepend + 1 \in Int /\ CheapPrepend \in Int
      BY <1>1
    <2>2. SubSeq(buffer, CheapPrepend + 1, CheapPrepend) = << >>
      BY <2>1, SubSeqEmpty
    <2> QED
      BY <2>2 DEF Init, Peek
  <1> QED
    BY <1>1, <1>2 DEF Init, Fifo!Init

(* Every step of the buffer is a step of the FIFO of its readable bytes.   *)
LEMMA FifoStep == BufferInv /\ [Next]_vars => [Fifo!Next]_(Fifo!vars)
  <1> SUFFICES ASSUME BufferInv, [Next]_vars
               PROVE  [Fifo!Next]_(Fifo!vars)
    OBVIOUS
  <1>1. /\ Peek \in Seq(Bytes) /\ Len(Peek) = ReadableBytes /\ ReadableBytes \in Nat
        /\ MaxContent \in Nat /\ MaxLen \in Nat /\ CheapPrepend \in Nat
    BY IndicesInOrder, BufferAssumption
  <1>2. ASSUME NEW s \in Inputs, AppendBytes(s) \/ ReadFd(s)
        PROVE  Fifo!Next
    <2>1. PICK n : Takes(s, n)
      BY <1>2, AppendOrReceive
    <2>2. s \in Seq(Bytes) /\ Len(s) \in Nat
      BY <1>2, InputsAreBytes, LenProperties
    <2>3. Peek' = Peek \o s
      BY <2>1 DEF Takes, Become, Peek
    <2>4. Fifo!AtMost(Len(s), MaxContent - Len(Peek)) = Len(s)
      BY <1>1, <2>1, <2>2 DEF Takes, Fifo!AtMost
    <2>5. SubSeq(s, 1, Len(s)) = s
      BY <2>2, SubSeqFull
    <2>6. Fifo!Put(s)
      BY <2>1, <2>3, <2>4, <2>5 DEF Fifo!Put, Takes
    <2> QED
      BY <1>2, <2>6 DEF Fifo!Next
  <1>3. ASSUME NEW len \in 0..MaxLen, RetrieveAsString(len)
        PROVE  Fifo!Next
    <2>1. len \in Nat /\ len <= ReadableBytes
      BY <1>1, <1>3 DEF RetrieveAsString
    <2>2. Fifo!AtMost(len, Len(Peek)) = len
      BY <1>1, <2>1 DEF Fifo!AtMost
    <2>3. Peek' = SubSeq(Peek, len + 1, Len(Peek))
      <3>1. /\ readerIndex \in Nat /\ writerIndex \in Nat /\ buffer \in Seq(Bytes)
            /\ readerIndex <= writerIndex /\ writerIndex <= Len(buffer)
            /\ Len(buffer) \in Nat
        BY LenProperties DEF BufferInv, TypeOK
      <3>2. CASE len < ReadableBytes
        <4>1. readerIndex' = readerIndex + len /\ writerIndex' = writerIndex /\ buffer' = buffer
          BY <1>3, <3>2 DEF RetrieveAsString, Retrieve
        <4>2. Peek' = SubSeq(buffer, readerIndex + len + 1, writerIndex)
          BY <4>1 DEF Peek
        <4>3. PICK v : v = SubSeq(buffer, readerIndex + 1, writerIndex)
          OBVIOUS
        <4>4. /\ v \in Seq(Bytes) /\ Len(v) = writerIndex - readerIndex
              /\ \A i \in 1..(writerIndex - readerIndex) : v[i] = buffer[readerIndex + i]
          BY <3>1, <4>3, Between
        <4>5. PICK x : x = SubSeq(buffer, (readerIndex + len) + 1, writerIndex)
          OBVIOUS
        <4>6. readerIndex + len \in Nat /\ readerIndex + len <= writerIndex
          BY <2>1, <3>1, <3>2 DEF ReadableBytes
        <4>7. /\ x \in Seq(Bytes) /\ Len(x) = writerIndex - (readerIndex + len)
              /\ \A i \in 1..(writerIndex - (readerIndex + len)) :
                   x[i] = buffer[(readerIndex + len) + i]
          BY <3>1, <4>5, <4>6, Between
        <4>8. PICK y : y = SubSeq(v, len + 1, Len(v))
          OBVIOUS
        <4>9. Len(v) \in Nat /\ len <= Len(v)
          BY <2>1, <3>1, <4>4 DEF ReadableBytes
        <4>10. /\ y \in Seq(Bytes) /\ Len(y) = Len(v) - len
               /\ \A i \in 1..(Len(v) - len) : y[i] = v[len + i]
          BY <2>1, <4>4, <4>8, <4>9, Between
        <4>11. Len(x) = Len(y)
          BY <2>1, <3>1, <4>4, <4>7, <4>10
        <4>12. ASSUME NEW i \in 1..Len(x)
               PROVE  x[i] = y[i]
          <5>1. /\ i \in 1..(writerIndex - (readerIndex + len))
                /\ i \in 1..(Len(v) - len)
                /\ len + i \in 1..(writerIndex - readerIndex)
                /\ readerIndex + (len + i) = (readerIndex + len) + i
            BY <2>1, <3>1, <4>4, <4>6, <4>7
          <5> QED
            BY <4>4, <4>7, <4>10, <5>1
        <4>13. x = y
          BY <4>7, <4>10, <4>11, <4>12, SeqEqual
        <4> QED
          BY <4>2, <4>3, <4>5, <4>8, <4>13 DEF Peek
      <3>3. CASE ~ (len < ReadableBytes)
        <4>1. len = Len(Peek)
          BY <1>1, <2>1, <3>3
        <4>2. readerIndex' = CheapPrepend /\ writerIndex' = CheapPrepend
          BY <1>3, <3>3 DEF RetrieveAsString, Retrieve
        <4>3. SubSeq(buffer', CheapPrepend + 1, CheapPrepend) = << >>
          <5>1. CheapPrepend < CheapPrepend + 1 /\ CheapPrepend + 1 \in Int
                /\ CheapPrepend \in Int
            BY <1>1
          <5> QED
            BY <5>1, SubSeqEmpty
        <4>4. SubSeq(Peek, len + 1, len) = << >>
          <5>1. len < len + 1 /\ len + 1 \in Int /\ len \in Int
            BY <2>1
          <5> QED
            BY <5>1, SubSeqEmpty
        <4> QED
          BY <4>1, <4>2, <4>3, <4>4 DEF Peek
      <3> QED
        BY <3>2, <3>3
    <2>4. Fifo!Get(len)
      BY <1>3, <2>2, <2>3 DEF Fifo!Get, RetrieveAsString
    <2> QED
      BY <1>3, <2>4 DEF Fifo!Next
  <1>4. ASSUME NEW n \in 0..MaxContent, WriteFd(n)
        PROVE  Fifo!Next
    <2>1. n \in 0..Len(Peek)
      BY <1>1, <1>4 DEF WriteFd
    <2>2. Fifo!Send(n)
      BY <1>1, <1>4 DEF WriteFd, Fifo!Send, Peek
    <2> QED
      BY <2>1, <2>2 DEF Fifo!Next
  <1>5. CASE UNCHANGED vars
    BY <1>5 DEF vars, Fifo!vars, Peek
  <1> QED
    BY <1>2, <1>3, <1>4, <1>5 DEF Next

(* For any sizes, the buffer implements the bounded FIFO: through every    *)
(* move, enlargement and receipt via extrabuf nothing is lost, repeated or *)
(* reordered.                                                              *)
THEOREM BufferIsFifo == Spec => ImplementsFifo
  BY FifoInit, FifoStep, BufferInvariant, PTL DEF Spec, ImplementsFifo, Fifo!Spec
=============================================================================
