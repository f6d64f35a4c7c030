---------------------------- MODULE KfifoProofs ----------------------------
(***************************************************************************)
(* Proofs about module Kfifo, for any width of the counters, any size of   *)
(* the ring and any messages: initBuffer allocates the least power of two, *)
(* and the ring is a bounded FIFO through every wrap.                      *)
(***************************************************************************)
EXTENDS Kfifo, SharedLemmas

-----------------------------------------------------------------------------
(* Powers of two, as the numbers of subsets.                               *)

(* The subsets of 1..(i + j) are pairs of a subset of 1..i and one of      *)
(* (i + 1)..(i + j).                                                       *)
LEMMA PowerSum ==
  ASSUME NEW i \in Nat, NEW j \in Nat
  PROVE  2^(i + j) = 2^i * 2^j
  <1> DEFINE S == 1..i
             T == (i + 1)..(i + j)
             U == 1..(i + j)
             f == [A \in SUBSET U |-> <<A \cap S, A \cap T>>]
  <1>1. IsFiniteSet(S) /\ Cardinality(S) = i
    BY FS_Interval
  <1>2. IsFiniteSet(T) /\ Cardinality(T) = j
    <2>1. IsFiniteSet(T) /\ Cardinality(T) = IF i + 1 > i + j THEN 0 ELSE (i + j) - (i + 1) + 1
      BY FS_Interval
    <2> QED
      BY <2>1
  <1>3. IsFiniteSet(U) /\ Cardinality(U) = i + j
    <2>1. 1 \in Int /\ i + j \in Int
      OBVIOUS
    <2>2. IsFiniteSet(U) /\ Cardinality(U) = IF 1 > i + j THEN 0 ELSE (i + j) - 1 + 1
      BY <2>1, FS_Interval
    <2> QED
      BY <2>2
  <1>4. U = S \cup T /\ S \cap T = {}
    OBVIOUS
  <1> HIDE DEF S, T, U
  <1>5. f \in Bijection(SUBSET U, (SUBSET S) \X (SUBSET T))
    <2>1. f \in [SUBSET U -> (SUBSET S) \X (SUBSET T)]
      OBVIOUS
    <2>2. ASSUME NEW A \in SUBSET U, NEW B \in SUBSET U, f[A] = f[B]
          PROVE  A = B
      <3>1. A \cap S = B \cap S /\ A \cap T = B \cap T
        BY <2>2
      <3> QED
        BY <1>4, <3>1
    <2>3. ASSUME NEW p \in (SUBSET S) \X (SUBSET T)
          PROVE  \E A \in SUBSET U : f[A] = p
      <3>1. PICK B \in SUBSET S, C \in SUBSET T : p = <<B, C>>
        BY <2>3
      <3>2. B \cup C \in SUBSET U /\ (B \cup C) \cap S = B /\ (B \cup C) \cap T = C
        BY <1>4
      <3>3. f[B \cup C] = p
        BY <3>1, <3>2
      <3> QED
        BY <3>2, <3>3
    <2> HIDE DEF f
    <2>4. f \in Injection(SUBSET U, (SUBSET S) \X (SUBSET T))
      BY <2>1, <2>2 DEF Injection, IsInjective
    <2>5. f \in Surjection(SUBSET U, (SUBSET S) \X (SUBSET T))
      BY <2>1, <2>3 DEF Surjection
    <2> QED
      BY <2>4, <2>5 DEF Bijection
  <1>6. IsFiniteSet(SUBSET U) /\ Cardinality(SUBSET U) = 2^(i + j)
    BY <1>3, FS_SUBSET
  <1>7. IsFiniteSet(SUBSET S) /\ Cardinality(SUBSET S) = 2^i
    BY <1>1, FS_SUBSET
  <1>8. IsFiniteSet(SUBSET T) /\ Cardinality(SUBSET T) = 2^j
    BY <1>2, FS_SUBSET
  <1>9. Cardinality((SUBSET S) \X (SUBSET T)) = 2^i * 2^j
    BY <1>7, <1>8, FS_Product
  <1>10. Cardinality((SUBSET S) \X (SUBSET T)) = Cardinality(SUBSET U)
    BY <1>5, <1>6, FS_Bijection DEF ExistsBijection
  <1> QED
    BY <1>6, <1>9, <1>10

(* A power of two is a positive number, and the next one is its double.    *)
LEMMA PowerDoubles ==
  ASSUME NEW i \in Nat
  PROVE  2^i \in Nat \ {0} /\ 2^(i + 1) = 2 * 2^i
  <1>1. IsFiniteSet(1..i) /\ Cardinality(1..i) = i
    BY FS_Interval
  <1>2. IsFiniteSet(SUBSET (1..i)) /\ Cardinality(SUBSET (1..i)) = 2^i
    BY <1>1, FS_SUBSET
  <1>3. 2^i \in Nat
    BY <1>2, FS_CardinalityType
  <1>4. 2^i # 0
    <2>1. {} \in SUBSET (1..i)
      OBVIOUS
    <2> QED
      BY <1>2, <2>1, FS_EmptySet
  <1>5. 2^(i + 1) = 2^i * 2^1
    BY PowerSum
  <1>6. 2^1 = 2
    OBVIOUS
  <1> QED
    BY <1>3, <1>4, <1>5, <1>6

(* A smaller power of two divides a greater one.                           *)
LEMMA PowerDivides ==
  ASSUME NEW i \in Nat, NEW j \in Nat, i <= j
  PROVE  \E c \in Nat \ {0} : 2^j = 2^i * c
  <1>1. j - i \in Nat /\ i + (j - i) = j
    OBVIOUS
  <1>2. 2^j = 2^i * 2^(j - i)
    BY <1>1, PowerSum
  <1>3. 2^(j - i) \in Nat \ {0}
    BY <1>1, PowerDoubles
  <1> QED
    BY <1>2, <1>3

(* And is not greater.                                                     *)
LEMMA PowerGrows ==
  ASSUME NEW i \in Nat, NEW j \in Nat, i <= j
  PROVE  2^i <= 2^j
  <1>1. PICK c \in Nat \ {0} : 2^j = 2^i * c
    BY PowerDivides
  <1>2. 2^i \in Nat
    BY PowerDoubles
  <1>3. \A m \in Nat : m <= m * c
    BY <1>1
  <1> QED
    BY <1>1, <1>2, <1>3

-----------------------------------------------------------------------------
(* Remainders.                                                             *)

(* Multiples of the divisor do not matter.                                 *)
LEMMA ModMultiple ==
  ASSUME NEW b \in Nat \ {0}, NEW q \in Nat, NEW m \in Nat
  PROVE  (b * q + m) % b = m % b
  <1>1. PICK p, r : p = m \div b /\ r = m % b
    OBVIOUS
  <1>2. p \in Nat /\ r \in Nat /\ r < b /\ m = b * p + r
    BY <1>1
  <1>3. q + p \in Nat /\ b * q + m = b * (q + p) + r
    BY <1>2
  <1>4. \A t \in Nat : (b * t + r) % b = r
    BY <1>2
  <1>5. (b * (q + p) + r) % b = r
    BY <1>3, <1>4
  <1> QED
    BY <1>1, <1>3, <1>5, Zenon

(* What is added to a position wraps once at most.                         *)
LEMMA ModAdd ==
  ASSUME NEW b \in Nat \ {0}, NEW m \in Nat, NEW k \in Nat, k < b
  PROVE  (m + k) % b = IF (m % b) + k < b THEN (m % b) + k ELSE (m % b) + k - b
  <1>1. PICK p, r : p = m \div b /\ r = m % b
    OBVIOUS
  <1>2. p \in Nat /\ r \in Nat /\ r < b /\ m = b * p + r
    BY <1>1
  <1>3. (m + k) % b = (r + k) % b
    <2>1. m + k = b * p + (r + k) /\ r + k \in Nat
      BY <1>2
    <2>2. (b * p + (r + k)) % b = (r + k) % b
      BY <1>2, <2>1, ModMultiple
    <2> QED
      BY <2>1, <2>2, Zenon
  <1>4. r + k < b => (r + k) % b = r + k
    BY <1>2
  <1>5. ~ (r + k < b) => (r + k) % b = r + k - b
    BY <1>2
  <1> QED
    BY <1>1, <1>3, <1>4, <1>5

(* Fewer than b steps on, the position is another one.                     *)
LEMMA ModDiffers ==
  ASSUME NEW b \in Nat \ {0}, NEW m \in Nat, NEW k \in Nat, 0 < k, k < b
  PROVE  (m + k) % b # m % b
  <1>1. m % b \in Nat
    OBVIOUS
  <1>2. (m + k) % b = IF (m % b) + k < b THEN (m % b) + k ELSE (m % b) + k - b
    BY ModAdd
  <1> QED
    BY <1>1, <1>2

-----------------------------------------------------------------------------
(* initBuffer.                                                             *)

(* The loop that shifts n to the right ends, after as many steps as n has  *)
(* binary digits.                                                          *)
LEMMA ShiftsCountDigits ==
  ASSUME NEW n \in Nat, n < 2^Width
  PROVE  /\ Shifts(n) \in 0..Width
         /\ n < 2^Shifts(n)
         /\ Shifts(n) = 0 \/ 2^(Shifts(n) - 1) <= n
  <1> DEFINE Enough == {i \in 0..Width : n < 2^i}
  <1>1. Width \in Nat
    BY KfifoAssumption
  <1>2. Enough \in SUBSET Nat /\ Enough # {}
    BY <1>1
  <1>3. PICK m \in Enough : \A i \in Enough : m <= i
    <2> HIDE DEF Enough
    <2> QED
      BY <1>2, LeastNumber
  <1>4. m = 0 \/ 2^(m - 1) <= n
    <2> SUFFICES ASSUME m # 0
                 PROVE  2^(m - 1) <= n
      OBVIOUS
    <2>1. m - 1 \in 0..Width /\ m - 1 \in Nat /\ m - 1 < m /\ m \in Nat
      BY <1>1
    <2>2. m - 1 \notin Enough
      BY <1>3, <2>1
    <2>3. ~ (n < 2^(m - 1))
      BY <2>1, <2>2
    <2>4. 2^(m - 1) \in Nat
      BY <2>1, PowerDoubles
    <2> QED
      BY <2>3, <2>4
  <1>5. \E i \in 0..Width : n < 2^i /\ (i = 0 \/ 2^(i - 1) <= n)
    BY <1>3, <1>4
  <1> QED
    BY <1>5 DEF Shifts

\* A size that initBuffer allocates: a power of two, and less than 2^Width.
Allocated(b) == \E i \in 0..(Width - 1) : b = 2^i

(* What the index arithmetic rests on: the size divides the range of the   *)
(* counters, and is less.                                                  *)
LEMMA AllocatedDivides ==
  ASSUME NEW b, Allocated(b)
  PROVE  /\ b \in Nat \ {0}
         /\ Modulus \in Nat \ {0}
         /\ b < Modulus
         /\ IsPowerOfTwo(b)
         /\ \E c \in Nat \ {0} : Modulus = b * c
  <1>1. PICK i \in 0..(Width - 1) : b = 2^i
    BY DEF Allocated
  <1>2. i \in Nat /\ Width \in Nat /\ i <= Width /\ i + 1 <= Width /\ i + 1 \in Nat
    BY KfifoAssumption
  <1>3. b \in Nat \ {0} /\ 2^(i + 1) = 2 * b
    BY <1>1, <1>2, PowerDoubles
  <1>4. 2^(i + 1) <= 2^Width /\ 2^Width \in Nat \ {0}
    BY <1>2, PowerGrows, PowerDoubles
  <1>5. \E c \in Nat \ {0} : 2^Width = 2^i * c
    BY <1>2, PowerDivides
  <1>6. IsPowerOfTwo(b)
    BY <1>1, <1>2 DEF IsPowerOfTwo
  <1> QED
    BY <1>1, <1>3, <1>4, <1>5, <1>6 DEF Modulus

(* initBuffer rounds to a power of two, the least that is not less than    *)
(* what was asked for.                                                     *)
LEMMA RoundUpIsLeast ==
  ASSUME NEW size \in Sizes
  PROVE  /\ Allocated(RoundUp(size))
         /\ size > 0 => size <= RoundUp(size) /\ RoundUp(size) < 2 * size
  <1>1. /\ Width \in Nat /\ Width - 1 \in Nat /\ 2 <= Width - 1 /\ (Width - 1) + 1 = Width
        /\ size \in 0..2^(Width - 1)
    BY KfifoAssumption
  <1>2. 2^(Width - 1) \in Nat /\ 2^Width = 2 * 2^(Width - 1) /\ 2^(Width - 1) # 0
    BY <1>1, PowerDoubles
  <1>3. size \in Nat /\ size <= 2^(Width - 1)
    BY <1>1, <1>2
  <1>4. 2^2 = 4 /\ 2^1 = 2 /\ 2^0 = 1
    OBVIOUS
  <1>5. CASE IsPowerOfTwo(size)
    <2>1. RoundUp(size) = size
      BY <1>5 DEF RoundUp
    <2>2. PICK i \in 0..Width : size = 2^i
      BY <1>5 DEF IsPowerOfTwo
    <2>3. i \in 0..(Width - 1)
      BY <1>1, <1>2, <1>3, <2>2
    <2> QED
      BY <1>3, <2>1, <2>2, <2>3 DEF Allocated
  <1>6. CASE ~ IsPowerOfTwo(size)
    <2> DEFINE n == IF size < 2 THEN 2 ELSE size
               i == Shifts(n)
    <2>1. RoundUp(size) = 2^i
      BY <1>6 DEF RoundUp
    <2>2. 2^2 <= 2^(Width - 1)
      BY <1>1, PowerGrows
    <2>3. n \in Nat /\ n < 2^Width /\ n # 0
      BY <1>2, <1>3, <1>4, <2>2
    <2>4. i \in 0..Width /\ n < 2^i /\ (i = 0 \/ 2^(i - 1) <= n)
      BY <2>3, ShiftsCountDigits
    <2>5. i # 0
      <3>1. ASSUME i = 0
            PROVE  2^i = 1
        <4>1. 2^i = 2^0
          BY <3>1, Zenon
        <4> QED
          BY <1>4, <4>1
      <3>2. n < 2^i
        BY <2>4
      <3> HIDE DEF i
      <3> QED
        BY <2>3, <3>1, <3>2
    <2> HIDE DEF i
    <2>6. i \in Nat /\ i - 1 \in Nat /\ (i - 1) + 1 = i /\ i - 1 \in 0..Width
      BY <1>1, <2>4, <2>5
    <2>7. 2^(i - 1) \in Nat /\ 2^i = 2 * 2^(i - 1) /\ 2^(i - 1) <= n
      BY <2>4, <2>5, <2>6, PowerDoubles
    <2>8. size # 1 /\ size # 2^(i - 1) /\ size # 2^(Width - 1)
      <3>1. \A j \in 0..Width : size # 2^j
        BY <1>6 DEF IsPowerOfTwo
      <3>2. 0 \in 0..Width /\ Width - 1 \in 0..Width
        BY <1>1
      <3>3. size # 2^0
        BY <3>1, <3>2, Zenon
      <3> QED
        BY <1>4, <2>6, <3>1, <3>2, <3>3
    <2>9. n < 2^(Width - 1)
      BY <1>2, <1>3, <1>4, <2>2, <2>8
    <2>10. i <= Width - 1
      <3>1. ASSUME Width - 1 <= i - 1
            PROVE  FALSE
        <4>1. 2^(Width - 1) <= 2^(i - 1)
          BY <1>1, <2>6, <3>1, PowerGrows
        <4> QED
          BY <1>2, <2>3, <2>7, <2>9, <4>1
      <3> QED
        BY <1>1, <2>6, <3>1
    <2>11. Allocated(RoundUp(size))
      BY <2>1, <2>6, <2>10 DEF Allocated
    <2>12. ASSUME size > 0
           PROVE  size <= RoundUp(size) /\ RoundUp(size) < 2 * size
      <3>1. n = size
        BY <1>3, <2>8, <2>12
      <3> QED
        BY <1>3, <2>1, <2>4, <2>7, <2>8, <3>1
    <2> QED
      BY <2>11, <2>12
  <1> QED
    BY <1>5, <1>6

-----------------------------------------------------------------------------
(* The invariant.                                                          *)

RingInv ==
  /\ TypeOK
  /\ bufferSize = 0 \/ Allocated(bufferSize)
  /\ LeastPowerOfTwo

(* The range of the counters is positive.                                  *)
LEMMA ModulusPositive == Modulus \in Nat \ {0}
  BY KfifoAssumption, PowerDoubles DEF Modulus

(* The difference of the counters modulo 2^Width is the distance from read *)
(* to write.                                                               *)
LEMMA Distance ==
  ASSUME NEW w \in 0..(Modulus - 1), NEW r \in 0..(Modulus - 1),
         NEW d, d = (w + Modulus - r) % Modulus
  PROVE  /\ d \in 0..(Modulus - 1)
         /\ w = r + d \/ w + Modulus = r + d
  <1>1. PICK m \in Nat \ {0} : m = Modulus
    BY ModulusPositive
  <1>2. w \in 0..(m - 1) /\ r \in 0..(m - 1) /\ d = (w + m - r) % m
    BY <1>1
  <1>3. CASE r <= w
    <2>1. PICK e \in Nat : e = w - r
      BY <1>2, <1>3
    <2>2. (w + m) - r = e + m /\ e < m
      BY <1>2, <2>1
    <2>3. (e + m) % m = e
      BY <2>2
    <2>4. d = e
      BY <1>2, <2>2, <2>3
    <2> QED
      BY <1>1, <1>2, <2>1, <2>2, <2>4
  <1>4. CASE ~ (r <= w)
    <2>1. PICK e \in Nat : e = (w + m) - r
      BY <1>2, <1>4
    <2>2. e < m
      BY <1>2, <1>4, <2>1
    <2>3. e % m = e
      BY <2>2
    <2>4. d = e
      BY <1>2, <2>1, <2>3
    <2> QED
      BY <1>1, <1>2, <2>1, <2>2, <2>4
  <1> QED
    BY <1>3, <1>4

(* The invariant as facts about numbers.                                   *)
LEMMA RingNumbers ==
  ASSUME RingInv
  PROVE  /\ bufferSize \in Nat /\ bufferSize < Modulus
         /\ Modulus \in Nat \ {0}
         /\ write \in 0..(Modulus - 1) /\ read \in 0..(Modulus - 1)
         /\ GetReadableLen \in 0..(Modulus - 1)
         /\ write = read + GetReadableLen \/ write + Modulus = read + GetReadableLen
  <1>1. write \in 0..(Modulus - 1) /\ read \in 0..(Modulus - 1)
    BY DEF RingInv, TypeOK
  <1>2. /\ GetReadableLen \in 0..(Modulus - 1)
        /\ write = read + GetReadableLen \/ write + Modulus = read + GetReadableLen
    BY <1>1, Distance DEF GetReadableLen
  <1>3. bufferSize \in Nat /\ bufferSize < Modulus
    <2>1. CASE bufferSize = 0
      BY <2>1, ModulusPositive
    <2>2. CASE Allocated(bufferSize)
      BY <2>2, AllocatedDivides
    <2> QED
      BY <2>1, <2>2 DEF RingInv
  <1> QED
    BY <1>1, <1>2, <1>3, ModulusPositive

(* There is a buffer exactly when it has a size.                           *)
LEMMA BufferHasSize ==
  ASSUME RingInv, buffer # NoBuffer
  PROVE  /\ Allocated(bufferSize)
         /\ bufferSize \in Nat \ {0}
         /\ buffer \in [0..(bufferSize - 1) -> Bytes]
         /\ \E c \in Nat \ {0} : Modulus = bufferSize * c
  <1>1. buffer \in [0..(bufferSize - 1) -> Bytes]
    BY DEF RingInv, TypeOK
  <1>2. bufferSize # 0
    <2> SUFFICES ASSUME bufferSize = 0
                 PROVE  FALSE
      OBVIOUS
    <2>1. 0..(bufferSize - 1) = {}
      OBVIOUS
    <2>2. buffer = [p \in {} |-> 0]
      BY <1>1, <2>1
    <2> QED
      BY <2>2 DEF NoBuffer
  <1>3. Allocated(bufferSize)
    BY <1>2 DEF RingInv
  <1> QED
    BY <1>1, <1>3, AllocatedDivides

-----------------------------------------------------------------------------
(* Reading from the memory of the ring.                                    *)

\* The n bytes at position p lie in the buffer, or behind it where bytes are.
Readable(p, n, behind) ==
  \A k \in 1..n : p + k - 1 < bufferSize \/ behind[p + k - 1] \in Bytes

\* s are the n bytes at position p, as far as they lie in the buffer.
ReadFrom(p, n, s) ==
  /\ s \in Seq(Bytes)
  /\ Len(s) = n
  /\ \A k \in 1..n : p + k - 1 < bufferSize => s[k] = buffer[p + k - 1]

(* At reads the bytes at a position.                                       *)
LEMMA AtIs ==
  ASSUME NEW p \in Nat, NEW n \in Nat, NEW behind,
         bufferSize \in Nat, buffer \in [0..(bufferSize - 1) -> Bytes],
         Readable(p, n, behind)
  PROVE  ReadFrom(p, n, At(p, n, behind))
  <1>1. At(p, n, behind) \in [1..n -> Bytes]
    <2>1. ASSUME NEW k \in 1..n
          PROVE  (IF p + k - 1 < bufferSize THEN buffer[p + k - 1] ELSE behind[p + k - 1])
                   \in Bytes
      <3>1. p + k - 1 \in Nat
        OBVIOUS
      <3>2. p + k - 1 < bufferSize => p + k - 1 \in 0..(bufferSize - 1)
        BY <3>1
      <3> QED
        BY <2>1, <3>1, <3>2 DEF Readable
    <2> QED
      BY <2>1 DEF At
  <1>2. At(p, n, behind) \in Seq(Bytes)
    BY <1>1, SeqDef
  <1>3. Len(At(p, n, behind)) = n
    <2>1. PICK s : s = At(p, n, behind)
      OBVIOUS
    <2>2. Len(s) \in Nat /\ DOMAIN s = 1..Len(s) /\ DOMAIN s = 1..n
      BY <1>1, <1>2, <2>1, LenProperties
    <2>3. \A m \in Nat : 1..m = 1..n => m = n
      OBVIOUS
    <2> QED
      BY <2>1, <2>2, <2>3
  <1>4. \A k \in 1..n : p + k - 1 < bufferSize => At(p, n, behind)[k] = buffer[p + k - 1]
    BY DEF At
  <1> QED
    BY <1>2, <1>3, <1>4 DEF ReadFrom

(* Whatever lies behind the buffer, what is read are bytes.                *)
LEMMA LoadTypes ==
  ASSUME RingInv, buffer # NoBuffer, NEW i \in Nat, NEW n \in Nat,
         NEW behind \in Behind(n)
  PROVE  Load(i, n, behind) \in Seq(Bytes)
  <1>1. bufferSize \in Nat \ {0} /\ buffer \in [0..(bufferSize - 1) -> Bytes]
    BY BufferHasSize
  <1>2. PICK b, p, len : b = bufferSize /\ p = i % b /\ len = Least(n, b - p)
    OBVIOUS
  <1>3. /\ b \in Nat \ {0} /\ p \in Nat /\ p < b /\ len \in Nat /\ len <= n
        /\ len <= b - p /\ n - len \in Nat
    BY <1>1, <1>2 DEF Least
  <1>4. At(p, len, behind) \in Seq(Bytes)
    <2>1. \A k \in 1..len : p + k - 1 < bufferSize
      BY <1>2, <1>3
    <2>2. Readable(p, len, behind)
      BY <2>1 DEF Readable
    <2>3. ReadFrom(p, len, At(p, len, behind))
      BY <1>1, <1>3, <2>2, AtIs
    <2> QED
      BY <2>3 DEF ReadFrom
  <1>5. At(0, n - len, behind) \in Seq(Bytes)
    <2>1. ASSUME NEW k \in 1..(n - len)
          PROVE  0 + k - 1 < bufferSize \/ behind[0 + k - 1] \in Bytes
      <3>1. 0 + k - 1 \in Nat /\ 0 + k - 1 <= n - 1
        BY <1>3
      <3>2. 0 + k - 1 < bufferSize \/ 0 + k - 1 \in bufferSize..(n - 1)
        BY <1>1, <1>3, <3>1
      <3> QED
        BY <3>2 DEF Behind
    <2>2. 0 \in Nat /\ Readable(0, n - len, behind)
      BY <2>1 DEF Readable
    <2>3. ReadFrom(0, n - len, At(0, n - len, behind))
      BY <1>1, <1>3, <2>2, AtIs
    <2> QED
      BY <2>3 DEF ReadFrom
  <1>6. Load(i, n, behind) = At(p, len, behind) \o At(0, n - len, behind)
    BY <1>2 DEF Load, ToEnd, Position
  <1> QED
    BY <1>4, <1>5, <1>6, ConcatProperties

(* Reading no more than the buffer holds goes round the ring: the k-th     *)
(* byte lies k - 1 positions further, modulo the size.                     *)
LEMMA LoadIs ==
  ASSUME RingInv, buffer # NoBuffer, NEW i \in Nat, NEW n \in Nat, n <= bufferSize,
         NEW behind
  PROVE  /\ Load(i, n, behind) \in Seq(Bytes)
         /\ Len(Load(i, n, behind)) = n
         /\ \A k \in 1..n : Load(i, n, behind)[k] = buffer[(i + (k - 1)) % bufferSize]
  <1>1. bufferSize \in Nat \ {0} /\ buffer \in [0..(bufferSize - 1) -> Bytes]
    BY BufferHasSize
  <1>2. PICK b, p, len : b = bufferSize /\ p = i % b /\ len = Least(n, b - p)
    OBVIOUS
  <1>3. /\ b \in Nat \ {0} /\ p \in Nat /\ p < b /\ len \in Nat /\ len <= n
        /\ len <= b - p /\ n - len \in Nat /\ n <= b
        /\ len < n => len = b - p
    BY <1>1, <1>2 DEF Least
  <1>4. PICK x, y : x = At(p, len, behind) /\ y = At(0, n - len, behind)
    OBVIOUS
  <1>5. x \in Seq(Bytes) /\ Len(x) = len /\ \A k \in 1..len : x[k] = buffer[p + k - 1]
    <2>1. \A k \in 1..len : p + k - 1 < bufferSize
      BY <1>2, <1>3
    <2>2. Readable(p, len, behind)
      BY <2>1 DEF Readable
    <2>3. ReadFrom(p, len, At(p, len, behind))
      BY <1>1, <1>3, <2>2, AtIs
    <2> QED
      BY <1>4, <2>1, <2>3 DEF ReadFrom
  <1>6. /\ y \in Seq(Bytes) /\ Len(y) = n - len
        /\ \A k \in 1..(n - len) : y[k] = buffer[0 + k - 1]
    <2>1. \A k \in 1..(n - len) : 0 + k - 1 < bufferSize
      BY <1>2, <1>3
    <2>2. 0 \in Nat /\ Readable(0, n - len, behind)
      BY <2>1 DEF Readable
    <2>3. ReadFrom(0, n - len, At(0, n - len, behind))
      BY <1>1, <1>3, <2>2, AtIs
    <2> QED
      BY <1>4, <2>1, <2>3 DEF ReadFrom
  <1>7. Load(i, n, behind) = x \o y
    BY <1>2, <1>4 DEF Load, ToEnd, Position
  <1>8. /\ x \o y \in Seq(Bytes) /\ Len(x \o y) = n
        /\ \A k \in 1..n : (x \o y)[k] = IF k <= len THEN x[k] ELSE y[k - len]
    <2>1. /\ x \o y \in Seq(Bytes) /\ Len(x \o y) = Len(x) + Len(y)
          /\ \A k \in 1..(Len(x) + Len(y)) :
               (x \o y)[k] = IF k <= Len(x) THEN x[k] ELSE y[k - Len(x)]
      BY <1>5, <1>6, ConcatProperties
    <2>2. Len(x) + Len(y) = n
      BY <1>3, <1>5, <1>6
    <2> QED
      BY <1>5, <2>1, <2>2
  <1>9. ASSUME NEW k \in 1..n
        PROVE  (x \o y)[k] = buffer[(i + (k - 1)) % b]
    <2>1. (i + (k - 1)) % b = IF p + (k - 1) < b THEN p + (k - 1) ELSE p + (k - 1) - b
      <3>1. PICK j \in Nat : j = k - 1 /\ j < b
        BY <1>3
      <3>2. (i + j) % b = IF (i % b) + j < b THEN (i % b) + j ELSE (i % b) + j - b
        BY <1>3, <3>1, ModAdd
      <3> QED
        BY <1>2, <3>1, <3>2, Zenon
    <2>2. CASE k <= len
      <3>1. p + (k - 1) < b /\ p + k - 1 = p + (k - 1) /\ k \in 1..len
        BY <1>3, <2>2
      <3> QED
        BY <1>5, <1>8, <2>1, <2>2, <3>1
    <2>3. CASE ~ (k <= len)
      <3>1. ~ (p + (k - 1) < b) /\ p + (k - 1) - b = 0 + (k - len) - 1 /\ k - len \in 1..(n - len)
        BY <1>3, <2>3
      <3> QED
        BY <1>6, <1>8, <2>1, <2>3, <3>1
    <2> QED
      BY <2>2, <2>3
  <1> QED
    BY <1>2, <1>7, <1>8, <1>9

-----------------------------------------------------------------------------
(* Writing to the memory of the ring.                                      *)

\* f is the memory of a ring of b bytes.
Memory(b, f) == f \in [0..(b - 1) -> Bytes]

\* g is the memory after s was copied to position p of f: the positions that the
\* copy reaches have changed, no others.
Copied(b, f, p, s, g) ==
  /\ Memory(b, g)
  /\ \A q \in 0..(b - 1) :
       g[q] = IF q >= p /\ q < p + Len(s) THEN s[q - p + 1] ELSE f[q]

(* Copy is memcpy.                                                         *)
LEMMA CopyIs ==
  ASSUME NEW b \in Nat, NEW f, Memory(b, f), NEW p \in Nat, NEW s \in Seq(Bytes)
  PROVE  Copied(b, f, p, s, Copy(f, p, s))
  <1>1. Len(s) \in Nat
    BY LenProperties
  <1>2. ASSUME NEW q \in 0..(b - 1), q >= p, q < p + Len(s)
        PROVE  s[q - p + 1] \in Bytes
    <2>1. q - p + 1 \in 1..Len(s)
      BY <1>1, <1>2
    <2> QED
      BY <2>1, ElementOfSeq
  <1> QED
    BY <1>2 DEF Copied, Copy, Memory

(* The part of a sequence between two of its elements.                     *)
LEMMA PartIs ==
  ASSUME NEW s \in Seq(Bytes), NEW n \in Nat, n <= Len(s)
  PROVE  /\ SubSeq(s, 1, n) \in Seq(Bytes)
         /\ Len(SubSeq(s, 1, n)) = n
         /\ \A k \in 1..n : SubSeq(s, 1, n)[k] = s[k]
         /\ SubSeq(s, n + 1, Len(s)) \in Seq(Bytes)
         /\ Len(SubSeq(s, n + 1, Len(s))) = Len(s) - n
         /\ \A k \in 1..(Len(s) - n) : SubSeq(s, n + 1, Len(s))[k] = s[n + k]
  <1>1. Len(s) \in Nat /\ Len(s) <= Len(s)
    BY LenProperties
  <1>2. 0 \in Nat /\ 0 <= n /\ 0 + 1 = 1 /\ n - 0 = n /\ \A k \in Nat : 0 + k = k
    OBVIOUS
  <1>3. /\ SubSeq(s, 0 + 1, n) \in Seq(Bytes)
        /\ Len(SubSeq(s, 0 + 1, n)) = n - 0
        /\ \A k \in 1..(n - 0) : SubSeq(s, 0 + 1, n)[k] = s[0 + k]
    BY <1>1, <1>2, Between
  <1>4. /\ SubSeq(s, n + 1, Len(s)) \in Seq(Bytes)
        /\ Len(SubSeq(s, n + 1, Len(s))) = Len(s) - n
        /\ \A k \in 1..(Len(s) - n) : SubSeq(s, n + 1, Len(s))[k] = s[n + k]
    BY <1>1, Between
  <1> QED
    BY <1>2, <1>3, <1>4

\* g is the memory after the bytes s were put into f from counter w on.
Stored(b, w, f, s, g) ==
  /\ \A k \in 1..Len(s) : g[(w + (k - 1)) % b] = s[k]
  /\ \A q \in 0..(b - 1) :
       (\A k \in 1..Len(s) : q # (w + (k - 1)) % b) => g[q] = f[q]

(* The positions that writeBuffer's two copies reach are the ones that     *)
(* follow write on the ring; with no more bytes than the ring has, none is *)
(* written twice.                                                          *)
LEMMA StoreIs ==
  ASSUME NEW b, b = bufferSize, b \in Nat \ {0}, write \in Nat,
         NEW f, Memory(b, f), NEW s \in Seq(Bytes)
  PROVE  /\ Memory(b, Store(f, s))
         /\ Len(s) <= b => Stored(b, write, f, s, Store(f, s))
  <1> PICK g : g = Store(f, s)
    OBVIOUS
  <1>1. Len(s) \in Nat
    BY LenProperties
  <1>2. PICK p, len : p = write % b /\ len = Least(Len(s), b - p)
    OBVIOUS
  <1>3. /\ p \in Nat /\ p < b /\ len \in Nat /\ len <= Len(s) /\ len <= b - p
        /\ len < Len(s) => len = b - p
    BY <1>1, <1>2 DEF Least
  <1>4. PICK s1, s2 : s1 = SubSeq(s, 1, len) /\ s2 = SubSeq(s, len + 1, Len(s))
    OBVIOUS
  <1>5. /\ s1 \in Seq(Bytes) /\ Len(s1) = len /\ \A k \in 1..len : s1[k] = s[k]
        /\ s2 \in Seq(Bytes) /\ Len(s2) = Len(s) - len
        /\ \A k \in 1..(Len(s) - len) : s2[k] = s[len + k]
    BY <1>3, <1>4, PartIs
  <1>6. PICK h : h = Copy(f, p, s1)
    OBVIOUS
  <1>7. /\ Memory(b, h)
        /\ \A q \in 0..(b - 1) :
             h[q] = IF q >= p /\ q < p + len THEN s1[q - p + 1] ELSE f[q]
    <2>1. Copied(b, f, p, s1, Copy(f, p, s1))
      <3>1. b \in Nat /\ Memory(b, f) /\ p \in Nat /\ s1 \in Seq(Bytes)
        BY <1>3, <1>5
      <3> QED
        BY <3>1, CopyIs, Zenon
    <2> QED
      BY <1>5, <1>6, <2>1 DEF Copied
  <1>8. g = Copy(h, 0, s2)
    BY <1>2, <1>4, <1>6 DEF Store, ToEnd, Position
  <1>9. /\ Memory(b, g)
        /\ \A q \in 0..(b - 1) : g[q] = IF q < Len(s) - len THEN s2[q + 1] ELSE h[q]
    <2>1. PICK z \in Nat : z = 0
      OBVIOUS
    <2>2. Copied(b, h, z, s2, Copy(h, z, s2))
      <3>1. b \in Nat /\ Memory(b, h) /\ z \in Nat /\ s2 \in Seq(Bytes)
        BY <1>5, <1>7, <2>1
      <3> QED
        BY <3>1, CopyIs, Zenon
    <2>3. \A q \in 0..(b - 1) : q >= z /\ q - z + 1 = q + 1
      BY <2>1
    <2>4. z + Len(s2) = Len(s) - len
      BY <1>1, <1>3, <1>5, <2>1
    <2>5. Copy(h, z, s2) = g
      BY <1>8, <2>1
    <2> QED
      BY <2>2, <2>3, <2>4, <2>5 DEF Copied
  <1>10. ASSUME Len(s) <= b
         PROVE  Stored(b, write, f, s, g)
    <2>1. ASSUME NEW k \in 1..Len(s)
          PROVE  (write + (k - 1)) % b
                   = IF p + (k - 1) < b THEN p + (k - 1) ELSE p + (k - 1) - b
      <3>1. PICK j \in Nat : j = k - 1 /\ j < b
        BY <1>1, <1>10
      <3>2. (write + j) % b = IF (write % b) + j < b THEN (write % b) + j ELSE (write % b) + j - b
        BY <3>1, ModAdd
      <3> QED
        BY <1>2, <3>1, <3>2, Zenon
    <2>2. ASSUME NEW k \in 1..Len(s)
          PROVE  g[(write + (k - 1)) % b] = s[k]
      <3>1. CASE k <= len
        <4>1. /\ p + (k - 1) < b /\ p + (k - 1) \in 0..(b - 1) /\ k \in 1..len
              /\ p + (k - 1) >= p /\ p + (k - 1) < p + len /\ (p + (k - 1)) - p + 1 = k
          BY <1>1, <1>3, <3>1
        <4>2. ~ (p + (k - 1) < Len(s) - len)
          BY <1>1, <1>3, <1>10
        <4>3. g[p + (k - 1)] = h[p + (k - 1)]
          BY <1>9, <4>1, <4>2
        <4>4. h[p + (k - 1)] = s1[k]
          BY <1>7, <4>1
        <4> QED
          BY <1>5, <2>1, <4>1, <4>3, <4>4
      <3>2. CASE ~ (k <= len)
        <4>1. /\ ~ (p + (k - 1) < b) /\ p + (k - 1) - b \in 0..(b - 1)
              /\ p + (k - 1) - b < Len(s) - len /\ (p + (k - 1) - b) + 1 = k - len
              /\ k - len \in 1..(Len(s) - len) /\ len + (k - len) = k
          BY <1>1, <1>3, <1>10, <3>2
        <4>2. g[p + (k - 1) - b] = s2[k - len]
          BY <1>9, <4>1
        <4> QED
          BY <1>5, <2>1, <4>1, <4>2
      <3> QED
        BY <3>1, <3>2
    <2>3. ASSUME NEW q \in 0..(b - 1), \A k \in 1..Len(s) : q # (write + (k - 1)) % b
          PROVE  g[q] = f[q]
      <3>1. ~ (q < Len(s) - len)
        <4> SUFFICES ASSUME q < Len(s) - len
                     PROVE  FALSE
          OBVIOUS
        <4>1. PICK k \in 1..Len(s) : k = q + 1 + len
          BY <1>1, <1>3
        <4>2. ~ (p + (k - 1) < b) /\ p + (k - 1) - b = q
          BY <1>1, <1>3, <4>1
        <4> QED
          BY <2>1, <2>3, <4>2
      <3>2. ~ (q >= p /\ q < p + len)
        <4> SUFFICES ASSUME q >= p, q < p + len
                     PROVE  FALSE
          OBVIOUS
        <4>1. PICK k \in 1..Len(s) : k = q - p + 1
          BY <1>1, <1>3
        <4>2. p + (k - 1) < b /\ p + (k - 1) = q
          BY <1>1, <1>3, <4>1
        <4> QED
          BY <2>1, <2>3, <4>2
      <3> QED
        BY <1>7, <1>9, <3>1, <3>2
    <2> QED
      BY <2>2, <2>3 DEF Stored
  <1> QED
    BY <1>9, <1>10

-----------------------------------------------------------------------------
(* Every operation preserves the invariant.                                *)

Calls == {"none", "renew", "put", "recv", "get", "sent"}

(* What may be written or received are sequences of bytes.                 *)
LEMMA InputsAreBytes == Inputs \subseteq Seq(Bytes)
  <1>1. MaxLen \in Nat
    BY KfifoAssumption
  <1>2. ASSUME NEW s \in Inputs
        PROVE  s \in Seq(Bytes)
    <2>1. PICK n \in 1..MaxLen : s \in [1..n -> Bytes]
      BY <1>2 DEF Inputs
    <2>2. n \in Nat
      BY <1>1
    <2> QED
      BY <2>1, <2>2, SeqDef
  <1> QED
    BY <1>2

(* A counter that was advanced is a counter.                               *)
LEMMA WrapIsCounter ==
  ASSUME NEW i \in Nat
  PROVE  Wrap(i) \in 0..(Modulus - 1)
  <1>1. \A m \in Nat \ {0} : i % m \in 0..(m - 1)
    OBVIOUS
  <1> QED
    BY <1>1, ModulusPositive DEF Wrap

(* No operation without allocation changes the size.                       *)
LEMMA SameSize ==
  ASSUME RingInv, bufferSize' = bufferSize, asked' = asked,
         Memory(bufferSize, buffer'),
         write' \in 0..(Modulus - 1), read' \in 0..(Modulus - 1),
         blocked' \in BOOLEAN, overrun' \in BOOLEAN, last' \in Calls \X Seq(Bytes)
  PROVE  RingInv'
  <1>1. TypeOK'
    BY DEF RingInv, TypeOK, Memory, Calls, Modulus
  <1>2. LeastPowerOfTwo'
    BY DEF RingInv, LeastPowerOfTwo, IsPowerOfTwo, Modulus
  <1> QED
    BY <1>1, <1>2 DEF RingInv, Allocated

(* What the invariant says of the memory and the counters.                 *)
LEMMA RingTypes ==
  ASSUME RingInv
  PROVE  /\ Memory(bufferSize, buffer)
         /\ write \in 0..(Modulus - 1) /\ read \in 0..(Modulus - 1)
         /\ write \in Nat /\ read \in Nat
         /\ blocked \in BOOLEAN /\ overrun \in BOOLEAN /\ last \in Calls \X Seq(Bytes)
  <1>1. write \in 0..(Modulus - 1) /\ read \in 0..(Modulus - 1)
    BY DEF RingInv, TypeOK
  <1> QED
    BY <1>1, ModulusPositive DEF RingInv, TypeOK, Memory, Calls

(* writeBuffer leaves a memory of bytes, whatever it takes for the room    *)
(* that is left.                                                           *)
LEMMA WriteBytesTypes ==
  ASSUME RingInv, buffer # NoBuffer, NEW f, Memory(bufferSize, f), NEW s \in Seq(Bytes),
         WriteBytes(f, s)
  PROVE  Memory(bufferSize, buffer') /\ write' \in 0..(Modulus - 1) /\ overrun' \in BOOLEAN
  <1>1. PICK n, taken : /\ n = Least(Len(s), GetRemainLen)
                        /\ taken = SubSeq(s, 1, n)
    OBVIOUS
  <1>2. GetRemainLen \in Nat
    <2>1. \A x \in Nat, m \in Nat \ {0} : x % m \in Nat
      OBVIOUS
    <2>2. bufferSize + Modulus - GetReadableLen \in Nat /\ Modulus \in Nat \ {0}
      BY RingNumbers
    <2> QED
      BY <2>1, <2>2 DEF GetRemainLen
  <1>3. n \in Nat /\ n <= Len(s)
    <2>1. Len(s) \in Nat
      BY LenProperties
    <2> QED
      BY <1>1, <1>2, <2>1 DEF Least
  <1>4. taken \in Seq(Bytes) /\ Len(taken) = n
    BY <1>1, <1>3, PartIs
  <1>5. buffer' = Store(f, taken) /\ write' = Wrap(write + n)
    BY <1>1, <1>4 DEF WriteBytes
  <1>6. write \in Nat /\ bufferSize \in Nat \ {0}
    BY RingTypes, BufferHasSize
  <1>7. PICK b, g : b = bufferSize /\ g = Store(f, taken)
    OBVIOUS
  <1>8. Memory(b, g)
    <2>1. /\ b = bufferSize /\ b \in Nat \ {0} /\ write \in Nat
          /\ Memory(b, f) /\ taken \in Seq(Bytes)
      BY <1>4, <1>6, <1>7
    <2>2. Memory(b, Store(f, taken))
      BY <2>1, StoreIs, Zenon
    <2> QED
      BY <1>7, <2>2, Zenon
  <1>9. Wrap(write + n) \in 0..(Modulus - 1)
    <2>1. write + n \in Nat
      BY <1>3, <1>6
    <2> QED
      BY <2>1, WrapIsCounter
  <1>10. overrun' \in BOOLEAN
    BY DEF WriteBytes, Overruns
  <1> QED
    BY <1>5, <1>7, <1>8, <1>9, <1>10

(* initBuffer, freeBuffer and resetBuffer.                                 *)
LEMMA RenewStep ==
  ASSUME RingInv,
         (\E size \in Sizes : InitBuffer(size)) \/ FreeBuffer \/ ResetBuffer
  PROVE  RingInv'
  <1>1. << >> \in Seq(Bytes) /\ 0 \in Bytes /\ 0 \in 0..(Modulus - 1)
    BY EmptySeq, KfifoAssumption, ModulusPositive
  <1>2. <<"renew", << >>>> \in Calls \X Seq(Bytes)
    BY <1>1 DEF Calls
  <1>3. ASSUME NEW size \in Sizes, InitBuffer(size)
        PROVE  RingInv'
    <2>1. PICK b : b = RoundUp(size)
      OBVIOUS
    <2>2. /\ bufferSize' = b /\ buffer' = [p \in 0..(b - 1) |-> 0] /\ write' = 0 /\ read' = 0
          /\ asked' = size /\ last' = <<"renew", << >>>>
          /\ blocked' = blocked /\ overrun' = overrun
      BY <1>3, <2>1 DEF InitBuffer
    <2>3. Allocated(b) /\ (size > 0 => size <= b /\ b < 2 * size)
      BY <1>3, <2>1, RoundUpIsLeast
    <2>4. /\ b \in Nat \ {0} /\ Modulus \in Nat \ {0} /\ b < Modulus /\ IsPowerOfTwo(b)
          /\ \E c \in Nat \ {0} : Modulus = b * c
      BY <2>3, AllocatedDivides
    <2>5. Modulus % b = 0
      <3>1. PICK c \in Nat \ {0} : Modulus = b * c
        BY <2>4
      <3>2. \A k \in Nat : (b * k) % b = 0
        BY <2>4
      <3> QED
        BY <3>1, <3>2
    <2>6. LeastPowerOfTwo'
      BY <2>2, <2>3, <2>4, <2>5 DEF LeastPowerOfTwo, IsPowerOfTwo, Modulus
    <2>7. TypeOK'
      BY <1>1, <1>2, <1>3, <2>2, <2>4 DEF TypeOK, RingInv, Calls, Modulus
    <2> QED
      BY <2>2, <2>3, <2>6, <2>7 DEF RingInv, Allocated
  <1>4. CASE FreeBuffer
    <2>1. buffer' \in [0..(bufferSize' - 1) -> Bytes]
      <3>1. bufferSize' = 0 /\ buffer' = [p \in {} |-> 0]
        BY <1>4 DEF FreeBuffer, NoBuffer
      <3>2. 0..(bufferSize' - 1) = {}
        BY <3>1
      <3> QED
        BY <3>1, <3>2
    <2>2. TypeOK'
      BY <1>1, <1>2, <1>4, <2>1, ModulusPositive
      DEF FreeBuffer, TypeOK, RingInv, Calls, Modulus
    <2> QED
      BY <1>4, <2>2 DEF FreeBuffer, RingInv, LeastPowerOfTwo
  <1>5. CASE ResetBuffer
    <2>1. Memory(bufferSize, buffer')
      BY <1>1, <1>5, RingTypes DEF ResetBuffer, Memory
    <2>2. last' \in Calls \X Seq(Bytes) /\ blocked' \in BOOLEAN /\ overrun' \in BOOLEAN
      BY <1>2, <1>5, RingTypes DEF ResetBuffer
    <2> QED
      BY <1>1, <1>5, <2>1, <2>2, SameSize DEF ResetBuffer
  <1> QED
    BY <1>3, <1>4, <1>5

(* writeBuffer and readFd.                                                 *)
LEMMA WriteStep ==
  ASSUME RingInv, NEW s \in Inputs, WriteBuffer(s) \/ ReadFd(s)
  PROVE  RingInv'
  <1>1. s \in Seq(Bytes) /\ Len(s) \in Nat
    BY InputsAreBytes, LenProperties
  <1>2. buffer # NoBuffer
    BY DEF WriteBuffer, ReadFd
  <1>3. ASSUME NEW f, Memory(bufferSize, f), NEW t \in Seq(Bytes), WriteBytes(f, t),
               UNCHANGED <<bufferSize, read, blocked, asked>>,
               last' \in Calls \X Seq(Bytes)
        PROVE  RingInv'
    <2>1. /\ Memory(bufferSize, buffer') /\ write' \in 0..(Modulus - 1)
          /\ overrun' \in BOOLEAN
      BY <1>2, <1>3, WriteBytesTypes
    <2> QED
      BY <1>3, <2>1, RingTypes, SameSize
  <1>4. ASSUME Block
        PROVE  RingInv'
    BY <1>4, RingTypes, SameSize DEF Block, ring
  <1>5. CASE WriteBuffer(s)
    <2>1. Block \/ /\ WriteBytes(buffer, s)
                   /\ UNCHANGED <<bufferSize, read, blocked, asked>>
                   /\ last' = <<"put", s>>
      BY <1>5 DEF WriteBuffer
    <2>2. <<"put", s>> \in Calls \X Seq(Bytes)
      BY <1>1 DEF Calls
    <2> QED
      BY <1>1, <1>3, <1>4, <2>1, <2>2, RingTypes
  <1>6. CASE ReadFd(s)
    <2>1. PICK b, p, n, room, filled :
            /\ b = bufferSize /\ p = write % b /\ room = b - p /\ n = Least(Len(s), room)
            /\ filled = Copy(buffer, p, SubSeq(s, 1, n))
      OBVIOUS
    <2>2. write \in Nat /\ b \in Nat \ {0} /\ Memory(b, buffer)
      BY <1>2, <2>1, RingTypes, BufferHasSize
    <2>3. p \in Nat /\ room \in Nat /\ n \in Nat /\ n <= Len(s)
      <3>1. p \in 0..(b - 1)
        BY <2>1, <2>2
      <3> QED
        BY <1>1, <2>1, <2>2, <3>1 DEF Least
    <2>4. SubSeq(s, 1, n) \in Seq(Bytes)
      BY <1>1, <2>3, PartIs
    <2>5. Memory(b, filled)
      <3>1. Copied(b, buffer, p, SubSeq(s, 1, n), Copy(buffer, p, SubSeq(s, 1, n)))
        BY <2>2, <2>3, <2>4, CopyIs
      <3> QED
        BY <2>1, <3>1 DEF Copied
    <2>6. \/ /\ Len(s) <= room
             /\ buffer' = filled
             /\ write' = Wrap(write + Len(s))
             /\ UNCHANGED <<bufferSize, read, blocked, overrun, asked>> /\ last' = <<"recv", s>>
          \/ Block
          \/ /\ Len(s) > room
             /\ WriteBytes(filled, SubSeq(s, room + 1, Len(s)))
             /\ UNCHANGED <<bufferSize, read, blocked, asked>> /\ last' = <<"recv", s>>
      BY <1>6, <2>1 DEF ReadFd, ToEnd, Position
    <2>7. <<"recv", s>> \in Calls \X Seq(Bytes)
      BY <1>1 DEF Calls
    <2>8. Len(s) > room => SubSeq(s, room + 1, Len(s)) \in Seq(Bytes)
      BY <1>1, <2>3, PartIs
    <2>9. CASE /\ buffer' = filled
               /\ write' = Wrap(write + Len(s))
               /\ UNCHANGED <<bufferSize, read, blocked, overrun, asked>> /\ last' = <<"recv", s>>
      <3>1. write' \in 0..(Modulus - 1)
        BY <1>1, <2>2, <2>9, WrapIsCounter
      <3> QED
        BY <2>1, <2>5, <2>7, <2>9, <3>1, RingTypes, SameSize
    <2>10. CASE /\ Len(s) > room
                /\ WriteBytes(filled, SubSeq(s, room + 1, Len(s)))
                /\ UNCHANGED <<bufferSize, read, blocked, asked>> /\ last' = <<"recv", s>>
      BY <1>3, <2>1, <2>5, <2>7, <2>8, <2>10
    <2> QED
      BY <1>4, <2>6, <2>9, <2>10
  <1> QED
    BY <1>5, <1>6

(* readBuffer and writeFd.                                                 *)
LEMMA ReadStep ==
  ASSUME RingInv, NEW n \in 1..MaxLen, ReadBuffer(n) \/ WriteFd(n)
  PROVE  RingInv'
  <1>1. n \in Nat /\ buffer # NoBuffer
    BY KfifoAssumption DEF ReadBuffer, WriteFd
  <1>2. GetReadableLen \in Nat
    BY RingNumbers
  <1>3. CASE ReadBuffer(n)
    <2>1. PICK size : size = Least(n, GetReadableLen)
      OBVIOUS
    <2>2. size \in Nat
      BY <1>1, <1>2, <2>1 DEF Least
    <2>3. CASE Block
      BY <2>3, RingTypes, SameSize DEF Block, ring
    <2>4. CASE ~ Block
      <3>1. /\ read' = Wrap(read + size)
            /\ UNCHANGED <<buffer, bufferSize, write, blocked, overrun, asked>>
            /\ \E behind \in Behind(size) : last' = <<"get", Load(read, size, behind)>>
        BY <1>3, <2>1, <2>4 DEF ReadBuffer
      <3>2. PICK behind \in Behind(size) : last' = <<"get", Load(read, size, behind)>>
        BY <3>1
      <3>3. Load(read, size, behind) \in Seq(Bytes)
        BY <1>1, <2>2, <3>2, RingTypes, LoadTypes
      <3>4. last' \in Calls \X Seq(Bytes)
        BY <3>2, <3>3 DEF Calls
      <3>5. read' \in 0..(Modulus - 1)
        BY <2>2, <3>1, RingTypes, WrapIsCounter
      <3> QED
        BY <3>1, <3>4, <3>5, RingTypes, SameSize
    <2> QED
      BY <2>3, <2>4
  <1>4. CASE WriteFd(n)
    <2>1. PICK p : p = Position(read)
      OBVIOUS
    <2>2. PICK behind : behind \in Behind(p + n) /\ last' = <<"sent", At(p, n, behind)>>
      BY <1>4, <2>1 DEF WriteFd
    <2>3. bufferSize \in Nat \ {0} /\ buffer \in [0..(bufferSize - 1) -> Bytes] /\ read \in Nat
      BY <1>1, BufferHasSize, RingTypes
    <2>4. p \in Nat
      <3>1. \A x \in Nat, b \in Nat \ {0} : x % b \in Nat
        OBVIOUS
      <3> QED
        BY <2>1, <2>3, <3>1 DEF Position
    <2>5. ASSUME NEW k \in 1..n
          PROVE  p + k - 1 < bufferSize \/ behind[p + k - 1] \in Bytes
      <3>1. p + k - 1 < bufferSize \/ p + k - 1 \in bufferSize..((p + n) - 1)
        BY <1>1, <2>3, <2>4
      <3>2. behind \in [bufferSize..((p + n) - 1) -> Bytes]
        BY <2>2, Zenon DEF Behind
      <3> QED
        BY <3>1, <3>2
    <2>6. At(p, n, behind) \in Seq(Bytes)
      <3>1. Readable(p, n, behind)
        BY <2>5 DEF Readable
      <3>2. ReadFrom(p, n, At(p, n, behind))
        BY <1>1, <2>3, <2>4, <3>1, AtIs
      <3> QED
        BY <3>2 DEF ReadFrom
    <2>7. last' \in Calls \X Seq(Bytes)
      BY <2>2, <2>6 DEF Calls
    <2> QED
      BY <1>4, <2>7, RingTypes, SameSize DEF WriteFd, ring
  <1> QED
    BY <1>3, <1>4

(* Every step preserves the invariant.                                     *)
LEMMA RingInvStep == RingInv /\ [Next]_vars => RingInv'
  <1> SUFFICES ASSUME RingInv, [Next]_vars
               PROVE  RingInv'
    OBVIOUS
  <1>1. CASE UNCHANGED vars
    BY <1>1, RingTypes, SameSize DEF vars, ring
  <1>2. CASE Next
    BY <1>2, RenewStep, WriteStep, ReadStep DEF Next
  <1> QED
    BY <1>1, <1>2

(* The invariant holds in every reachable state.                           *)
LEMMA RingInvariant == Spec => []RingInv
  <1>1. Init => RingInv
    <2> SUFFICES ASSUME Init
                 PROVE  RingInv
      OBVIOUS
    <2>1. << >> \in Seq(Bytes)
      BY EmptySeq
    <2>2. last \in Calls \X Seq(Bytes)
      BY <2>1 DEF Init, Calls
    <2>3. buffer \in [0..(bufferSize - 1) -> Bytes]
      <3>1. 0..(bufferSize - 1) = {} /\ buffer = [p \in {} |-> 0]
        BY DEF Init, NoBuffer
      <3> QED
        BY <3>1
    <2>4. bufferSize \in 0..Modulus /\ {write, read} \subseteq 0..(Modulus - 1)
      BY ModulusPositive DEF Init
    <2>5. TypeOK
      BY <2>2, <2>3, <2>4 DEF Init, TypeOK, Calls
    <2> QED
      BY <2>5 DEF Init, RingInv, LeastPowerOfTwo
  <1> QED
    BY <1>1, RingInvStep, PTL DEF Spec

(* For any size asked for, initBuffer allocates the least power of two     *)
(* that holds it, and that size divides the range of the counters.         *)
THEOREM SizeIsLeastPower == Spec => []LeastPowerOfTwo
  <1>1. RingInv => LeastPowerOfTwo
    BY DEF RingInv
  <1> QED
    BY <1>1, RingInvariant, PTL

-----------------------------------------------------------------------------
(* The ring as a queue.                                                    *)

\* What is unread lies on the ring from counter read on.
UnreadRound ==
  bufferSize # 0 /\ Intact =>
    /\ Unread \in Seq(Bytes)
    /\ Len(Unread) = GetReadableLen
    /\ \A k \in 1..GetReadableLen : Unread[k] = buffer[(read + (k - 1)) % bufferSize]

LEMMA UnreadGoesRound == RingInv => UnreadRound
  <1> SUFFICES ASSUME RingInv, bufferSize # 0, Intact
               PROVE  /\ Unread \in Seq(Bytes)
                      /\ Len(Unread) = GetReadableLen
                      /\ \A k \in 1..GetReadableLen :
                           Unread[k] = buffer[(read + (k - 1)) % bufferSize]
    BY DEF UnreadRound
  <1>1. buffer # NoBuffer
    <2>1. bufferSize \in Nat /\ DOMAIN buffer = 0..(bufferSize - 1)
      BY RingNumbers, RingTypes DEF Memory
    <2>2. 0 \in DOMAIN buffer
      BY <2>1
    <2> QED
      BY <2>2 DEF NoBuffer
  <1>2. read \in Nat /\ GetReadableLen \in Nat /\ GetReadableLen <= bufferSize
    BY RingTypes, RingNumbers DEF Intact
  <1>3. Unread = Load(read, GetReadableLen, << >>)
    BY DEF Unread
  <1>4. PICK i, n, e : i = read /\ n = GetReadableLen /\ e = << >>
    OBVIOUS
  <1>5. /\ Load(i, n, e) \in Seq(Bytes)
        /\ Len(Load(i, n, e)) = n
        /\ \A k \in 1..n : Load(i, n, e)[k] = buffer[(i + (k - 1)) % bufferSize]
    BY <1>1, <1>2, <1>4, LoadIs
  <1> QED
    BY <1>3, <1>4, <1>5

(* It also does after a step.                                              *)
LEMMA UnreadGoesRoundNext == RingInv' => UnreadRound'
  BY UnreadGoesRound, PTL

(* Advancing write by n makes n more bytes readable.                       *)
LEMMA AdvanceWrite ==
  ASSUME NEW w \in 0..(Modulus - 1), NEW r \in 0..(Modulus - 1),
         NEW d, d = (w + Modulus - r) % Modulus, NEW n \in Nat, d + n < Modulus,
         NEW v, v = Wrap(w + n), NEW e, e = (v + Modulus - r) % Modulus
  PROVE  /\ e = d + n
         /\ v = w + n \/ v + Modulus = w + n
  <1>1. PICK m \in Nat \ {0} : m = Modulus
    BY ModulusPositive
  <1>2. /\ d \in 0..(m - 1) /\ w \in 0..(m - 1) /\ r \in 0..(m - 1)
        /\ w = r + d \/ w + m = r + d
    BY <1>1, Distance
  <1>3. v \in 0..(m - 1) /\ (v = w + n \/ v + m = w + n)
    <2>1. v = (w + n) % m /\ n < m
      BY <1>1, <1>2 DEF Wrap
    <2>2. CASE w + n < m
      <3>1. (w + n) % m = w + n
        BY <1>2, <2>2
      <3> QED
        BY <1>2, <2>1, <2>2, <3>1
    <2>3. CASE ~ (w + n < m)
      <3>1. PICK x \in Nat : x = (w + n) - m /\ x < m
        BY <1>2, <2>1, <2>3
      <3>2. (x + m) % m = x /\ x + m = w + n
        BY <1>2, <3>1
      <3> QED
        BY <1>2, <2>1, <3>1, <3>2
    <2> QED
      BY <2>2, <2>3
  <1>4. e \in 0..(m - 1) /\ (v = r + e \/ v + m = r + e)
    <2>1. v \in 0..(Modulus - 1) /\ r \in 0..(Modulus - 1) /\ e = (v + Modulus - r) % Modulus
      BY <1>1, <1>3
    <2>2. e \in 0..(Modulus - 1) /\ (v = r + e \/ v + Modulus = r + e)
      BY <2>1, Distance
    <2> QED
      BY <1>1, <2>2
  <1>5. e = d + n
    BY <1>1, <1>2, <1>3, <1>4
  <1> QED
    BY <1>1, <1>3, <1>5

(* Advancing read by n, n of the readable bytes are gone.                  *)
LEMMA AdvanceRead ==
  ASSUME NEW w \in 0..(Modulus - 1), NEW r \in 0..(Modulus - 1),
         NEW d, d = (w + Modulus - r) % Modulus, NEW n \in Nat, n <= d,
         NEW v, v = Wrap(r + n), NEW e, e = (w + Modulus - v) % Modulus
  PROVE  /\ e = d - n
         /\ v = r + n \/ v + Modulus = r + n
  <1>1. PICK m \in Nat \ {0} : m = Modulus
    BY ModulusPositive
  <1>2. /\ d \in 0..(m - 1) /\ w \in 0..(m - 1) /\ r \in 0..(m - 1)
        /\ w = r + d \/ w + m = r + d
    BY <1>1, Distance
  <1>3. v \in 0..(m - 1) /\ (v = r + n \/ v + m = r + n)
    <2>1. v = (r + n) % m /\ n < m
      BY <1>1, <1>2 DEF Wrap
    <2>2. CASE r + n < m
      <3>1. (r + n) % m = r + n
        BY <1>2, <2>2
      <3> QED
        BY <1>2, <2>1, <2>2, <3>1
    <2>3. CASE ~ (r + n < m)
      <3>1. PICK x \in Nat : x = (r + n) - m /\ x < m
        BY <1>2, <2>1, <2>3
      <3>2. (x + m) % m = x /\ x + m = r + n
        BY <1>2, <3>1
      <3> QED
        BY <1>2, <2>1, <3>1, <3>2
    <2> QED
      BY <2>2, <2>3
  <1>4. e \in 0..(m - 1) /\ (w = v + e \/ w + m = v + e)
    BY <1>1, <1>3, Distance
  <1>5. e = d - n
    BY <1>1, <1>2, <1>3, <1>4
  <1> QED
    BY <1>1, <1>3, <1>5

(* Counters that differ by the wrap point to the same place: the size      *)
(* divides the range of the counters.                                      *)
LEMMA SamePlace ==
  ASSUME NEW b, Allocated(b), NEW x \in Nat, NEW y \in Nat,
         x = y \/ x + Modulus = y
  PROVE  x % b = y % b
  <1>1. b \in Nat \ {0} /\ \E c \in Nat \ {0} : Modulus = b * c
    BY AllocatedDivides
  <1>2. PICK c \in Nat \ {0} : Modulus = b * c
    BY <1>1
  <1>3. (b * c + x) % b = x % b
    BY <1>1, <1>2, ModMultiple
  <1>4. CASE x + Modulus = y
    <2>1. b * c \in Nat
      BY <1>1, <1>2
    <2>2. y = b * c + x
      BY <1>2, <1>4, <2>1
    <2> QED
      BY <1>3, <2>2
  <1> QED
    BY <1>4

(* Bytes for which there is room, put behind write, follow the unread ones *)
(* and overwrite none of them.                                             *)
LEMMA TakeBehind ==
  ASSUME RingInv, RingInv', bufferSize # 0, Intact, NEW s \in Seq(Bytes),
         GetReadableLen + Len(s) <= bufferSize,
         Stored(bufferSize, write, buffer, s, buffer'),
         write' = Wrap(write + Len(s)), read' = read, bufferSize' = bufferSize
  PROVE  Unread' = Unread \o s
  <1>1. PICK b, r, w, d, n :
          /\ b = bufferSize /\ r = read /\ w = write /\ d = GetReadableLen /\ n = Len(s)
    OBVIOUS
  <1>2. /\ b \in Nat \ {0} /\ r \in Nat /\ w \in Nat /\ d \in Nat /\ n \in Nat
        /\ Modulus \in Nat \ {0} /\ b < Modulus /\ d + n <= b
        /\ w = r + d \/ w + Modulus = r + d
    BY <1>1, RingNumbers, RingTypes, LenProperties
  <1>3. Allocated(b)
    BY <1>1 DEF RingInv
  <1>4. GetReadableLen' = d + n
    <2>1. /\ write \in 0..(Modulus - 1) /\ read \in 0..(Modulus - 1)
          /\ d = (write + Modulus - read) % Modulus
          /\ d + n < Modulus
          /\ write' = Wrap(write + n)
          /\ GetReadableLen' = (write' + Modulus - read) % Modulus
      BY <1>1, <1>2, RingTypes DEF GetReadableLen, Modulus
    <2>2. PICK v, e : v = write' /\ e = GetReadableLen'
      OBVIOUS
    <2>3. /\ w \in 0..(Modulus - 1) /\ r \in 0..(Modulus - 1)
          /\ d = (w + Modulus - r) % Modulus
          /\ n \in Nat /\ d + n < Modulus
          /\ v = Wrap(w + n) /\ e = (v + Modulus - r) % Modulus
      BY <1>1, <1>2, <2>1, <2>2
    <2>4. e = d + n
      BY <2>3, AdvanceWrite
    <2> QED
      BY <2>2, <2>4
  <1>5. PICK u, t : u = Unread /\ t = Unread'
    OBVIOUS
  <1>6. /\ u \in Seq(Bytes) /\ Len(u) = d
        /\ \A k \in 1..d : u[k] = buffer[(r + (k - 1)) % b]
    BY <1>1, <1>5, UnreadGoesRound DEF UnreadRound
  <1>7. /\ t \in Seq(Bytes) /\ Len(t) = d + n
        /\ \A k \in 1..(d + n) : t[k] = buffer'[(r + (k - 1)) % b]
    <2>1. bufferSize' # 0 /\ Intact'
      BY <1>1, <1>2, <1>4 DEF Intact
    <2>2. /\ t \in Seq(Bytes) /\ Len(t) = GetReadableLen'
          /\ \A k \in 1..GetReadableLen' : t[k] = buffer'[(read' + (k - 1)) % bufferSize']
      BY <1>5, <2>1, UnreadGoesRoundNext DEF UnreadRound
    <2> QED
      BY <1>1, <1>4, <2>2
  <1>8. /\ u \o s \in Seq(Bytes) /\ Len(u \o s) = d + n
        /\ \A k \in 1..(d + n) : (u \o s)[k] = IF k <= d THEN u[k] ELSE s[k - d]
    <2>1. /\ u \o s \in Seq(Bytes) /\ Len(u \o s) = Len(u) + Len(s)
          /\ \A k \in 1..(Len(u) + Len(s)) :
               (u \o s)[k] = IF k <= Len(u) THEN u[k] ELSE s[k - Len(u)]
      BY <1>6, ConcatProperties
    <2> QED
      BY <1>1, <1>6, <2>1
  <1>9. \A j \in 1..n : (w + (j - 1)) % b = (r + (d + (j - 1))) % b
    <2> SUFFICES ASSUME NEW j \in 1..n
                 PROVE  (w + (j - 1)) % b = (r + (d + (j - 1))) % b
      OBVIOUS
    <2>1. PICK x \in Nat, y \in Nat : x = w + (j - 1) /\ y = r + (d + (j - 1))
      BY <1>2
    <2>2. x = y \/ x + Modulus = y
      BY <1>2, <2>1
    <2>3. x % b = y % b
      BY <1>3, <2>2, SamePlace
    <2> QED
      BY <2>1, <2>3
  <1>10. Stored(b, w, buffer, s, buffer')
    BY <1>1
  <1>11. ASSUME NEW k \in 1..(d + n)
         PROVE  t[k] = (u \o s)[k]
    <2>1. CASE k <= d
      <3>1. PICK q : q = (r + (k - 1)) % b
        OBVIOUS
      <3>2. q \in 0..(b - 1)
        BY <1>2, <3>1
      <3>3. ASSUME NEW j \in 1..n
            PROVE  q # (w + (j - 1)) % b
        <4>1. PICK x \in Nat, y \in Nat : x = r + (k - 1) /\ y = (d + j) - k
          BY <1>2, <2>1
        <4>2. 0 < y /\ y < b /\ x + y = r + (d + (j - 1))
          BY <1>2, <2>1, <4>1
        <4>3. (x + y) % b # x % b
          BY <1>2, <4>1, <4>2, ModDiffers
        <4> QED
          BY <1>9, <3>1, <4>1, <4>2, <4>3
      <3>4. buffer'[q] = buffer[q]
        BY <1>1, <1>10, <3>2, <3>3 DEF Stored
      <3>5. k \in 1..d
        BY <1>2, <2>1
      <3> QED
        BY <1>6, <1>7, <1>8, <2>1, <3>1, <3>4, <3>5
    <2>2. CASE ~ (k <= d)
      <3>1. PICK j \in 1..n : j = k - d
        BY <1>2, <2>2
      <3>2. d + (j - 1) = k - 1
        BY <1>2, <3>1
      <3>3. (w + (j - 1)) % b = (r + (k - 1)) % b
        BY <1>9, <3>2
      <3>4. buffer'[(w + (j - 1)) % b] = s[j]
        BY <1>1, <1>10 DEF Stored
      <3> QED
        BY <1>7, <1>8, <2>2, <3>1, <3>3, <3>4
    <2> QED
      BY <2>1, <2>2
  <1>12. t = u \o s
    BY <1>7, <1>8, <1>11, SeqEqual
  <1> QED
    BY <1>5, <1>12

(* Bytes copied to the space between write and the end of the buffer are   *)
(* put behind write: what readFd does when all it received fits there.     *)
LEMMA CopiedIsStored ==
  ASSUME NEW b \in Nat \ {0}, NEW w \in Nat, NEW f, NEW s \in Seq(Bytes), NEW g,
         NEW p, p = w % b, Copied(b, f, p, s, g), p + Len(s) <= b
  PROVE  Stored(b, w, f, s, g)
  <1>1. Len(s) \in Nat /\ p \in Nat /\ p < b
    BY LenProperties
  <1>2. ASSUME NEW k \in 1..Len(s)
        PROVE  (w + (k - 1)) % b = p + (k - 1)
    <2>1. PICK j \in Nat : j = k - 1 /\ j < b
      BY <1>1
    <2>2. (w + j) % b = IF (w % b) + j < b THEN (w % b) + j ELSE (w % b) + j - b
      BY <2>1, ModAdd
    <2>3. p + j < b
      BY <1>1, <2>1
    <2> QED
      BY <2>1, <2>2, <2>3
  <1>3. ASSUME NEW k \in 1..Len(s)
        PROVE  g[(w + (k - 1)) % b] = s[k]
    <2>1. PICK q \in 0..(b - 1) : q = p + (k - 1)
      BY <1>1
    <2>2. q >= p /\ q < p + Len(s) /\ q - p + 1 = k
      BY <1>1, <2>1
    <2>3. g[q] = s[k]
      BY <2>2 DEF Copied
    <2> QED
      BY <1>2, <2>1, <2>3
  <1>4. ASSUME NEW q \in 0..(b - 1), \A k \in 1..Len(s) : q # (w + (k - 1)) % b
        PROVE  g[q] = f[q]
    <2>1. ~ (q >= p /\ q < p + Len(s))
      <3> SUFFICES ASSUME q >= p, q < p + Len(s)
                   PROVE  FALSE
        OBVIOUS
      <3>1. PICK k \in 1..Len(s) : k = q - p + 1
        BY <1>1
      <3>2. p + (k - 1) = q
        BY <1>1, <3>1
      <3> QED
        BY <1>2, <1>4, <3>2
    <2> QED
      BY <2>1 DEF Copied
  <1> QED
    BY <1>3, <1>4 DEF Stored

(* What is left of a full ring's size.                                     *)
LEMMA RoomLeft ==
  ASSUME RingInv, Intact
  PROVE  GetRemainLen = bufferSize - GetReadableLen /\ GetRemainLen \in Nat
  <1>1. PICK b, m, d : b = bufferSize /\ m = Modulus /\ d = GetReadableLen
    OBVIOUS
  <1>2. b \in Nat /\ m \in Nat \ {0} /\ b < m /\ d \in Nat /\ d <= b
    BY <1>1, RingNumbers DEF Intact
  <1>3. PICK x \in Nat : x = b - d /\ x < m /\ b + m - d = x + m
    BY <1>2
  <1>4. (x + m) % m = x
    BY <1>2, <1>3
  <1> QED
    BY <1>1, <1>3, <1>4 DEF GetRemainLen

(* The queue only depends on the ring.                                     *)
LEMMA SameUnread ==
  ASSUME UNCHANGED ring
  PROVE  Unread' = Unread
  BY DEF ring, Unread, Intact, GetReadableLen, Load, At, ToEnd, Position, Least, Modulus

(* A buffer whose size is not 0 is there, and so are its unread bytes.     *)
LEMMA UnreadIs ==
  ASSUME RingInv, buffer # NoBuffer, Intact
  PROVE  /\ bufferSize \in Nat \ {0}
         /\ Unread \in Seq(Bytes)
         /\ Len(Unread) = GetReadableLen
         /\ GetReadableLen \in Nat /\ GetReadableLen <= bufferSize
         /\ \A k \in 1..GetReadableLen : Unread[k] = buffer[(read + (k - 1)) % bufferSize]
  <1>1. bufferSize \in Nat \ {0}
    BY BufferHasSize
  <1>2. GetReadableLen \in Nat /\ GetReadableLen <= bufferSize
    BY RingNumbers DEF Intact
  <1> QED
    BY <1>1, <1>2, UnreadGoesRound DEF UnreadRound

\* With both counters at 0, nothing is unread.
EmptyAtZero == write = 0 /\ read = 0 => Unread = << >>

LEMMA NothingUnread == RingInv => EmptyAtZero
  <1> SUFFICES ASSUME RingInv, write = 0, read = 0
               PROVE  Unread = << >>
    BY DEF EmptyAtZero
  <1>1. GetReadableLen = 0
    <2>1. \A m \in Nat \ {0} : (0 + m - 0) % m = 0
      OBVIOUS
    <2> QED
      BY <2>1, ModulusPositive DEF GetReadableLen
  <1>2. CASE bufferSize = 0
    BY <1>2 DEF Unread
  <1>3. CASE bufferSize # 0
    <2>1. Intact
      BY <1>1, RingNumbers DEF Intact
    <2>2. Unread \in Seq(Bytes) /\ Len(Unread) = 0
      BY <1>1, <1>3, <2>1, UnreadGoesRound DEF UnreadRound
    <2> QED
      BY <2>2, EmptySeq
  <1> QED
    BY <1>2, <1>3

(* Nor is there after a step that sets them to 0.                          *)
LEMMA NothingUnreadNext == RingInv' => EmptyAtZero'
  BY NothingUnread, PTL

(* initBuffer, freeBuffer and resetBuffer renew the queue.                 *)
LEMMA RenewIsRenew ==
  ASSUME RingInv',
         (\E size \in Sizes : InitBuffer(size)) \/ FreeBuffer \/ ResetBuffer
  PROVE  Fifo!Renew
  <1>1. write' = 0 /\ read' = 0 /\ last' = <<"renew", << >>>>
    BY DEF InitBuffer, FreeBuffer, ResetBuffer
  <1>2. bufferSize' \in Nat
    <2>1. bufferSize' \in 0..Modulus
      BY DEF RingInv, TypeOK, Modulus
    <2> QED
      BY <2>1, ModulusPositive
  <1> QED
    BY <1>1, <1>2, NothingUnreadNext DEF EmptyAtZero, Fifo!Renew

(* writeBuffer puts what there is room for into the queue.                 *)
LEMMA WriteIsPut ==
  ASSUME RingInv, RingInv', Intact, buffer # NoBuffer, NEW s \in Seq(Bytes),
         WriteBytes(buffer, s), bufferSize' = bufferSize, read' = read,
         last' = <<"put", s>>
  PROVE  Fifo!Put(s)
  <1>1. PICK n, taken : n = Least(Len(s), GetRemainLen) /\ taken = SubSeq(s, 1, n)
    OBVIOUS
  <1>2. /\ bufferSize \in Nat \ {0} /\ GetReadableLen \in Nat /\ GetReadableLen <= bufferSize
        /\ Len(Unread) = GetReadableLen
        /\ GetRemainLen = bufferSize - GetReadableLen /\ GetRemainLen \in Nat
        /\ Len(s) \in Nat
    BY UnreadIs, RoomLeft, LenProperties
  <1>3. n \in Nat /\ n <= Len(s) /\ GetReadableLen + n <= bufferSize /\ n <= bufferSize
    BY <1>1, <1>2 DEF Least
  <1>4. taken \in Seq(Bytes) /\ Len(taken) = n
    BY <1>1, <1>3, PartIs
  <1>5. buffer' = Store(buffer, taken) /\ write' = Wrap(write + Len(taken))
    BY <1>1 DEF WriteBytes
  <1>6. Stored(bufferSize, write, buffer, taken, buffer')
    <2>1. PICK b, g : b = bufferSize /\ g = Store(buffer, taken)
      OBVIOUS
    <2>2. b \in Nat \ {0} /\ write \in Nat /\ Memory(b, buffer)
      BY <1>2, <2>1, RingTypes
    <2>3. Len(taken) <= b => Stored(b, write, buffer, taken, g)
      BY <1>4, <2>1, <2>2, StoreIs
    <2> QED
      BY <1>3, <1>4, <1>5, <2>1, <2>3
  <1>7. Unread' = Unread \o taken
    <2>1. bufferSize # 0 /\ GetReadableLen + Len(taken) <= bufferSize
      BY <1>2, <1>3, <1>4
    <2> QED
      BY <1>4, <1>5, <1>6, <2>1, TakeBehind
  <1>8. n = Fifo!AtMost(Len(s), bufferSize - Len(Unread))
    BY <1>1, <1>2 DEF Least, Fifo!AtMost
  <1> QED
    BY <1>1, <1>7, <1>8 DEF Fifo!Put

(* readFd puts all that it received into the queue, when there is room for *)
(* it before the end of the buffer.                                        *)
LEMMA ReceiveIsPut ==
  ASSUME RingInv, RingInv', Intact, buffer # NoBuffer, NEW s \in Seq(Bytes),
         ReadFits(s), NEW n, n = Least(Len(s), ToEnd(write)),
         buffer' = Copy(buffer, Position(write), SubSeq(s, 1, n)),
         write' = Wrap(write + Len(s)), bufferSize' = bufferSize, read' = read,
         last' = <<"recv", s>>
  PROVE  Fifo!Put(s)
  <1>1. PICK b, w, p : b = bufferSize /\ w = write /\ p = w % b
    OBVIOUS
  <1>2. /\ b \in Nat \ {0} /\ w \in Nat /\ Memory(b, buffer)
        /\ GetReadableLen \in Nat /\ GetReadableLen <= b
        /\ Len(Unread) = GetReadableLen
        /\ GetRemainLen = b - GetReadableLen /\ GetRemainLen \in Nat
        /\ Len(s) \in Nat
    BY <1>1, UnreadIs, RoomLeft, RingTypes, LenProperties
  <1>3. p \in Nat /\ p < b /\ ToEnd(write) = b - p /\ Position(write) = p
    BY <1>1, <1>2 DEF ToEnd, Position
  <1>4. /\ p + Len(s) <= b /\ Len(s) <= b - GetReadableLen
        /\ GetReadableLen + Len(s) <= b /\ n = Len(s)
    BY <1>2, <1>3 DEF ReadFits, Least
  <1>5. SubSeq(s, 1, n) = s
    BY <1>4, SubSeqFull
  <1>6. Copied(b, buffer, p, s, buffer')
    <2>1. buffer' = Copy(buffer, p, s)
      BY <1>3, <1>5
    <2>2. b \in Nat
      BY <1>2
    <2>3. Copied(b, buffer, p, s, Copy(buffer, p, s))
      BY <1>2, <1>3, <2>2, CopyIs
    <2> QED
      BY <2>1, <2>3
  <1>7. Stored(b, w, buffer, s, buffer')
    BY <1>1, <1>2, <1>4, <1>6, CopiedIsStored
  <1>8. Unread' = Unread \o s
    <2>1. /\ bufferSize # 0 /\ GetReadableLen + Len(s) <= bufferSize
          /\ Stored(bufferSize, write, buffer, s, buffer')
      BY <1>1, <1>2, <1>4, <1>7
    <2> QED
      BY <2>1, TakeBehind
  <1>9. Fifo!AtMost(Len(s), bufferSize - Len(Unread)) = Len(s)
    BY <1>1, <1>2, <1>4 DEF Fifo!AtMost
  <1> QED
    BY <1>4, <1>5, <1>8, <1>9 DEF Fifo!Put

(* readBuffer takes the oldest bytes out of the queue, as many as are      *)
(* asked for or as there are.                                              *)
LEMMA ReadIsGet ==
  ASSUME RingInv, RingInv', Intact, buffer # NoBuffer, NEW n \in Nat,
         NEW size, size = Least(n, GetReadableLen), NEW behind,
         read' = Wrap(read + size),
         buffer' = buffer, bufferSize' = bufferSize, write' = write,
         last' = <<"get", Load(read, size, behind)>>
  PROVE  Fifo!Get(n)
  <1>1. PICK b, r, w, d, u, t, out :
          /\ b = bufferSize /\ r = read /\ w = write /\ d = GetReadableLen
          /\ u = Unread /\ t = Unread' /\ out = Load(read, size, behind)
    OBVIOUS
  <1>2. /\ b \in Nat \ {0} /\ r \in Nat /\ w \in Nat /\ d \in Nat /\ d <= b
        /\ u \in Seq(Bytes) /\ Len(u) = d
        /\ \A k \in 1..d : u[k] = buffer[(r + (k - 1)) % b]
    BY <1>1, UnreadIs, RingTypes
  <1>3. size \in Nat /\ size <= d /\ size <= b
    BY <1>1, <1>2 DEF Least
  <1>4. /\ out \in Seq(Bytes) /\ Len(out) = size
        /\ \A k \in 1..size : out[k] = buffer[(r + (k - 1)) % b]
    <2>1. /\ Load(r, size, behind) \in Seq(Bytes)
          /\ Len(Load(r, size, behind)) = size
          /\ \A k \in 1..size : Load(r, size, behind)[k] = buffer[(r + (k - 1)) % bufferSize]
      BY <1>1, <1>2, <1>3, LoadIs
    <2> QED
      BY <1>1, <2>1
  <1>5. /\ SubSeq(u, 1, size) \in Seq(Bytes) /\ Len(SubSeq(u, 1, size)) = size
        /\ \A k \in 1..size : SubSeq(u, 1, size)[k] = u[k]
        /\ SubSeq(u, size + 1, d) \in Seq(Bytes) /\ Len(SubSeq(u, size + 1, d)) = d - size
        /\ \A k \in 1..(d - size) : SubSeq(u, size + 1, d)[k] = u[size + k]
    BY <1>2, <1>3, PartIs
  <1>6. out = SubSeq(u, 1, size)
    <2>1. ASSUME NEW k \in 1..size
          PROVE  out[k] = SubSeq(u, 1, size)[k]
      <3>1. d \in Nat /\ size \in Nat /\ size <= d
        BY <1>2, <1>3
      <3>2. k \in 1..d
        BY <3>1
      <3> QED
        BY <1>2, <1>4, <1>5, <3>2
    <2> QED
      BY <1>4, <1>5, <2>1, SeqEqual
  <1>7. PICK v, e : v = read' /\ e = GetReadableLen'
    OBVIOUS
  <1>8. e = d - size /\ (v = r + size \/ v + Modulus = r + size)
    <2>1. /\ w \in 0..(Modulus - 1) /\ r \in 0..(Modulus - 1)
          /\ d = (w + Modulus - r) % Modulus
          /\ v = Wrap(r + size) /\ e = (w + Modulus - v) % Modulus
      BY <1>1, <1>7, RingTypes DEF GetReadableLen, Modulus
    <2> QED
      BY <1>3, <2>1, AdvanceRead
  <1>9. v \in Nat /\ Modulus \in Nat \ {0}
    <2>1. v \in 0..(Modulus - 1)
      BY <1>2, <1>3, <1>1, <1>7, WrapIsCounter
    <2> QED
      BY <2>1, ModulusPositive
  <1>10. /\ t \in Seq(Bytes) /\ Len(t) = d - size
         /\ \A k \in 1..(d - size) : t[k] = buffer[(v + (k - 1)) % b]
    <2>1. bufferSize' # 0 /\ Intact'
      BY <1>1, <1>2, <1>3, <1>7, <1>8 DEF Intact
    <2>2. /\ t \in Seq(Bytes) /\ Len(t) = GetReadableLen'
          /\ \A k \in 1..GetReadableLen' : t[k] = buffer'[(read' + (k - 1)) % bufferSize']
      BY <1>1, <2>1, UnreadGoesRoundNext DEF UnreadRound
    <2> QED
      BY <1>1, <1>7, <1>8, <2>2
  <1>11. ASSUME NEW k \in 1..(d - size)
         PROVE  t[k] = SubSeq(u, size + 1, d)[k]
    <2>1. PICK j \in Nat, m \in Nat, x \in Nat, y \in Nat :
            /\ m = Modulus /\ j = k - 1 /\ (size + k) - 1 = size + j
            /\ x = v + j /\ y = r + (size + j)
      <3>1. /\ d \in Nat /\ size \in Nat /\ size <= d /\ v \in Nat /\ r \in Nat
            /\ Modulus \in Nat
        BY <1>2, <1>3, <1>9
      <3>2. PICK j \in Nat : j = k - 1
        BY <3>1
      <3>3. (size + k) - 1 = size + j /\ v + j \in Nat /\ r + (size + j) \in Nat
        BY <3>1, <3>2
      <3> QED
        BY <3>1, <3>2, <3>3
    <2>2. x = y \/ x + Modulus = y
      <3>1. v = r + size \/ v + m = r + size
        BY <1>8, <2>1
      <3>2. r \in Nat /\ v \in Nat /\ size \in Nat
        BY <1>2, <1>3, <1>9
      <3>3. x = y \/ x + m = y
        BY <2>1, <3>1, <3>2
      <3> QED
        BY <2>1, <3>3
    <2>3. Allocated(b)
      BY <1>1, BufferHasSize
    <2>4. x % b = y % b
      BY <2>2, <2>3, SamePlace
    <2>5. size + k \in 1..d
      BY <1>2, <1>3
    <2>6. u[size + k] = buffer[y % b]
      BY <1>2, <2>1, <2>5
    <2> QED
      BY <1>5, <1>10, <2>1, <2>4, <2>6
  <1>12. t = SubSeq(u, size + 1, d)
    BY <1>5, <1>10, <1>11, SeqEqual
  <1>13. size = Fifo!AtMost(n, Len(Unread))
    BY <1>1, <1>2 DEF Least, Fifo!AtMost
  <1>14. /\ last' = <<"get", SubSeq(Unread, 1, size)>>
         /\ Unread' = SubSeq(Unread, size + 1, Len(Unread))
    BY <1>1, <1>2, <1>6, <1>12
  <1> QED
    BY <1>13, <1>14 DEF Fifo!Get

(* writeFd sends the oldest bytes of the queue, when none of them lies     *)
(* beyond the end of the buffer.                                           *)
LEMMA WriteFdIsSend ==
  ASSUME RingInv, Intact, buffer # NoBuffer, NEW n \in Nat, n <= GetReadableLen,
         NEW p, p = Position(read), NEW behind,
         SendFits(At(p, n, behind)), Len(At(p, n, behind)) = n,
         last' = <<"sent", At(p, n, behind)>>, UNCHANGED ring
  PROVE  Fifo!Send(n) /\ n \in 0..Len(Unread)
  <1>1. PICK b, r, d, u, out : /\ b = bufferSize /\ r = read /\ d = GetReadableLen
                               /\ u = Unread /\ out = At(p, n, behind)
    OBVIOUS
  <1>2. /\ b \in Nat \ {0} /\ r \in Nat /\ d \in Nat /\ n <= d /\ d <= b
        /\ u \in Seq(Bytes) /\ Len(u) = d
        /\ \A k \in 1..d : u[k] = buffer[(r + (k - 1)) % b]
    BY <1>1, UnreadIs, RingTypes
  <1>3. p = r % b /\ p \in Nat /\ p < b /\ p + n <= b
    BY <1>1, <1>2 DEF SendFits, ToEnd, Position
  <1>4. /\ out \in Seq(Bytes) /\ Len(out) = n
        /\ \A k \in 1..n : out[k] = buffer[p + k - 1]
    <2>1. \A k \in 1..n : p + k - 1 < bufferSize
      BY <1>1, <1>2, <1>3
    <2>2. bufferSize \in Nat /\ buffer \in [0..(bufferSize - 1) -> Bytes]
      BY BufferHasSize
    <2>3. Readable(p, n, behind)
      BY <2>1 DEF Readable
    <2>4. ReadFrom(p, n, At(p, n, behind))
      BY <1>3, <2>2, <2>3, AtIs
    <2> QED
      BY <1>1, <2>1, <2>4 DEF ReadFrom
  <1>5. ASSUME NEW k \in 1..n
        PROVE  out[k] = u[k]
    <2>1. PICK j \in Nat : j = k - 1 /\ j < b /\ p + j < b /\ p + k - 1 = p + j
      BY <1>2, <1>3
    <2>2. (r + j) % b = IF (r % b) + j < b THEN (r % b) + j ELSE (r % b) + j - b
      BY <1>2, <2>1, ModAdd
    <2>3. k \in 1..d
      BY <1>2
    <2> QED
      BY <1>2, <1>3, <1>4, <2>1, <2>2, <2>3
  <1>6. out = SubSeq(u, 1, n)
    <2>1. /\ SubSeq(u, 1, n) \in Seq(Bytes) /\ Len(SubSeq(u, 1, n)) = n
          /\ \A k \in 1..n : SubSeq(u, 1, n)[k] = u[k]
      BY <1>2, PartIs
    <2>2. \A k \in 1..n : out[k] = SubSeq(u, 1, n)[k]
      BY <1>5, <2>1
    <2> QED
      BY <1>4, <2>1, <2>2, SeqEqual
  <1>7. Unread' = Unread /\ bufferSize' = bufferSize
    BY SameUnread DEF ring
  <1>8. n <= Len(Unread) /\ last' = <<"sent", SubSeq(Unread, 1, n)>> /\ n \in 0..Len(Unread)
    BY <1>1, <1>2, <1>6
  <1> QED
    BY <1>7, <1>8 DEF Fifo!Send

(* Every step from an intact ring is a step of the queue, or leaves it as  *)
(* it is; the two exceptions of FifoSteps are the hypotheses.              *)
LEMMA RingStepIsFifoStep ==
  ASSUME RingInv, RingInv', Next, Intact,
         last'[1] = "recv" => ReadFits(last'[2]),
         last'[1] = "sent" => SendFits(last'[2])
  PROVE  [Fifo!Next]_(Fifo!vars)
  <1>1. ASSUME Block
        PROVE  UNCHANGED Fifo!vars
    BY <1>1, SameUnread DEF Block, ring, Fifo!vars
  <1>2. CASE (\E size \in Sizes : InitBuffer(size)) \/ FreeBuffer \/ ResetBuffer
    BY <1>2, RenewIsRenew DEF Fifo!Next
  <1>3. ASSUME NEW s \in Inputs, WriteBuffer(s)
        PROVE  [Fifo!Next]_(Fifo!vars)
    <2>1. s \in Seq(Bytes) /\ buffer # NoBuffer
      BY <1>3, InputsAreBytes DEF WriteBuffer
    <2>2. CASE ~ Block
      <3>1. /\ WriteBytes(buffer, s) /\ bufferSize' = bufferSize /\ read' = read
            /\ last' = <<"put", s>>
        BY <1>3, <2>2 DEF WriteBuffer
      <3>2. Fifo!Put(s)
        BY <2>1, <3>1, WriteIsPut
      <3> QED
        BY <1>3, <3>2 DEF Fifo!Next
    <2> QED
      BY <1>1, <2>2
  <1>4. ASSUME NEW s \in Inputs, ReadFd(s)
        PROVE  [Fifo!Next]_(Fifo!vars)
    <2>1. s \in Seq(Bytes) /\ buffer # NoBuffer /\ Len(s) \in Nat
      BY <1>4, InputsAreBytes, LenProperties DEF ReadFd
    <2>2. CASE ~ Block
      <3>1. /\ UNCHANGED <<bufferSize, read>> /\ last' = <<"recv", s>>
        BY <1>4, <2>2 DEF ReadFd
      <3>2. ReadFits(s)
        BY <3>1
      <3>3. ~ (Len(s) > ToEnd(write))
        <4>1. ToEnd(write) \in Nat
          <5>1. bufferSize \in Nat \ {0} /\ write \in Nat
            BY <2>1, BufferHasSize, RingTypes
          <5>2. \A x \in Nat, b \in Nat \ {0} : b - (x % b) \in Nat
            OBVIOUS
          <5> QED
            BY <5>1, <5>2 DEF ToEnd, Position
        <4>2. GetRemainLen \in Nat
          BY RoomLeft
        <4> QED
          BY <2>1, <3>2, <4>1, <4>2 DEF ReadFits, Least
      <3>4. PICK n : n = Least(Len(s), ToEnd(write))
        OBVIOUS
      <3>5. /\ buffer' = Copy(buffer, Position(write), SubSeq(s, 1, n))
            /\ write' = Wrap(write + Len(s))
        BY <1>4, <2>2, <3>3, <3>4 DEF ReadFd
      <3>6. Fifo!Put(s)
        BY <2>1, <3>1, <3>2, <3>4, <3>5, ReceiveIsPut
      <3> QED
        BY <1>4, <3>6 DEF Fifo!Next
    <2> QED
      BY <1>1, <2>2
  <1>5. ASSUME NEW n \in 1..MaxLen, ReadBuffer(n)
        PROVE  [Fifo!Next]_(Fifo!vars)
    <2>1. n \in Nat /\ n \in 0..MaxLen /\ buffer # NoBuffer
      BY <1>5, KfifoAssumption DEF ReadBuffer
    <2>2. CASE ~ Block
      <3>1. PICK size : size = Least(n, GetReadableLen)
        OBVIOUS
      <3>2. /\ read' = Wrap(read + size)
            /\ buffer' = buffer /\ bufferSize' = bufferSize /\ write' = write
            /\ \E behind \in Behind(size) : last' = <<"get", Load(read, size, behind)>>
        BY <1>5, <2>2, <3>1 DEF ReadBuffer
      <3>3. Fifo!Get(n)
        BY <2>1, <3>1, <3>2, ReadIsGet
      <3> QED
        BY <2>1, <3>3 DEF Fifo!Next
    <2> QED
      BY <1>1, <2>2
  <1>6. ASSUME NEW n \in 1..MaxLen, WriteFd(n)
        PROVE  [Fifo!Next]_(Fifo!vars)
    <2>1. n \in Nat /\ buffer # NoBuffer /\ n <= GetReadableLen /\ UNCHANGED ring
      BY <1>6, KfifoAssumption DEF WriteFd
    <2>2. PICK p : p = Position(read)
      OBVIOUS
    <2>3. PICK behind : last' = <<"sent", At(p, n, behind)>>
      BY <1>6, <2>2 DEF WriteFd
    <2>4. SendFits(At(p, n, behind))
      BY <2>3
    <2>5. Len(At(p, n, behind)) = n
      BY <2>1 DEF At
    <2>6. Fifo!Send(n) /\ n \in 0..Len(Unread)
      BY <2>1, <2>2, <2>3, <2>4, <2>5, WriteFdIsSend
    <2> QED
      BY <2>6 DEF Fifo!Next
  <1> QED
    BY <1>2, <1>3, <1>4, <1>5, <1>6 DEF Next

(* Through every wrap of the positions and of the counters, and for every  *)
(* size and content, the ring is a bounded first-in first-out queue, apart *)
(* from the two exceptions that FifoSteps names.                           *)
THEOREM RingIsFifo == Spec => FifoSteps
  <1>1. RingInv /\ RingInv' /\ [Next]_vars =>
          [/\ Intact
           /\ last'[1] = "recv" => ReadFits(last'[2])
           /\ last'[1] = "sent" => SendFits(last'[2])
           => [Fifo!Next]_(Fifo!vars)]_vars
    BY RingStepIsFifoStep
  <1> QED
    BY <1>1, RingInvariant, PTL DEF Spec, FifoSteps

-----------------------------------------------------------------------------
(* The ring keeps to its memory.                                           *)

(* Taking n more bytes, no more than there is room for, leaves an intact   *)
(* ring.                                                                   *)
LEMMA TakeStaysIntact ==
  ASSUME RingInv, Intact, NEW n \in Nat, GetReadableLen + n <= bufferSize,
         write' = Wrap(write + n), read' = read, bufferSize' = bufferSize
  PROVE  Intact'
  <1>1. PICK w, r, d, v, e : /\ w = write /\ r = read /\ d = GetReadableLen
                             /\ v = write' /\ e = GetReadableLen'
    OBVIOUS
  <1>2. /\ w \in 0..(Modulus - 1) /\ r \in 0..(Modulus - 1)
        /\ d = (w + Modulus - r) % Modulus /\ v = Wrap(w + n)
        /\ e = (v + Modulus - r) % Modulus
    BY <1>1, RingTypes DEF GetReadableLen, Modulus
  <1>3. d + n < Modulus
    BY <1>1, RingNumbers
  <1>4. e = d + n
    BY <1>2, <1>3, AdvanceWrite
  <1> QED
    BY <1>1, <1>4 DEF Intact

(* Reading n of the unread bytes leaves an intact ring.                    *)
LEMMA ReadStaysIntact ==
  ASSUME RingInv, Intact, NEW n \in Nat, n <= GetReadableLen,
         read' = Wrap(read + n), write' = write, bufferSize' = bufferSize
  PROVE  Intact'
  <1>1. PICK w, r, d, v, e : /\ w = write /\ r = read /\ d = GetReadableLen
                             /\ v = read' /\ e = GetReadableLen'
    OBVIOUS
  <1>2. /\ w \in 0..(Modulus - 1) /\ r \in 0..(Modulus - 1)
        /\ d = (w + Modulus - r) % Modulus /\ v = Wrap(r + n)
        /\ e = (w + Modulus - v) % Modulus
    BY <1>1, RingTypes DEF GetReadableLen, Modulus
  <1>3. n <= d
    BY <1>1
  <1>4. e = d - n
    BY <1>2, <1>3, AdvanceRead
  <1>5. bufferSize \in Nat /\ d \in Nat /\ d <= bufferSize
    BY <1>1, RingNumbers DEF Intact
  <1> QED
    BY <1>1, <1>4, <1>5 DEF Intact

(* writeBuffer cuts what it takes of an intact ring to the room there is,  *)
(* so that neither memcpy reaches behind the buffer.                       *)
LEMMA WriteBytesFits ==
  ASSUME RingInv, Intact, buffer # NoBuffer, NEW f, NEW s \in Seq(Bytes), WriteBytes(f, s)
  PROVE  /\ ~ overrun'
         /\ read' = read /\ bufferSize' = bufferSize => Intact'
  <1>1. PICK n, taken : n = Least(Len(s), GetRemainLen) /\ taken = SubSeq(s, 1, n)
    OBVIOUS
  <1>2. /\ bufferSize \in Nat \ {0} /\ write \in Nat
        /\ GetReadableLen \in Nat /\ GetReadableLen <= bufferSize
        /\ GetRemainLen = bufferSize - GetReadableLen /\ GetRemainLen \in Nat
        /\ Len(s) \in Nat
    BY BufferHasSize, RingTypes, RingNumbers, RoomLeft, LenProperties DEF Intact
  <1>3. n \in Nat /\ n <= Len(s) /\ GetReadableLen + n <= bufferSize /\ n <= bufferSize
    BY <1>1, <1>2 DEF Least
  <1>4. Len(taken) = n
    BY <1>1, <1>3, PartIs
  <1>5. overrun' = Overruns(taken) /\ write' = Wrap(write + n)
    BY <1>1, <1>4 DEF WriteBytes
  <1>6. ToEnd(write) \in Nat
    <2>1. \A x \in Nat, b \in Nat \ {0} : b - (x % b) \in Nat
      OBVIOUS
    <2> QED
      BY <1>2, <2>1 DEF ToEnd, Position
  <1>7. ~ Overruns(taken)
    BY <1>2, <1>3, <1>4, <1>6 DEF Overruns
  <1>8. ASSUME read' = read, bufferSize' = bufferSize
        PROVE  Intact'
    BY <1>3, <1>5, <1>8, TakeStaysIntact
  <1> QED
    BY <1>5, <1>7, <1>8

(* Every step from an intact ring writes inside its memory, and leaves it  *)
(* intact unless readFd has taken more than is free.                       *)
LEMMA StepStaysInside ==
  ASSUME RingInv, RingInv', Next, Intact
  PROVE  /\ ~ overrun'
         /\ Intact' \/ (last'[1] = "recv" /\ ~ ReadFits(last'[2]))
  <1>1. ~ overrun
    BY DEF Next
  <1>2. ASSUME UNCHANGED ring, overrun' = overrun
        PROVE  ~ overrun' /\ Intact'
    BY <1>1, <1>2 DEF ring, Intact, GetReadableLen, Modulus
  <1>3. ASSUME Block
        PROVE  ~ overrun' /\ Intact'
    BY <1>2, <1>3 DEF Block
  <1>4. CASE (\E size \in Sizes : InitBuffer(size)) \/ FreeBuffer \/ ResetBuffer
    <2>1. write' = 0 /\ read' = 0 /\ overrun' = overrun
      BY <1>4 DEF InitBuffer, FreeBuffer, ResetBuffer
    <2>2. bufferSize' \in 0..Modulus
      BY DEF RingInv, TypeOK, Modulus
    <2>3. GetReadableLen' = 0
      <3>1. \A m \in Nat \ {0} : (0 + m - 0) % m = 0
        OBVIOUS
      <3> QED
        BY <2>1, <3>1, ModulusPositive DEF GetReadableLen, Modulus
    <2> QED
      BY <1>1, <2>1, <2>2, <2>3 DEF Intact
  <1>5. ASSUME NEW s \in Inputs, WriteBuffer(s)
        PROVE  ~ overrun' /\ Intact'
    <2>1. s \in Seq(Bytes) /\ buffer # NoBuffer
      BY <1>5, InputsAreBytes DEF WriteBuffer
    <2>2. CASE ~ Block
      <3>1. WriteBytes(buffer, s) /\ bufferSize' = bufferSize /\ read' = read
        BY <1>5, <2>2 DEF WriteBuffer
      <3> QED
        BY <2>1, <3>1, WriteBytesFits
    <2> QED
      BY <1>3, <2>2
  <1>6. ASSUME NEW s \in Inputs, ReadFd(s), ~ Block
        PROVE  /\ ~ overrun'
               /\ Intact' \/ (last'[1] = "recv" /\ ~ ReadFits(last'[2]))
    <2>1. s \in Seq(Bytes) /\ buffer # NoBuffer /\ Len(s) \in Nat
      BY <1>6, InputsAreBytes, LenProperties DEF ReadFd
    <2>2. /\ UNCHANGED <<bufferSize, read>> /\ last' = <<"recv", s>>
      BY <1>6 DEF ReadFd
    <2>3. /\ bufferSize \in Nat \ {0} /\ ToEnd(write) \in Nat
          /\ GetReadableLen \in Nat /\ GetRemainLen \in Nat
          /\ GetRemainLen = bufferSize - GetReadableLen
      <3>1. bufferSize \in Nat \ {0} /\ write \in Nat
        BY <2>1, BufferHasSize, RingTypes
      <3>2. \A x \in Nat, b \in Nat \ {0} : b - (x % b) \in Nat
        OBVIOUS
      <3> QED
        BY <3>1, <3>2, RingNumbers, RoomLeft DEF ToEnd, Position
    <2>4. CASE Len(s) <= ToEnd(write)
      <3>1. write' = Wrap(write + Len(s)) /\ overrun' = overrun
        BY <1>6, <2>1, <2>3, <2>4 DEF ReadFd
      <3>2. ASSUME ReadFits(s)
            PROVE  Intact'
        <4>1. GetReadableLen + Len(s) <= bufferSize
          BY <2>1, <2>3, <3>2 DEF ReadFits, Least
        <4> QED
          BY <2>1, <2>2, <3>1, <4>1, TakeStaysIntact
      <3> QED
        BY <1>1, <2>2, <3>1, <3>2
    <2>5. CASE Len(s) > ToEnd(write)
      <3>1. ~ ReadFits(s)
        BY <2>1, <2>3, <2>5 DEF ReadFits, Least
      <3>2. PICK f, t :
              /\ f = Copy(buffer, Position(write), SubSeq(s, 1, Least(Len(s), ToEnd(write))))
              /\ t = SubSeq(s, ToEnd(write) + 1, Len(s))
        OBVIOUS
      <3>3. WriteBytes(f, t)
        <4>1. ~ (Len(s) <= ToEnd(write))
          BY <2>1, <2>3, <2>5
        <4> QED
          BY <1>6, <3>2, <4>1 DEF ReadFd
      <3>4. t \in Seq(Bytes)
        BY <2>1, <2>3, <2>5, <3>2, PartIs
      <3>5. ~ overrun'
        BY <2>1, <3>3, <3>4, WriteBytesFits
      <3> QED
        BY <2>2, <3>1, <3>5
    <2> QED
      BY <2>1, <2>3, <2>4, <2>5
  <1>7. ASSUME NEW n \in 1..MaxLen, ReadBuffer(n)
        PROVE  ~ overrun' /\ Intact'
    <2>1. n \in Nat
      BY KfifoAssumption
    <2>2. CASE ~ Block
      <3>1. PICK size : size = Least(n, GetReadableLen)
        OBVIOUS
      <3>2. /\ read' = Wrap(read + size) /\ overrun' = overrun
            /\ bufferSize' = bufferSize /\ write' = write
        BY <1>7, <2>2, <3>1 DEF ReadBuffer
      <3>3. size \in Nat /\ size <= GetReadableLen
        BY <2>1, <3>1, RingNumbers DEF Least
      <3> QED
        BY <1>1, <3>2, <3>3, ReadStaysIntact
    <2> QED
      BY <1>3, <2>2
  <1>8. ASSUME NEW n \in 1..MaxLen, WriteFd(n)
        PROVE  ~ overrun' /\ Intact'
    BY <1>2, <1>8 DEF WriteFd
  <1> QED
    BY <1>3, <1>4, <1>5, <1>6, <1>7, <1>8 DEF Next

(* For any width, size and content, no operation on an intact ring writes  *)
(* behind its memory, and only a readFd that takes more than is free       *)
(* leaves a ring that is not intact.                                       *)
THEOREM RingWritesInside == Spec => WritesInside
  <1>1. RingInv /\ RingInv' /\ [Next]_vars =>
          [Intact => /\ ~ overrun'
                     /\ Intact' \/ (last'[1] = "recv" /\ ~ ReadFits(last'[2]))]_vars
    BY StepStaysInside
  <1> QED
    BY <1>1, RingInvariant, PTL DEF Spec, WritesInside
=============================================================================
