------------------------------- MODULE Buffer -------------------------------
(***************************************************************************)
(* The growing byte buffer (src/mymuduo/Buffer.h, Buffer.cpp): a vector    *)
(* with a reader and a writer index, bytes of which are moved to the front *)
(* or which is enlarged when a write does not fit.                         *)
(***************************************************************************)
EXTENDS Naturals, Sequences

CONSTANTS
  Bytes,          \* values of a byte, 0 among them
  CheapPrepend,   \* kCheapPrepend
  InitialSize,    \* kInitialSize
  ExtraSize,      \* sizeof extrabuf
  MaxLen,         \* bound on the length of one write, read or message
  MaxContent      \* bound on the readable bytes

ASSUME BufferAssumption ==
  /\ 0 \in Bytes
  /\ {CheapPrepend, InitialSize, ExtraSize, MaxLen, MaxContent} \subseteq Nat

VARIABLES
  buffer,         \* m_buffer
  readerIndex,    \* m_readerIndex
  writerIndex,    \* m_writerIndex
  last            \* history: the last call and its bytes

vars == <<buffer, readerIndex, writerIndex, last>>

Inputs == UNION {[1..n -> Bytes] : n \in 1..MaxLen}

TypeOK ==
  /\ buffer \in Seq(Bytes)
  /\ {readerIndex, writerIndex} \subseteq Nat
  /\ CheapPrepend <= readerIndex
  /\ readerIndex <= writerIndex
  /\ writerIndex <= Len(buffer)
  /\ last \in {"none", "put", "recv", "get", "sent"} \X Seq(Bytes)

Zeros(n) == [i \in 1..n |-> 0]

Init ==
  /\ buffer = Zeros(CheapPrepend + InitialSize)
  /\ readerIndex = CheapPrepend
  /\ writerIndex = CheapPrepend
  /\ last = <<"none", << >>>>

-----------------------------------------------------------------------------
ReadableBytes == writerIndex - readerIndex
WritableBytes == Len(buffer) - writerIndex
PrependableBytes == readerIndex

\* The readable bytes.
Peek == SubSeq(buffer, readerIndex + 1, writerIndex)

\* b after a copy of s to offset p.
CopyTo(b, p, s) ==
  [i \in 1..Len(b) |-> IF i > p /\ i <= p + Len(s) THEN s[i - p] ELSE b[i]]

\* An append that enlarges the vector whenever the bytes do not fit.
AppendedGrowing(b, r, w, s) ==
  LET grown == IF Len(s) <= Len(b) - w THEN b
               ELSE b \o Zeros(w + Len(s) - Len(b))
  IN  <<CopyTo(grown, w, s), r, w + Len(s)>>

\* Vector, reader and writer index after appending s to a buffer b with indices
\* r and w.
Appended(b, r, w, s) ==
  LET fits == Len(s) <= Len(b) - w
      grow == (Len(b) - w) + r < Len(s) + CheapPrepend
      moved == CopyTo(b, CheapPrepend, SubSeq(b, r + 1, w))
      space == IF fits THEN <<b, r, w>>
               ELSE IF grow THEN <<b \o Zeros(w + Len(s) - Len(b)), r, w>>
               ELSE <<moved, CheapPrepend, CheapPrepend + (w - r)>>
  IN  <<CopyTo(space[1], space[3], s), space[2], space[3] + Len(s)>>

\* The buffer becomes n, a vector with its two indices.
Become(n) ==
  /\ buffer' = n[1]
  /\ readerIndex' = n[2]
  /\ writerIndex' = n[3]

\* append, with ensureWriteableBytes and makeSpace.
AppendBytes(s) ==
  /\ ReadableBytes + Len(s) <= MaxContent
  /\ Become(Appended(buffer, readerIndex, writerIndex, s))
  /\ last' = <<"put", s>>

\* A retrieve that resets the indices to the start of the vector.
RetrieveToStart(len) ==
  IF len < ReadableBytes
    THEN readerIndex' = readerIndex + len /\ UNCHANGED writerIndex
    ELSE readerIndex' = 0 /\ writerIndex' = 0

\* retrieve; taking everything resets both indices.
Retrieve(len) ==
  IF len < ReadableBytes
    THEN readerIndex' = readerIndex + len /\ UNCHANGED writerIndex
    ELSE readerIndex' = CheapPrepend /\ writerIndex' = CheapPrepend

\* retrieveAsString, retrieveAllAsString: callers ask for no more than there is.
RetrieveAsString(len) ==
  /\ len <= ReadableBytes
  /\ Retrieve(len)
  /\ last' = <<"get", SubSeq(Peek, 1, len)>>
  /\ UNCHANGED buffer

\* writeFd, when write() takes n bytes; it is left to the caller to retrieve them.
WriteFd(n) ==
  /\ n <= ReadableBytes
  /\ last' = <<"sent", SubSeq(Peek, 1, n)>>
  /\ UNCHANGED <<buffer, readerIndex, writerIndex>>

\* A readFd that forgets to move the writer index to the end before it appends.
ReceivedOverlapping(s) ==
  LET filled == CopyTo(buffer, writerIndex, SubSeq(s, 1, WritableBytes))
  IN  IF Len(s) <= WritableBytes
        THEN <<CopyTo(buffer, writerIndex, s), readerIndex, writerIndex + Len(s)>>
        ELSE Appended(filled, readerIndex, writerIndex,
                      SubSeq(s, WritableBytes + 1, Len(s)))

\* The buffer after readFd received s: what fits goes straight into the vector,
\* the rest through extrabuf and append.
Received(s) ==
  LET filled == CopyTo(buffer, writerIndex, SubSeq(s, 1, WritableBytes))
  IN  IF Len(s) <= WritableBytes
        THEN <<CopyTo(buffer, writerIndex, s), readerIndex, writerIndex + Len(s)>>
        ELSE Appended(filled, readerIndex, Len(buffer),
                      SubSeq(s, WritableBytes + 1, Len(s)))

\* readFd; extrabuf is offered to readv while the vector has less room than it.
ReadFd(s) ==
  /\ ReadableBytes + Len(s) <= MaxContent
  /\ Len(s) <= WritableBytes + (IF WritableBytes < ExtraSize THEN ExtraSize ELSE 0)
  /\ Become(Received(s))
  /\ last' = <<"recv", s>>

Next ==
  \/ \E s \in Inputs : AppendBytes(s) \/ ReadFd(s)
  \/ \E len \in 0..MaxLen : RetrieveAsString(len)
  \/ \E n \in 0..MaxContent : WriteFd(n)

Spec == Init /\ [][Next]_vars

-----------------------------------------------------------------------------
(* Properties.                                                             *)

Fifo == INSTANCE BoundedFifo
          WITH capacity <- MaxContent, fifo <- Peek, MaxRead <- MaxLen

(***************************************************************************)
(* Through every move, enlargement and receipt via extrabuf the buffer is  *)
(* a FIFO that takes all bytes given to it: nothing is lost, repeated or   *)
(* reordered.                                                              *)
(***************************************************************************)
ImplementsFifo == Fifo!Spec

(***************************************************************************)
(* The vector does not grow without need: however long the buffer is used, *)
(* it is never larger than twice the most bytes it ever had to hold        *)
(* (or its initial size), plus the reserved space: makeSpace moves bytes   *)
(* to the front rather than enlarge it.                                    *)
(***************************************************************************)
SizeBounded ==
  \/ Len(buffer) <= CheapPrepend + InitialSize
  \/ Len(buffer) <= CheapPrepend + 2 * MaxContent
=============================================================================
