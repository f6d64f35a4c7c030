------------------------------- MODULE Kfifo -------------------------------
(***************************************************************************)
(* The ring buffer of a connection (src/mymuduo/kfifo.cpp).  write and     *)
(* read are unsigned counters that only grow, modulo 2^Width; a position   *)
(* in the buffer is a counter modulo bufferSize, a power of two.           *)
(*                                                                         *)
(* Every operation holds the mutex, except the body of readFd and writeFd. *)
(* writeBuffer and readBuffer call getRemainLen and getReadableLen, which  *)
(* lock it a second time.  For a std::mutex that is undefined: the thread  *)
(* blocks for ever, as it does with glibc's default mutex, or the second   *)
(* lock is granted.  The model allows both.                                *)
(*                                                                         *)
(* readFd does not look at how much is unread.  Once it has overfilled the *)
(* ring, getRemainLen underflows and writeBuffer may write behind the heap *)
(* block.  What the program does after that is undefined: the model ends.  *)
(***************************************************************************)
EXTENDS Naturals, Sequences

CONSTANTS
  Bytes,          \* values of a byte, 0 among them
  Width,          \* bits of uint32_t
  Sizes,          \* sizes passed to initBuffer
  MaxLen,         \* bound on the length of a read, a write or a message
  ExtraSize       \* sizeof extrabuf

ASSUME KfifoAssumption ==
  /\ 0 \in Bytes
  /\ Width \in Nat \ (0..2)
  /\ Sizes \subseteq 0..2^(Width - 1)
  /\ {MaxLen, ExtraSize} \subseteq Nat

VARIABLES
  buffer,         \* the allocated bytes, from position 0
  bufferSize,
  write, read,
  blocked,        \* the calling thread waits for a mutex that it holds
  overrun,        \* a memcpy has written behind the allocated bytes
  asked,          \* history: the argument of the last initBuffer
  last            \* history: the last call and its bytes

ring == <<buffer, bufferSize, write, read>>
vars == <<ring, blocked, overrun, asked, last>>

Modulus == 2^Width
Inputs == UNION {[1..n -> Bytes] : n \in 1..MaxLen}

TypeOK ==
  /\ bufferSize \in 0..Modulus
  /\ buffer \in [0..(bufferSize - 1) -> Bytes]
  /\ {write, read} \subseteq 0..(Modulus - 1)
  /\ blocked \in BOOLEAN
  /\ overrun \in BOOLEAN
  /\ asked \in Sizes \cup {0}
  /\ last \in {"none", "renew", "put", "recv", "get", "sent"} \X Seq(Bytes)

NoBuffer == [p \in {} |-> 0]

Init ==
  /\ buffer = NoBuffer
  /\ bufferSize = 0
  /\ write = 0
  /\ read = 0
  /\ blocked = FALSE
  /\ overrun = FALSE
  /\ asked = 0
  /\ last = <<"none", << >>>>

-----------------------------------------------------------------------------
Least(a, b) == IF a < b THEN a ELSE b

Wrap(i) == i % Modulus

IsPowerOfTwo(n) == \E i \in 0..Width : n = 2^i

\* The number of right shifts that bring n to zero.
Shifts(n) == CHOOSE i \in 0..Width : n < 2^i /\ (i = 0 \/ 2^(i - 1) <= n)

\* A rounding that stops one shift early.
RoundDown(size) ==
  IF IsPowerOfTwo(size) THEN size
  ELSE 2^(Shifts(IF size < 2 THEN 2 ELSE size) - 1)

\* The size that initBuffer allocates.
RoundUp(size) ==
  IF IsPowerOfTwo(size) THEN size
  ELSE 2^Shifts(IF size < 2 THEN 2 ELSE size)

GetReadableLen == (write + Modulus - read) % Modulus
GetRemainLen == (bufferSize + Modulus - GetReadableLen) % Modulus

\* Where a counter points, and how much fits from there to the end.
Position(i) == i % bufferSize
ToEnd(i) == bufferSize - Position(i)

\* The allocated bytes b after memcpy of the bytes s to position p.  What of s would
\* lie behind them is not part of b; Overruns tells whether there is any.
Copy(b, p, s) ==
  [q \in DOMAIN b |-> IF q >= p /\ q < p + Len(s) THEN s[q - p + 1] ELSE b[q]]

\* Both memcpys of writeBuffer into b, for bytes that have been cut to what fits.
Store(b, s) ==
  LET len == Least(Len(s), ToEnd(write))
      toEnd == Copy(b, Position(write), SubSeq(s, 1, len))
  IN  Copy(toEnd, 0, SubSeq(s, len + 1, Len(s)))

\* The second memcpy of writeBuffer, of what the first one left to the start of the
\* buffer, reaches behind the allocated bytes.
Overruns(s) == Len(s) > ToEnd(write) + bufferSize

\* Possible contents of the memory behind the buffer, up to position n - 1.
Behind(n) == [bufferSize..(n - 1) -> Bytes]

\* The n bytes at position p of memory, which may reach behind the buffer.
At(p, n, behind) ==
  [k \in 1..n |-> IF p + k - 1 < bufferSize THEN buffer[p + k - 1] ELSE behind[p + k - 1]]

\* The n bytes from counter i on, as readBuffer's two memcpys collect them.
Load(i, n, behind) ==
  LET len == Least(n, ToEnd(i))
  IN  At(Position(i), len, behind) \o At(0, n - len, behind)

-----------------------------------------------------------------------------
InitBuffer(size) ==
  /\ bufferSize' = RoundUp(size)
  /\ buffer' = [p \in 0..(bufferSize' - 1) |-> 0]
  /\ write' = 0
  /\ read' = 0
  /\ asked' = size
  /\ last' = <<"renew", << >>>>
  /\ UNCHANGED <<blocked, overrun>>

FreeBuffer ==
  /\ buffer' = NoBuffer
  /\ bufferSize' = 0
  /\ write' = 0
  /\ read' = 0
  /\ asked' = 0
  /\ last' = <<"renew", << >>>>
  /\ UNCHANGED <<blocked, overrun>>

ResetBuffer ==
  /\ buffer' = [p \in DOMAIN buffer |-> 0]
  /\ write' = 0
  /\ read' = 0
  /\ last' = <<"renew", << >>>>
  /\ UNCHANGED <<bufferSize, blocked, overrun, asked>>

\* The thread waits for the mutex that it holds.
Block ==
  /\ blocked' = TRUE
  /\ UNCHANGED <<ring, overrun, asked, last>>

\* A writeBuffer that does not look at how much is unread.
WriteOverfull(b, s) ==
  LET taken == SubSeq(s, 1, Least(Len(s), bufferSize))
  IN  /\ buffer' = Store(b, taken)
      /\ overrun' = Overruns(taken)
      /\ write' = Wrap(write + Len(taken))

\* A writeBuffer that takes whatever it is given.
WriteUnchecked(b, s) ==
  /\ buffer' = Store(b, s)
  /\ overrun' = Overruns(s)
  /\ write' = Wrap(write + Len(s))

\* What writeBuffer does with bytes s and memory b, past the second lock.
WriteBytes(b, s) ==
  LET taken == SubSeq(s, 1, Least(Len(s), GetRemainLen))
  IN  /\ buffer' = Store(b, taken)
      /\ overrun' = Overruns(taken)
      /\ write' = Wrap(write + Len(taken))

\* writeBuffer; without a buffer it returns -1.
WriteBuffer(s) ==
  /\ buffer # NoBuffer
  /\ \/ Block
     \/ /\ WriteBytes(buffer, s)
        /\ UNCHANGED <<bufferSize, read, blocked, asked>>
        /\ last' = <<"put", s>>

\* readBuffer asked for n bytes.  When readFd has overfilled the ring, it may read
\* beyond the end of the buffer.
ReadBuffer(n) ==
  LET size == Least(n, GetReadableLen)
  IN  /\ buffer # NoBuffer
      /\ \/ Block
         \/ /\ read' = Wrap(read + size)
            /\ UNCHANGED <<buffer, bufferSize, write, blocked, overrun, asked>>
            /\ \E behind \in Behind(size) : last' = <<"get", Load(read, size, behind)>>

\* readFd, when readv yields the bytes s: into the ring up to its end, the others
\* into extrabuf, and from there to writeBuffer.
ReadFd(s) ==
  LET room == ToEnd(write)
      filled == Copy(buffer, Position(write), SubSeq(s, 1, Least(Len(s), room)))
      done == UNCHANGED <<bufferSize, read, blocked, asked>> /\ last' = <<"recv", s>>
  IN  /\ buffer # NoBuffer
      /\ Len(s) <= room + (IF room < ExtraSize THEN ExtraSize ELSE 0)
      /\ \/ /\ Len(s) <= room
            /\ buffer' = filled
            /\ write' = Wrap(write + Len(s))
            /\ UNCHANGED overrun
            /\ done
         \/ /\ Len(s) > room
            /\ Block \/ (WriteBytes(filled, SubSeq(s, room + 1, Len(s))) /\ done)

\* writeFd, when write() takes n bytes: contiguous ones, which may lie behind the
\* end of the buffer.  read is not moved.
WriteFd(n) ==
  LET p == Position(read)
  IN  /\ buffer # NoBuffer
      /\ n <= GetReadableLen
      /\ \E behind \in Behind(p + n) : last' = <<"sent", At(p, n, behind)>>
      /\ UNCHANGED <<ring, blocked, overrun, asked>>

Next ==
  /\ ~ blocked /\ ~ overrun
  /\ \/ \E size \in Sizes : InitBuffer(size)
     \/ FreeBuffer
     \/ ResetBuffer
     \/ \E s \in Inputs : WriteBuffer(s) \/ ReadFd(s)
     \/ \E n \in 1..MaxLen : ReadBuffer(n) \/ WriteFd(n)

Spec == Init /\ [][Next]_vars

-----------------------------------------------------------------------------
(* Properties.                                                             *)

\* What is unread lies in the buffer.
Intact == GetReadableLen <= bufferSize

\* The bytes in the ring, oldest first; none if it is not intact.
Unread ==
  IF bufferSize = 0 \/ ~ Intact THEN << >> ELSE Load(read, GetReadableLen, << >>)

Fifo == INSTANCE BoundedFifo
          WITH capacity <- bufferSize, fifo <- Unread, MaxRead <- MaxLen

\* A readFd, taking s, that finds room for s between the write position and the end.
ReadFits(s) == Len(s) <= Least(ToEnd(write), GetRemainLen)

\* A writeFd that sends s, none of it from behind the end of the buffer.
SendFits(s) == Len(s) <= ToEnd(read)

(***************************************************************************)
(* The ring is a bounded FIFO: through every wrap of the positions and of  *)
(* the counters, readBuffer returns exactly the oldest bytes that          *)
(* writeBuffer and readFd took, and writeBuffer takes what there is room   *)
(* for; writeFd sends the oldest bytes and keeps them, so that only a      *)
(* caller that reads them keeps the next writeFd from sending them again.  *)
(* There are two exceptions.  A readFd that gets more than is free before  *)
(* the end of the buffer takes all of that space for writable, unread or   *)
(* not, and puts what does not fit to the old write position.  A writeFd   *)
(* of bytes that wrap around the end sends what lies behind it.            *)
(***************************************************************************)
FifoSteps ==
  [][/\ Intact
     /\ last'[1] = "recv" => ReadFits(last'[2])
     /\ last'[1] = "sent" => SendFits(last'[2])
     => [Fifo!Next]_(Fifo!vars)]_vars

(***************************************************************************)
(* No operation on a ring whose unread bytes lie in the buffer writes      *)
(* behind the allocated bytes, and only a readFd that takes more than is   *)
(* free leaves a ring that no longer holds what is unread: a writeBuffer,  *)
(* of any length and at any wrap of the counters, never starts the         *)
(* underflow of getRemainLen.                                              *)
(***************************************************************************)
WritesInside ==
  [][Intact => /\ ~ overrun'
               /\ Intact' \/ (last'[1] = "recv" /\ ~ ReadFits(last'[2]))]_vars

(***************************************************************************)
(* initBuffer allocates the least power of two that holds what was asked   *)
(* for, so that masking with bufferSize - 1 is a remainder and positions   *)
(* stay continuous when the counters wrap.                                 *)
(***************************************************************************)
LeastPowerOfTwo ==
  asked > 0 => /\ IsPowerOfTwo(bufferSize)
               /\ Modulus % bufferSize = 0
               /\ asked <= bufferSize /\ bufferSize < 2 * asked
=============================================================================
