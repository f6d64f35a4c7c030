---------------------------- MODULE BoundedFifo ----------------------------
(***************************************************************************)
(* What a byte buffer promises (kfifo.h, Buffer.h): a first-in first-out   *)
(* queue of bounded capacity.  A write takes as many bytes as there is     *)
(* room for, from the front of its argument; a read hands out the oldest   *)
(* bytes, as many as were asked for or as there are; writing to a socket   *)
(* sends some of the oldest bytes and leaves them in the queue.            *)
(***************************************************************************)
EXTENDS Naturals, Sequences

CONSTANTS
  Inputs,     \* the byte sequences that a write may be given
  MaxRead     \* the most that a read may ask for

VARIABLES
  capacity,   \* 0 when there is no buffer
  fifo,       \* the bytes written and not read yet, oldest first
  last        \* the last call, with the bytes given to it or handed out by it

vars == <<capacity, fifo, last>>

AtMost(a, b) == IF a < b THEN a ELSE b

Init == capacity \in Nat /\ fifo = << >> /\ last = <<"none", << >>>>

\* The buffer is allocated, emptied or freed.
Renew ==
  /\ capacity' \in Nat
  /\ fifo' = << >>
  /\ last' = <<"renew", << >>>>

Put(s) ==
  /\ fifo' = fifo \o SubSeq(s, 1, AtMost(Len(s), capacity - Len(fifo)))
  /\ last' \in {<<"put", s>>, <<"recv", s>>}
  /\ UNCHANGED capacity

Get(n) ==
  LET k == AtMost(n, Len(fifo))
  IN  /\ last' = <<"get", SubSeq(fifo, 1, k)>>
      /\ fifo' = SubSeq(fifo, k + 1, Len(fifo))
      /\ UNCHANGED capacity

Send(n) ==
  /\ n <= Len(fifo)
  /\ last' = <<"sent", SubSeq(fifo, 1, n)>>
  /\ UNCHANGED <<capacity, fifo>>

Next ==
  \/ Renew
  \/ \E s \in Inputs : Put(s)
  \/ \E n \in 0..MaxRead : Get(n)
  \/ \E n \in 0..Len(fifo) : Send(n)

Spec == Init /\ [][Next]_vars
=============================================================================
