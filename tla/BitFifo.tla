------------------------------ MODULE BitFifo ------------------------------
(***************************************************************************)
(* The circular bit buffer of libraries/datastruct/bitfifo/bitfifo.c.      *)
(*                                                                         *)
(* The buffer is an array of words of Width bits, numbered from bit 0 of   *)
(* word 0; head and tail are bit offsets into it.  nbits is one more than  *)
(* the capacity, so that a full fifo is not an empty one.  Offsets are     *)
(* unsigned ints and lengths are size_ts, which are wider on a 64-bit      *)
(* target: the check for room mixes the two.                               *)
(***************************************************************************)
EXTENDS Integers, SequencesExt

CONSTANTS
  Capacity,      \* the argument of bitfifo_create
  Width,         \* BITFIFOT_WIDTH
  UIntModulus,   \* UINT_MAX + 1
  SizeModulus,   \* SIZE_MAX + 1
  Offsets,       \* the values of newbitsoffset clients pass
  WriteLengths,  \* the values of nnewbits clients pass
  Reads          \* the values of noutbits clients pass

ASSUME BufferAssumption ==
  /\ Capacity \in Nat \ {0}
  /\ Width \in Nat \ {0}
ASSUME ModulusAssumption ==
  /\ UIntModulus \in Nat /\ UIntModulus > 2 * (Capacity + 1)
  /\ SizeModulus \in Nat
  /\ SizeModulus = UIntModulus \/ SizeModulus >= 2 * UIntModulus
ASSUME ClientAssumption ==
  /\ Offsets \subseteq 0 .. Width - 1
  /\ WriteLengths \subseteq 0 .. Capacity + 1
  /\ Reads \subseteq 0 .. Capacity + 1

VARIABLES
  head,    \* fifo->head: where the next bit is put
  tail,    \* fifo->tail: where the next bit is taken
  buffer,  \* fifo->buffer
  reply,   \* the last call's result and the bits it returned
  overrun  \* a bitcpy was asked for a "negative" length: undefined

vars == <<head, tail, buffer, reply, overrun>>

Bit == {0, 1}
nbits == Capacity + 1                                 \* fifo->nbits
BufferBits == ((nbits + Width - 1) \div Width) * Width

Reply(result, bits) == [result |-> result, bits |-> bits]
NoReply == Reply("none", <<>>)

Lesser(m, n) == IF m < n THEN m ELSE n

-----------------------------------------------------------------------------
(* bitcpy: memcpy for bits. *)

\* The bits that are copied, relative to the start of the first word.  With
\* equal offsets that are not 0 the first word is masked to its end, the
\* offset (not what is left of the word) is taken from the length, and the
\* rest is copied to the same word once more.
CopiedBits(dstoff, srcoff, n) ==
  IF n > 0 /\ dstoff = srcoff /\ dstoff # 0
  THEN (dstoff .. Width - 1) \cup (0 .. n - dstoff - 1)
  ELSE dstoff .. dstoff + n - 1

\* nbits -= dstbitoff wraps.
Overruns(dstoff, srcoff, n) ==
  n > 0 /\ dstoff = srcoff /\ n < dstoff

bitcpy(dst, dstat, src, srcat, n) ==
  LET dstoff == dstat % Width
      base   == dstat - dstoff
      copied == {base + i : i \in CopiedBits(dstoff, srcat % Width, n)}
  IN  [i \in DOMAIN dst |-> IF i \in copied THEN src[i - dstat + srcat] ELSE dst[i]]

\* A client's words: the bits at the offset, and 0s about them.
Words(bits, offset) ==
  [i \in 0 .. 2 * Width + BufferBits |->
     IF i - offset \in 0 .. Len(bits) - 1 THEN bits[i - offset + 1] ELSE 0]

-----------------------------------------------------------------------------

Init ==
  /\ head = 0
  /\ tail = 0
  /\ buffer = [i \in 0 .. BufferBits - 1 |-> 0]
  /\ reply = NoReply
  /\ overrun = FALSE

bitfifo_used == IF head >= tail THEN head - tail ELSE head + nbits - tail
bitfifo_full == (head + 1) % nbits = tail
bitfifo_empty == head = tail

Refused(result) ==
  /\ reply' = Reply(result, <<>>)
  /\ UNCHANGED <<head, tail, buffer, overrun>>

-----------------------------------------------------------------------------
(* bitfifo_enqueue. *)

\* The gap, less the one unused bit before tail.  The mutant uses that bit.
Gap_OffByOne == tail - head
Gap == tail - 1 - head

\* head < tail: one gap, between them.
EnqueueBetween(bits, offset) ==
  LET n == Len(bits)
  IN  IF Gap < n
      THEN Refused("FULL")
      ELSE /\ buffer' = bitcpy(buffer, head, Words(bits, offset), offset, n)
           /\ overrun' = (overrun \/ Overruns(head % Width, offset, n))
           /\ head' = head + n
           /\ reply' = Reply("OK", <<>>)
           /\ UNCHANGED tail

\* Where head moves when it may pass the end.  The mutant does not wrap.
NextHead_NoWrap(n) == head + n
NextHead(n) == (head + n) % nbits

\* head >= tail: a gap from head to the end and a gap before tail.
EnqueueAround(bits, offset) ==
  LET n           == Len(bits)
      spareahead  == nbits - head
      sparebehind == (tail - 1) % UIntModulus
      ahead       == Lesser(n, spareahead)
      src         == Words(bits, offset)
      filled      == bitcpy(buffer, head, src, offset, ahead)
  IN  IF (spareahead + sparebehind) % SizeModulus < n
      THEN Refused("FULL")
      ELSE /\ buffer' = bitcpy(filled, 0, src, offset + ahead, n - ahead)
           /\ overrun' = (overrun \/ Overruns(head % Width, offset, ahead))
           /\ head' = NextHead(n)
           /\ reply' = Reply("OK", <<>>)
           /\ UNCHANGED tail

Enqueue(bits, offset) ==
  IF bitfifo_full THEN Refused("FULL")
  ELSE IF head < tail THEN EnqueueBetween(bits, offset)
  ELSE EnqueueAround(bits, offset)

-----------------------------------------------------------------------------
(* bitfifo_dequeue. *)

\* The bits in the client's word array, which starts out as 0s.
Returned(out, n) == [i \in 1 .. n |-> out[i - 1]]
NoBits == [i \in 0 .. 2 * Width + BufferBits |-> 0]

\* An emptied fifo starts again from offset 0.
Advance(newtail) ==
  IF newtail = head
  THEN head' = 0 /\ tail' = 0
  ELSE tail' = newtail /\ UNCHANGED head

\* head < tail: what lies from tail to the end, then what lies before head.
\* The second copy reads from tail too (what lies past the buffer counts as
\* 0s here).
DequeueAround(n) ==
  LET atTail == Lesser(n, nbits - tail)
      rest   == n - atTail
      first  == bitcpy(NoBits, 0, buffer, tail, atTail)
      copied == [i \in 0 .. BufferBits + Width |->
                   IF i < BufferBits THEN buffer[i] ELSE 0]
      second == bitcpy(first, atTail, copied, tail, rest)
  IN  IF (nbits - tail) + head < n
      THEN Refused("INSUFFICIENT")
      ELSE /\ reply' = Reply("OK", Returned(second, n))
           /\ overrun' = (overrun \/ Overruns(atTail % Width, tail % Width, rest))
           /\ Advance((tail + n) % nbits)
           /\ UNCHANGED buffer

\* head >= tail: what lies between them.
DequeueBetween(n) ==
  IF n > head - tail
  THEN Refused("INSUFFICIENT")
  ELSE /\ reply' = Reply("OK", Returned(bitcpy(NoBits, 0, buffer, tail, n), n))
       /\ Advance(tail + n)
       /\ UNCHANGED <<buffer, overrun>>

Dequeue(n) ==
  IF bitfifo_empty THEN Refused("EMPTY")
  ELSE IF head < tail THEN DequeueAround(n)
  ELSE DequeueBetween(n)

Clear ==
  /\ head' = 0
  /\ tail' = 0
  /\ reply' = NoReply
  /\ UNCHANGED <<buffer, overrun>>

-----------------------------------------------------------------------------

Writes == UNION {[1 .. n -> Bit] : n \in WriteLengths}

Next ==
  \/ \E bits \in Writes, offset \in Offsets : Enqueue(bits, offset)
  \/ \E n \in Reads : Dequeue(n)
  \/ Clear

Spec == Init /\ [][Next]_vars

-----------------------------------------------------------------------------
(* The steps that three faults of the code leave alone. *)

\* The first word that bitcpy writes is not masked, or nothing is written.
FirstWordWhole(bits, offset) ==
  bits = <<>> \/ offset = 0 \/ offset # head % Width

\* With tail at 0 a wide size_t counts the room behind as 2^32 - 1 bits: then
\* there is room, or the fifo is full and that is not asked.
RoomIsThere(bits) ==
  \/ SizeModulus = UIntModulus \/ tail # 0 \/ bitfifo_full
  \/ bitfifo_used + Len(bits) <= Capacity

\* A read does not go on at the front of the buffer, or is refused.
ReadIsWhole(n) == head >= tail \/ n <= nbits - tail \/ n > bitfifo_used

SoundNext ==
  \/ \E bits \in Writes, offset \in Offsets :
       /\ FirstWordWhole(bits, offset) /\ RoomIsThere(bits)
       /\ Enqueue(bits, offset)
  \/ \E n \in Reads : ReadIsWhole(n) /\ Dequeue(n)
  \/ Clear

SoundSpec == Init /\ [][SoundNext]_vars

-----------------------------------------------------------------------------
(* Properties. *)

\* The offsets stay inside the buffer and a reply carries bits.
TypeOK ==
  /\ head \in 0 .. nbits - 1
  /\ tail \in 0 .. nbits - 1
  /\ buffer \in [0 .. BufferBits - 1 -> Bit]
  /\ reply.result \in {"none", "OK", "FULL", "EMPTY", "INSUFFICIENT"}
  /\ reply.bits \in Seq(Bit)
  /\ overrun \in BOOLEAN

\* "fifo will reject attempts to store more bits than there is space for"
\* (bitfifo.h): no write leaves less in the fifo than there was before it.
RejectsOverfull ==
  [][(reply'.result = "OK" /\ reply'.bits = <<>> /\ tail' = tail)
        => bitfifo_used' >= bitfifo_used]_vars

\* The fifo is the queue of BitQueue: bits leave it in the order they
\* entered, and a call is refused when and only when the queue refuses it.  No
\* copy of bits ("memcpy() for bit-sized regions", bitcpy) is longer than asked.
Queue == INSTANCE BitQueue WITH
  queue <- [i \in 1 .. bitfifo_used |-> buffer[(tail + i - 1) % nbits]]

IsQueue == Queue!Spec /\ [](~ overrun)

=============================================================================
