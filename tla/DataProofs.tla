------------------------------ MODULE DataProofs ------------------------------
(***************************************************************************)
(* The components that are all positions and sizes: the bit fifo is        *)
(* a queue of bits for any capacity, word width and lengths of writes; the *)
(* binary search finds what is there in arrays of any length; a cache's    *)
(* block is divided as it should be, whatever its length; streams read on  *)
(* through buffers of any size; vectors of bits are sets of numbers,       *)
(* whatever the width of a word; a vector's elements keep their bytes as   *)
(* their number and their width change.                                    *)
(*                                                                         *)
(* The fifo is a queue but for three faults, each at a step of its own:    *)
(* bitcpy goes wrong where two offsets into words agree and are not 0, a   *)
(* read beyond the end of the buffer goes on at the wrong bit, and a wide  *)
(* size_t makes room where there is none.  SoundSpec has the other steps.  *)
(***************************************************************************)
EXTENDS BitFifo, SequenceLemmas, FiniteSetTheorems

-----------------------------------------------------------------------------
(* bitcpy, where its first word is not masked. *)

LEMMA Division ==
  ASSUME NEW a \in Nat, NEW w \in Nat \ {0}
  PROVE  /\ a \div w \in Nat
         /\ a % w \in 0 .. w - 1
         /\ a = (a \div w) * w + (a % w)
<1>1. a \div w \in Nat
  OBVIOUS
<1>2. a % w \in 0 .. w - 1
  OBVIOUS
<1>3. a = (a \div w) * w + (a % w)
  OBVIOUS
<1> QED BY <1>1, <1>2, <1>3

\* The turn that an offset makes at the end of the buffer.
LEMMA Wraps ==
  ASSUME NEW a \in Nat, NEW w \in Nat \ {0}, a < 2 * w
  PROVE  a % w = IF a < w THEN a ELSE a - w
<1>1. CASE a < w
  BY <1>1
<1>2. CASE a >= w
  BY <1>2
<1> QED BY <1>1, <1>2

\* The buffer is the bits in whole words.
LEMMA RoomForBits == BufferBits \in Nat /\ nbits <= BufferBits
<1> DEFINE a == nbits + Width - 1
           p == (a \div Width) * Width
           r == a % Width
<1>1. a \in Nat /\ Width \in Nat \ {0} /\ a = nbits + Width - 1 /\ nbits \in Nat
  BY BufferAssumption DEF nbits
<1>2. a \div Width \in Nat /\ r \in 0 .. Width - 1 /\ a = p + r
  <2> HIDE DEF a
  <2> QED BY <1>1, Division
<1>3. p \in Nat
  <2> HIDE DEF a
  <2> QED BY <1>1, <1>2
<1>4. BufferBits = p
  BY DEF BufferBits
<1> HIDE DEF a, p, r
<1> QED BY <1>1, <1>2, <1>3, <1>4

\* The first word is not masked.
Unmasked(at, from, n) == n = 0 \/ at % Width # from % Width \/ at % Width = 0

\* dst with n bits of src in it.
CopyOf(dst, at, src, from, n) ==
  [i \in DOMAIN dst |-> IF i \in at .. at + n - 1 THEN src[i - at + from] ELSE dst[i]]

LEMMA Copied ==
  ASSUME NEW dst, NEW src, NEW at \in Nat, NEW from \in Nat, NEW n \in Nat,
         Unmasked(at, from, n)
  PROVE  /\ bitcpy(dst, at, src, from, n) = CopyOf(dst, at, src, from, n)
         /\ ~ Overruns(at % Width, from % Width, n)
<1> DEFINE off == at % Width
           base == at - off
           copied == {base + i : i \in CopiedBits(off, from % Width, n)}
<1>1. off \in Nat /\ base \in Int /\ base + off = at
  BY BufferAssumption
<1>2. CopiedBits(off, from % Width, n) = off .. off + n - 1
  BY DEF CopiedBits, Unmasked
<1>3. ~ Overruns(off, from % Width, n)
  <2>1. CASE n = 0
    BY <2>1 DEF Overruns
  <2>2. CASE at % Width # from % Width
    BY <2>2 DEF Overruns
  <2>3. CASE at % Width = 0
    BY <2>3 DEF Overruns
  <2> QED BY <2>1, <2>2, <2>3 DEF Unmasked
<1> HIDE DEF off, base
<1>4. copied = at .. at + n - 1
  <2>1. ASSUME NEW j \in at .. at + n - 1 PROVE j \in copied
    <3>1. j - base \in off .. off + n - 1 /\ base + (j - base) = j
      BY ONLY <1>1, <2>1, n \in Nat, at \in Nat
    <3> QED BY <1>2, <3>1
  <2>2. ASSUME NEW i \in off .. off + n - 1 PROVE base + i \in at .. at + n - 1
    BY ONLY <1>1, <2>2, n \in Nat, at \in Nat
  <2> QED BY <1>2, <2>1, <2>2
<1>5. bitcpy(dst, at, src, from, n) =
        [i \in DOMAIN dst |-> IF i \in copied THEN src[i - at + from] ELSE dst[i]]
  BY DEF bitcpy, off, base
<1> QED BY <1>3, <1>4, <1>5 DEF off, CopyOf

\* It is not where a client's offset is 0 or another than the one written at.
LEMMA CopiedFromOffset ==
  ASSUME NEW dst, NEW src, NEW at \in Nat, NEW offset \in 0 .. Width - 1, NEW n \in Nat,
         n = 0 \/ offset = 0 \/ offset # at % Width
  PROVE  /\ bitcpy(dst, at, src, offset, n) = CopyOf(dst, at, src, offset, n)
         /\ ~ Overruns(at % Width, offset, n)
<1>1. offset \in Nat /\ offset % Width = offset
  BY BufferAssumption
<1>2. Unmasked(at, offset, n)
  BY <1>1 DEF Unmasked
<1> QED BY <1>1, <1>2, Copied

\* Nor where the copy is to a word's beginning.
LEMMA CopiedToFirst ==
  ASSUME NEW dst, NEW src, NEW from \in Nat, NEW n \in Nat
  PROVE  bitcpy(dst, 0, src, from, n) = CopyOf(dst, 0, src, from, n)
<1>1. 0 % Width = 0 /\ 0 \in Nat
  BY BufferAssumption
<1>2. ASSUME NEW at \in Nat, at = 0
      PROVE  bitcpy(dst, at, src, from, n) = CopyOf(dst, at, src, from, n)
  <2>1. Unmasked(at, from, n)
    BY <1>1, <1>2 DEF Unmasked
  <2> QED BY <2>1, Copied
<1> QED BY <1>1, <1>2

\* What a client's words hold from its offset on.
LEMMA WordsHold ==
  ASSUME NEW bits \in Seq(Bit), Len(bits) <= nbits, NEW offset \in 0 .. Width - 1,
         NEW j \in 0 .. Len(bits) - 1
  PROVE  Words(bits, offset)[offset + j] = bits[j + 1]
<1>1. /\ BufferBits \in Nat /\ nbits <= BufferBits /\ Width \in Nat /\ nbits \in Nat
      /\ Len(bits) \in Nat
  BY RoomForBits, BufferAssumption DEF nbits
<1>2. offset + j \in 0 .. 2 * Width + BufferBits /\ (offset + j) - offset = j
  BY <1>1
<1> QED BY <1>2 DEF Words

-----------------------------------------------------------------------------
(* The bits that are held. *)

Used(h, t) == IF h >= t THEN h - t ELSE h + nbits - t

\* Where the i-th bit from t on lies.
Place(t, i) == IF t + i - 1 < nbits THEN t + i - 1 ELSE t + i - 1 - nbits

Held(h, t, b) == [i \in 1 .. Used(h, t) |-> b[Place(t, i)]]

Offset == 0 .. nbits - 1

LEMMA PlaceIs ==
  ASSUME NEW h \in Offset, NEW t \in Offset, NEW b
  PROVE  /\ Used(h, t) \in 0 .. Capacity
         /\ \A i \in 1 .. nbits : Place(t, i) \in Offset /\ (t + i - 1) % nbits = Place(t, i)
         /\ Held(h, t, b) = [i \in 1 .. Used(h, t) |-> b[(t + i - 1) % nbits]]
<1>1. nbits \in Nat \ {0} /\ nbits = Capacity + 1 /\ t \in Nat /\ t < nbits
  BY BufferAssumption DEF nbits, Offset
<1>2. Used(h, t) \in 0 .. Capacity
  BY <1>1, BufferAssumption DEF Used, Offset
<1>3. ASSUME NEW i \in 1 .. nbits
      PROVE  Place(t, i) \in Offset /\ (t + i - 1) % nbits = Place(t, i)
  <2>1. t + i - 1 \in Nat /\ t + i - 1 < 2 * nbits
    BY <1>1
  <2>2. (t + i - 1) % nbits = Place(t, i)
    <3>1. PICK a : a = t + i - 1
      OBVIOUS
    <3>2. a \in Nat /\ a < 2 * nbits
      BY <2>1, <3>1
    <3>3. a % nbits = IF a < nbits THEN a ELSE a - nbits
      BY <1>1, <3>2, Wraps
    <3>4. Place(t, i) = IF a < nbits THEN a ELSE a - nbits
      <4>1. t \in Int /\ i \in Int /\ nbits \in Int
        BY <1>1
      <4> QED BY <3>1, <4>1 DEF Place
    <3>5. (t + i - 1) % nbits = a % nbits
      BY <3>1, Zenon
    <3> QED BY <3>3, <3>4, <3>5, Zenon
  <2> QED BY <1>1, <2>1, <2>2 DEF Place, Offset
<1>4. \A i \in 1 .. Used(h, t) : i \in 1 .. nbits
  BY <1>1, <1>2, BufferAssumption
<1> QED BY <1>2, <1>3, <1>4 DEF Held

\* The queue of BitQueue, now and after a step.
LEMMA QueueIsHeld ==
  ASSUME TypeOK
  PROVE  [i \in 1 .. bitfifo_used |-> buffer[(tail + i - 1) % nbits]] = Held(head, tail, buffer)
<1>1. head \in Offset /\ tail \in Offset /\ bitfifo_used = Used(head, tail)
  BY DEF TypeOK, Offset, bitfifo_used, Used
<1> QED BY <1>1, PlaceIs

\* The bits held are a sequence, of bits.
LEMMA HeldIsSeq ==
  ASSUME NEW h \in Offset, NEW t \in Offset, NEW b \in [0 .. BufferBits - 1 -> Bit]
  PROVE  /\ Held(h, t, b) \in Seq(Bit)
         /\ Len(Held(h, t, b)) = Used(h, t)
<1>1. /\ Used(h, t) \in 0 .. Capacity
      /\ \A i \in 1 .. nbits : Place(t, i) \in Offset
  BY PlaceIs
<1>2. nbits = Capacity + 1 /\ nbits \in Nat /\ nbits <= BufferBits /\ BufferBits \in Nat
  BY RoomForBits, BufferAssumption DEF nbits
<1>3. ASSUME NEW i \in 1 .. Used(h, t) PROVE b[Place(t, i)] \in Bit
  <2>1. i \in 1 .. nbits
    BY <1>1, <1>2, BufferAssumption
  <2>2. Place(t, i) \in Offset
    BY <1>1, <2>1
  <2>3. Place(t, i) \in 0 .. BufferBits - 1
    BY <1>2, <2>2 DEF Offset
  <2> QED BY <2>3
<1>4. Held(h, t, b) \in [1 .. Used(h, t) -> Bit]
  BY <1>3 DEF Held
<1> QED BY <1>1, <1>4

\* Bits are added to those held.
Adds(h, g, t, b, c, bits) ==
  /\ Used(g, t) = Used(h, t) + Len(bits)
  /\ \A i \in 1 .. Used(h, t) : c[Place(t, i)] = b[Place(t, i)]
  /\ \A j \in 1 .. Len(bits) : c[Place(t, Used(h, t) + j)] = bits[j]

LEMMA MoreHeld ==
  ASSUME NEW h \in Offset, NEW g \in Offset, NEW t \in Offset,
         NEW b \in [0 .. BufferBits - 1 -> Bit], NEW c \in [0 .. BufferBits - 1 -> Bit],
         NEW bits \in Seq(Bit), Adds(h, g, t, b, c, bits)
  PROVE  Held(g, t, c) = Held(h, t, b) \o bits
<1> DEFINE n == Len(bits)
           u == Used(h, t)
           A == Held(h, t, b)
           G == Held(g, t, c)
           C == A \o bits
<1>1. n \in Nat /\ u \in Nat /\ A \in Seq(Bit) /\ Len(A) = u /\ G \in Seq(Bit) /\ Len(G) = u + n
  <2>1. n \in Nat
    OBVIOUS
  <2>2. u \in Nat
    BY PlaceIs, BufferAssumption
  <2>3. A \in Seq(Bit) /\ Len(A) = u
    BY HeldIsSeq
  <2>4. Used(g, t) = u + n
    BY DEF Adds
  <2>5. G \in Seq(Bit) /\ Len(G) = u + n
    BY <2>4, HeldIsSeq
  <2> QED BY <2>1, <2>2, <2>3, <2>5
<1>2. \A i \in 1 .. u : A[i] = b[Place(t, i)]
  BY DEF Held
<1>3. \A i \in 1 .. u + n : G[i] = c[Place(t, i)]
  BY DEF Held, Adds
<1>4. bits \in Seq(Bit) /\ Len(bits) = n
  OBVIOUS
<1>5. /\ \A i \in 1 .. u : c[Place(t, i)] = b[Place(t, i)]
      /\ \A j \in 1 .. n : c[Place(t, u + j)] = bits[j]
  BY DEF Adds
<1> HIDE DEF u, n, A, G
<1>6. /\ C \in Seq(Bit) /\ Len(C) = u + n
      /\ \A i \in 1 .. u + n : C[i] = IF i <= u THEN A[i] ELSE bits[i - u]
  BY <1>1, <1>4, ConcatProperties
<1> HIDE DEF C
<1>7. ASSUME NEW i \in 1 .. u + n PROVE G[i] = C[i]
  <2>0. i \in Nat
    BY <1>1
  <2>1. CASE i <= u
    <3>1. i \in 1 .. u
      BY <1>1, <2>0, <2>1
    <3>2. C[i] = A[i]
      BY <1>6, <2>1
    <3> QED BY <1>2, <1>3, <1>5, <3>1, <3>2
  <2>2. CASE i > u
    <3>1. i - u \in 1 .. n /\ u + (i - u) = i
      BY <1>1, <2>2
    <3>2. c[Place(t, i)] = bits[i - u]
      BY <1>5, <3>1
    <3>3. C[i] = bits[i - u]
      BY <1>1, <1>6, <2>0, <2>2
    <3>4. G[i] = c[Place(t, i)]
      BY <1>3
    <3> QED BY <3>2, <3>3, <3>4
  <2> QED BY <1>1, <2>0, <2>1, <2>2
<1>8. G = C
  BY <1>1, <1>6, <1>7
<1> QED BY <1>8 DEF G, C, A, n

-----------------------------------------------------------------------------
(* The steps: each keeps the type, copies no more than it was asked to and *)
(* is a step of the queue.                                                 *)

Inv == TypeOK /\ ~ overrun

LEMMA Types ==
  ASSUME TypeOK
  PROVE  /\ head \in Offset /\ tail \in Offset
         /\ buffer \in [0 .. BufferBits - 1 -> Bit]
         /\ bitfifo_used = Used(head, tail)
         /\ Used(head, tail) \in 0 .. Capacity
         /\ nbits = Capacity + 1 /\ Capacity \in Nat \ {0}
         /\ BufferBits \in Nat /\ nbits <= BufferBits
BY PlaceIs, RoomForBits, BufferAssumption DEF TypeOK, Offset, bitfifo_used, Used, nbits

\* What a call that is refused leaves.
LEMMA RefusedStep ==
  ASSUME Inv, NEW result \in {"FULL", "EMPTY", "INSUFFICIENT"}, Refused(result)
  PROVE  /\ Inv'
         /\ reply' = Queue!Reply(result, <<>>)
         /\ Held(head, tail, buffer)' = Held(head, tail, buffer)
<1>1. /\ reply' = [result |-> result, bits |-> <<>>]
      /\ UNCHANGED <<head, tail, buffer, overrun>>
  BY DEF Refused, Reply
<1>2. Inv'
  BY <1>1 DEF Inv, TypeOK
<1>3. Held(head, tail, buffer)' = Held(head, tail, buffer)
  BY <1>1
<1> QED BY <1>1, <1>2, <1>3 DEF Queue!Reply

\* The fifo has grown by bits, or refused them as the queue does.
Grown(bits) ==
  /\ reply' = Reply("OK", <<>>)
  /\ head' \in Offset /\ tail' = tail
  /\ buffer' \in [0 .. BufferBits - 1 -> Bit]
  /\ overrun' = FALSE
  /\ Adds(head, head', tail, buffer, buffer', bits)

\* With head before tail the bits go between them.
LEMMA Between ==
  ASSUME Inv, NEW bits \in Seq(Bit), NEW offset \in 0 .. Width - 1, head < tail,
         FirstWordWhole(bits, offset), Len(bits) <= Gap, EnqueueBetween(bits, offset)
  PROVE  Grown(bits)
<1> DEFINE n == Len(bits)
           src == Words(bits, offset)
<1>1. n \in Nat /\ head \in Nat /\ tail \in Nat /\ head < tail /\ tail < nbits
      /\ n <= tail - 1 - head /\ nbits \in Nat /\ nbits <= BufferBits /\ BufferBits \in Nat
      /\ buffer \in [0 .. BufferBits - 1 -> Bit] /\ offset \in Nat
  BY Types, BufferAssumption DEF Inv, Offset, Gap
<1>2. /\ buffer' = bitcpy(buffer, head, src, offset, n)
      /\ overrun' = (overrun \/ Overruns(head % Width, offset, n))
      /\ head' = head + n
      /\ reply' = Reply("OK", <<>>)
      /\ tail' = tail
  <2>1. ~ (Gap < Len(bits))
    BY <1>1 DEF Gap
  <2> QED BY <2>1 DEF EnqueueBetween
<1>3. /\ bitcpy(buffer, head, src, offset, n) = CopyOf(buffer, head, src, offset, n)
      /\ ~ Overruns(head % Width, offset, n)
  <2>1. n = 0 \/ offset = 0 \/ offset # head % Width
    BY DEF FirstWordWhole
  <2> HIDE DEF n, src
  <2> QED BY <1>1, <2>1, CopiedFromOffset
<1>4. ASSUME NEW i \in head .. head + n - 1
      PROVE  src[i - head + offset] = bits[i - head + 1] /\ i - head + 1 \in 1 .. n
  <2>1. PICK j : j = i - head
    OBVIOUS
  <2>2. j \in 0 .. n - 1 /\ n <= nbits /\ i - head + 1 \in 1 .. n
    BY <1>1, <2>1
  <2>3. src[offset + j] = bits[j + 1]
    BY <2>2, WordsHold
  <2>4. i - head + offset = offset + j
    BY <1>1, <2>1, <2>2
  <2> HIDE DEF src
  <2> QED BY <2>1, <2>2, <2>3, <2>4
<1> HIDE DEF src
<1>5. \A i \in 0 .. BufferBits - 1 :
        buffer'[i] = IF i \in head .. head + n - 1 THEN bits[i - head + 1] ELSE buffer[i]
  BY <1>1, <1>2, <1>3, <1>4 DEF CopyOf
<1>6. buffer' \in [0 .. BufferBits - 1 -> Bit]
  <2>1. \A j \in 1 .. n : bits[j] \in Bit
    OBVIOUS
  <2>2. ASSUME NEW i \in 0 .. BufferBits - 1 PROVE buffer'[i] \in Bit
    BY <1>1, <1>4, <1>5, <2>1
  <2>3. buffer' = [i \in 0 .. BufferBits - 1 |-> buffer'[i]]
    BY <1>1, <1>2, <1>3 DEF CopyOf
  <2> QED BY <2>2, <2>3
<1>7. overrun' = FALSE
  BY <1>2, <1>3 DEF Inv, TypeOK
<1>8. Used(head, tail) = head + nbits - tail /\ Used(head', tail) = head + n + nbits - tail
  BY <1>1, <1>2 DEF Used
<1>9. ASSUME NEW i \in 1 .. Used(head, tail)
       PROVE  buffer'[Place(tail, i)] = buffer[Place(tail, i)]
  <2>1. Place(tail, i) \in 0 .. BufferBits - 1 /\ Place(tail, i) \notin head .. head + n - 1
    BY <1>1, <1>8 DEF Place
  <2> QED BY <1>5, <2>1
<1>10. ASSUME NEW j \in 1 .. n
       PROVE  buffer'[Place(tail, Used(head, tail) + j)] = bits[j]
  <2>1. PICK p : p = head + j - 1
    OBVIOUS
  <2>2. Place(tail, Used(head, tail) + j) = p
    BY <1>1, <1>8, <2>1 DEF Place
  <2>3. p \in head .. head + n - 1 /\ p - head + 1 = j /\ p \in 0 .. BufferBits - 1
    BY <1>1, <2>1
  <2>4. buffer'[p] = bits[p - head + 1]
    BY <1>5, <2>3
  <2> QED BY <2>2, <2>3, <2>4
<1>11. head' \in Offset
  BY <1>1, <1>2 DEF Offset
<1>12. Used(head', tail) = Used(head, tail) + n
  BY <1>1, <1>8
<1> QED BY <1>2, <1>6, <1>7, <1>9, <1>10, <1>11, <1>12 DEF Grown, Adds

\* The room found is the room there is, or with tail at 0 and a wide size_t is
\* more than any write: of equal widths both wrap.
LEMMA RoomAround ==
  ASSUME Inv, head >= tail
  PROVE  LET found == ((nbits - head) + ((tail - 1) % UIntModulus)) % SizeModulus
         IN \/ found = nbits - head + tail - 1
            \/ tail = 0 /\ SizeModulus # UIntModulus /\ found > nbits
<1> DEFINE U == UIntModulus
           behind == (tail - 1) % U
           room == nbits - head + tail - 1
<1>1. /\ U \in Nat /\ U > 2 * nbits /\ nbits \in Nat \ {0}
      /\ head \in Nat /\ tail \in Nat /\ head < nbits /\ tail <= head
  BY ModulusAssumption, BufferAssumption, Types DEF Inv, Offset, nbits
<1> HIDE DEF U
<1>0. SizeModulus \in Nat /\ (SizeModulus = U \/ SizeModulus >= 2 * U)
  BY ModulusAssumption DEF U
<1> HIDE DEF U
<1>2. CASE tail = 0
  <2>1. behind = U - 1
    <3>1. (0 - 1) % U = U - 1
      BY ONLY <1>1
    <3> QED BY <1>2, <3>1
  <2>2. (nbits - head) + behind = room + U
    BY ONLY <1>1, <1>2, <2>1
  <2>3. room + U \in Nat /\ ~ (room + U < U) /\ room + U < 2 * U /\ U \in Nat \ {0}
    BY ONLY <1>1, <1>2
  <2>4. (room + U) - U = room /\ room + U > nbits
    BY ONLY <1>1, <1>2
  <2>5. PICK a : a = room + U
    OBVIOUS
  <2>6. CASE SizeModulus = U
    <3>1. a % U = a - U
      BY <2>3, <2>5, Wraps
    <3> QED BY <2>2, <2>4, <2>5, <2>6, <3>1 DEF U
  <2>7. CASE SizeModulus # U
    <3>1. SizeModulus \in Nat \ {0} /\ a < SizeModulus /\ a < 2 * SizeModulus /\ a \in Nat
      <4> HIDE DEF room
      <4> QED BY <1>0, <2>3, <2>5, <2>7
    <3>2. a % SizeModulus = a
      BY <3>1, Wraps
    <3>3. ((nbits - head) + behind) % SizeModulus > nbits
      BY <2>2, <2>4, <2>5, <3>2
    <3> QED BY <1>2, <2>7, <3>3 DEF U
  <2> QED BY <2>6, <2>7
<1>3. CASE tail > 0
  <2>1. behind = tail - 1
    <3>1. tail - 1 \in Nat /\ tail - 1 < U /\ tail - 1 < 2 * U /\ U \in Nat \ {0}
      BY ONLY <1>1, <1>3
    <3> QED BY <3>1, Wraps
  <2>2. (nbits - head) + behind = room
    BY ONLY <1>1, <1>3, <2>1
  <2>3. room \in Nat /\ room < U /\ U \in Nat \ {0}
    BY ONLY <1>1, <1>3
  <2> HIDE DEF room
  <2>4. SizeModulus \in Nat \ {0} /\ room < SizeModulus /\ room < 2 * SizeModulus
    BY <1>0, <2>3
  <2>5. room % SizeModulus = room
    BY <2>3, <2>4, Wraps
  <2> QED BY <2>2, <2>5 DEF U, room
<1> QED BY <1>1, <1>2, <1>3

\* With tail before head, or the two at one place, the bits go behind head and
\* then before tail.
LEMMA Around ==
  ASSUME Inv, NEW bits \in Seq(Bit), NEW offset \in 0 .. Width - 1, head >= tail,
         FirstWordWhole(bits, offset), Len(bits) <= nbits - head + tail - 1,
         EnqueueAround(bits, offset)
  PROVE  Grown(bits)
<1> DEFINE n == Len(bits)
           src == Words(bits, offset)
           ahead == Lesser(n, nbits - head)
           filled == bitcpy(buffer, head, src, offset, ahead)
           rest == n - ahead
<1>1. /\ n \in Nat /\ head \in Nat /\ tail \in Nat /\ tail <= head /\ head < nbits
      /\ n <= nbits - head + tail - 1 /\ nbits \in Nat \ {0} /\ nbits <= BufferBits
      /\ BufferBits \in Nat /\ buffer \in [0 .. BufferBits - 1 -> Bit] /\ offset \in Nat
  BY Types, BufferAssumption DEF Inv, Offset
<1>2. /\ ahead \in Nat /\ rest \in Nat /\ ahead + rest = n /\ head + ahead <= nbits
      /\ rest > 0 => head + ahead = nbits
      /\ rest < tail \/ rest = 0
  BY <1>1 DEF Lesser
<1>3. ~ (((nbits - head) + ((tail - 1) % UIntModulus)) % SizeModulus < n)
  <2>1. PICK found : found = ((nbits - head) + ((tail - 1) % UIntModulus)) % SizeModulus
    OBVIOUS
  <2>2. found = nbits - head + tail - 1 \/ (tail = 0 /\ found > nbits)
    BY <2>1, RoomAround
  <2>3. found \in Int
    BY <1>1, <2>1, ModulusAssumption, BufferAssumption
  <2>4. ~ (found < n)
    BY <1>1, <2>2, <2>3
  <2> QED BY <2>1, <2>4
<1>4. /\ buffer' = bitcpy(filled, 0, src, offset + ahead, rest)
      /\ overrun' = (overrun \/ Overruns(head % Width, offset, ahead))
      /\ head' = NextHead(n)
      /\ reply' = Reply("OK", <<>>)
      /\ tail' = tail
  BY <1>3 DEF EnqueueAround
<1>5. filled = CopyOf(buffer, head, src, offset, ahead) /\ ~ Overruns(head % Width, offset, ahead)
  <2>1. ahead = 0 \/ offset = 0 \/ offset # head % Width
    BY <1>1 DEF FirstWordWhole, Lesser
  <2>2. ahead \in Nat /\ head \in Nat
    BY <1>1, <1>2
  <2> HIDE DEF src, ahead
  <2>3. /\ bitcpy(buffer, head, src, offset, ahead) = CopyOf(buffer, head, src, offset, ahead)
        /\ ~ Overruns(head % Width, offset, ahead)
    BY <2>1, <2>2, CopiedFromOffset
  <2> QED BY <2>3
<1>6. bitcpy(filled, 0, src, offset + ahead, rest) = CopyOf(filled, 0, src, offset + ahead, rest)
  <2>1. offset + ahead \in Nat
    BY <1>1, <1>2
  <2> HIDE DEF src, ahead, filled, rest
  <2> QED BY <1>2, <2>1, CopiedToFirst
<1>7. \A j \in 0 .. n - 1 : src[offset + j] = bits[j + 1]
  <2>1. n <= nbits
    BY <1>1
  <2> QED BY <2>1, WordsHold
<1> HIDE DEF src, ahead, rest
<1>8. /\ DOMAIN filled = 0 .. BufferBits - 1
      /\ \A i \in 0 .. BufferBits - 1 :
           filled[i] = IF i \in head .. head + ahead - 1 THEN src[i - head + offset] ELSE buffer[i]
  BY <1>1, <1>5 DEF CopyOf
<1> HIDE DEF filled, n
<1>9. /\ buffer' = [i \in 0 .. BufferBits - 1 |-> buffer'[i]]
      /\ \A i \in 0 .. BufferBits - 1 :
           buffer'[i] = IF i \in 0 .. 0 + rest - 1 THEN src[i - 0 + (offset + ahead)] ELSE filled[i]
  BY <1>4, <1>6, <1>8 DEF CopyOf
\* Where each bit of the buffer is from.
<1>10. /\ \A i \in head .. head + ahead - 1 : buffer'[i] = bits[i - head + 1]
       /\ \A i \in 0 .. rest - 1 : buffer'[i] = bits[ahead + i + 1]
       /\ \A i \in 0 .. BufferBits - 1 :
            i \notin head .. head + ahead - 1 /\ i \notin 0 .. rest - 1 => buffer'[i] = buffer[i]
  <2>1. ASSUME NEW i \in head .. head + ahead - 1 PROVE buffer'[i] = bits[i - head + 1]
    <3>1. PICK j : j = i - head
      OBVIOUS
    <3>2. i \in 0 .. BufferBits - 1 /\ i \notin 0 .. 0 + rest - 1
          /\ i - head + offset = offset + j /\ j \in 0 .. n - 1
      BY <1>1, <1>2, <3>1
    <3>3. buffer'[i] = src[i - head + offset]
      BY <1>8, <1>9, <2>1, <3>2
    <3> QED BY <1>7, <3>1, <3>2, <3>3
  <2>2. ASSUME NEW i \in 0 .. rest - 1 PROVE buffer'[i] = bits[ahead + i + 1]
    <3>1. PICK j : j = ahead + i
      OBVIOUS
    <3>2. i \in 0 .. BufferBits - 1 /\ i \in 0 .. 0 + rest - 1
          /\ i - 0 + (offset + ahead) = offset + j /\ j \in 0 .. n - 1
      BY <1>1, <1>2, <3>1
    <3>3. buffer'[i] = src[i - 0 + (offset + ahead)]
      BY <1>9, <3>2
    <3> QED BY <1>7, <3>1, <3>2, <3>3
  <2>3. ASSUME NEW i \in 0 .. BufferBits - 1,
               i \notin head .. head + ahead - 1, i \notin 0 .. rest - 1
        PROVE  buffer'[i] = buffer[i]
    <3>1. i \notin 0 .. 0 + rest - 1
      BY <1>2, <2>3
    <3> QED BY <1>8, <1>9, <2>3, <3>1
  <2> QED BY <2>1, <2>2, <2>3
<1>11. buffer' \in [0 .. BufferBits - 1 -> Bit]
  <2>1. \A j \in 1 .. n : bits[j] \in Bit
    BY DEF n
  <2>2. ASSUME NEW i \in 0 .. BufferBits - 1 PROVE buffer'[i] \in Bit
    <3>1. CASE i \in head .. head + ahead - 1
      <4>1. i - head + 1 \in 1 .. n
        BY <1>1, <1>2, <3>1
      <4> QED BY <1>10, <2>1, <3>1, <4>1
    <3>2. CASE i \in 0 .. rest - 1
      <4>1. ahead + i + 1 \in 1 .. n
        BY <1>1, <1>2, <3>2
      <4> QED BY <1>10, <2>1, <3>2, <4>1
    <3>3. CASE i \notin head .. head + ahead - 1 /\ i \notin 0 .. rest - 1
      BY <1>1, <1>10, <3>3
    <3> QED BY <3>1, <3>2, <3>3
  <2> QED BY <1>9, <2>2
<1>12. /\ head' = IF head + n < nbits THEN head + n ELSE head + n - nbits
       /\ head' \in Offset
  <2>1. PICK m : m = head + n
    OBVIOUS
  <2>2. m \in Nat /\ m < 2 * nbits
    BY <1>1, <2>1
  <2>3. m % nbits = IF m < nbits THEN m ELSE m - nbits
    BY <1>1, <2>2, Wraps
  <2>4. head' = m % nbits
    BY <1>4, <2>1 DEF NextHead
  <2> QED BY <1>1, <2>1, <2>2, <2>3, <2>4 DEF Offset
<1>13. Used(head, tail) = head - tail /\ Used(head', tail) = head - tail + n
  BY <1>1, <1>12 DEF Used
<1>14. ASSUME NEW i \in 1 .. Used(head, tail)
       PROVE  buffer'[Place(tail, i)] = buffer[Place(tail, i)]
  <2>1. /\ Place(tail, i) \in 0 .. BufferBits - 1
        /\ Place(tail, i) \notin head .. head + ahead - 1 /\ Place(tail, i) \notin 0 .. rest - 1
    BY <1>1, <1>2, <1>13 DEF Place
  <2> QED BY <1>10, <2>1
<1>15. ASSUME NEW j \in 1 .. n
       PROVE  buffer'[Place(tail, Used(head, tail) + j)] = bits[j]
  <2>1. PICK p : p = Place(tail, Used(head, tail) + j)
    OBVIOUS
  <2>2. CASE j <= ahead
    <3>1. p = head + j - 1 /\ p \in head .. head + ahead - 1 /\ p - head + 1 = j
      BY <1>1, <1>2, <1>13, <2>1, <2>2 DEF Place
    <3>2. buffer'[p] = bits[p - head + 1]
      BY <1>10, <3>1
    <3> QED BY <2>1, <3>1, <3>2
  <2>3. CASE j > ahead
    <3>1. p = j - ahead - 1 /\ p \in 0 .. rest - 1 /\ ahead + p + 1 = j
      BY <1>1, <1>2, <1>13, <2>1, <2>3 DEF Place
    <3>2. buffer'[p] = bits[ahead + p + 1]
      BY <1>10, <3>1
    <3> QED BY <2>1, <3>1, <3>2
  <2> QED BY <1>1, <1>2, <2>2, <2>3
<1>16. overrun' = FALSE
  BY <1>4, <1>5 DEF Inv, TypeOK
<1>17. Used(head', tail) = Used(head, tail) + n
  BY <1>1, <1>13
<1> QED BY <1>4, <1>11, <1>12, <1>14, <1>15, <1>16, <1>17 DEF Grown, Adds, n

\* A step of the queue from q to r.
QueueStep(q, r) ==
  \/ \E bits \in Writes :
       IF Len(q) = Capacity \/ Len(q) + Len(bits) > Capacity
       THEN reply' = Queue!Reply("FULL", <<>>) /\ r = q
       ELSE reply' = Queue!Reply("OK", <<>>) /\ r = q \o bits
  \/ \E n \in Reads :
       \/ q = <<>> /\ reply' = Queue!Reply("EMPTY", <<>>) /\ r = q
       \/ q # <<>> /\ n > Len(q) /\ reply' = Queue!Reply("INSUFFICIENT", <<>>) /\ r = q
       \/ /\ q # <<>> /\ n <= Len(q)
          /\ reply' = Queue!Reply("OK", SubSeq(q, 1, n))
          /\ r = SubSeq(q, n + 1, Len(q))
  \/ r = <<>> /\ reply' = Queue!Reply("none", <<>>)

\* What a step makes of the fifo is what a step makes of the queue.
Implements ==
  Inv' /\ QueueStep(Held(head, tail, buffer), Held(head, tail, buffer)')

\* The contents, before the step.
LEMMA HeldNow ==
  ASSUME Inv
  PROVE  /\ Held(head, tail, buffer) \in Seq(Bit)
         /\ Len(Held(head, tail, buffer)) = Used(head, tail)
         /\ Used(head, tail) \in 0 .. Capacity
         /\ bitfifo_full <=> Used(head, tail) = Capacity
         /\ bitfifo_empty <=> Used(head, tail) = 0
<1>1. /\ head \in Nat /\ tail \in Nat /\ head < nbits /\ tail < nbits
      /\ nbits = Capacity + 1 /\ Capacity \in Nat \ {0}
      /\ nbits \in Nat \ {0}
      /\ Used(head, tail) \in 0 .. Capacity
  BY Types DEF Inv, Offset
<1>2. bitfifo_full <=> Used(head, tail) = Capacity
  <2>1. PICK m : m = head + 1
    OBVIOUS
  <2>2. m \in Nat /\ m < 2 * nbits
    BY <1>1, <2>1
  <2>3. m % nbits = IF m < nbits THEN m ELSE m - nbits
    BY <1>1, <2>2, Wraps
  <2>4. bitfifo_full <=> m % nbits = tail
    BY <2>1 DEF bitfifo_full
  <2> HIDE DEF nbits
  <2> QED BY <1>1, <2>1, <2>3, <2>4 DEF Used
<1>3. bitfifo_empty <=> Used(head, tail) = 0
  BY <1>1 DEF bitfifo_empty, Used
<1> QED BY <1>1, <1>2, <1>3, HeldIsSeq, Types DEF Inv

LEMMA GrownStep ==
  ASSUME Inv, NEW bits \in Writes, bits \in Seq(Bit), Grown(bits),
         Used(head, tail) # Capacity, Used(head, tail) + Len(bits) <= Capacity
  PROVE  Implements
<1>1. Held(head', tail, buffer') = Held(head, tail, buffer) \o bits
  <2>1. /\ head \in Offset /\ tail \in Offset /\ buffer \in [0 .. BufferBits - 1 -> Bit]
    BY Types DEF Inv
  <2>2. /\ head' \in Offset /\ buffer' \in [0 .. BufferBits - 1 -> Bit]
        /\ Adds(head, head', tail, buffer, buffer', bits)
    BY DEF Grown
  <2> QED BY <2>1, <2>2, MoreHeld
<1>2. tail' = tail /\ reply' = Queue!Reply("OK", <<>>)
  BY DEF Grown, Reply, Queue!Reply
<1>3. Held(head, tail, buffer)' = Held(head, tail, buffer) \o bits
  <2>1. Held(head, tail, buffer)' = Held(head', tail', buffer')
    BY DEF Held, Used, Place
  <2> QED BY <1>1, <1>2, <2>1
<1>4. Inv'
  <2>1. tail \in Offset
    BY Types DEF Inv
  <2>2. reply' = [result |-> "OK", bits |-> <<>>]
    BY DEF Grown, Reply
  <2>3. head' \in Offset /\ tail' \in Offset /\ buffer' \in [0 .. BufferBits - 1 -> Bit]
        /\ overrun' = FALSE
    BY <2>1 DEF Grown
  <2>4. reply'.result = "OK" /\ reply'.bits \in Seq(Bit)
    BY <2>2
  <2>5. TypeOK'
    BY <2>3, <2>4 DEF TypeOK, Offset
  <2> QED BY <2>3, <2>5 DEF Inv
<1>5. ~ (Used(head, tail) + Len(bits) > Capacity)
  BY HeldNow, BufferAssumption
<1> QED BY <1>2, <1>3, <1>4, <1>5, HeldNow DEF Implements, QueueStep

LEMMA EnqueueStep ==
  ASSUME Inv, NEW bits \in Writes, NEW offset \in Offsets,
         FirstWordWhole(bits, offset), RoomIsThere(bits), Enqueue(bits, offset)
  PROVE  Implements
<1> DEFINE u == Used(head, tail)
<1>1. offset \in 0 .. Width - 1
  BY ClientAssumption
<1>2. bits \in Seq(Bit) /\ Len(bits) \in Nat
  BY ClientAssumption DEF Writes
<1>3. /\ head \in Nat /\ tail \in Nat /\ head < nbits /\ tail < nbits
      /\ nbits = Capacity + 1 /\ Capacity \in Nat \ {0} /\ nbits \in Nat \ {0}
      /\ u \in 0 .. Capacity
  BY Types DEF Inv, Offset
<1>4. ASSUME Refused("FULL"), u = Capacity \/ u + Len(bits) > Capacity
      PROVE  Implements
  <2>1. /\ Inv' /\ reply' = Queue!Reply("FULL", <<>>)
        /\ Held(head, tail, buffer)' = Held(head, tail, buffer)
    BY <1>4, RefusedStep
  <2> QED BY <1>4, <2>1, HeldNow DEF Implements, QueueStep
<1>5. CASE bitfifo_full
  BY <1>4, <1>5, HeldNow DEF Enqueue
<1>6. CASE ~ bitfifo_full /\ head < tail
  <2>1. EnqueueBetween(bits, offset) /\ u # Capacity
    BY <1>6, HeldNow DEF Enqueue
  <2>2. u = head + nbits - tail /\ Gap = tail - 1 - head
    BY <1>3, <1>6 DEF Used, Gap
  <2>3. CASE Gap < Len(bits)
    <3>1. u + Len(bits) > Capacity
      BY <1>2, <1>3, <2>2, <2>3
    <3> QED BY <1>4, <2>1, <2>3, <3>1 DEF EnqueueBetween
  <2>4. CASE ~ (Gap < Len(bits))
    <3>1. Len(bits) <= Gap /\ u + Len(bits) <= Capacity
      BY <1>2, <1>3, <2>2, <2>4
    <3> QED BY <1>1, <1>2, <1>6, <2>1, <3>1, Between, GrownStep
  <2> QED BY <2>3, <2>4
<1>7. CASE ~ bitfifo_full /\ ~ (head < tail)
  <2>1. EnqueueAround(bits, offset) /\ u # Capacity /\ head >= tail
    BY <1>3, <1>7, HeldNow DEF Enqueue
  <2>2. u = head - tail
    BY <1>3, <2>1 DEF Used
  <2>3. PICK found : found = ((nbits - head) + ((tail - 1) % UIntModulus)) % SizeModulus
    OBVIOUS
  <2>4. CASE nbits - head + tail - 1 < Len(bits)
    <3>1. u + Len(bits) > Capacity
      BY <1>2, <1>3, <2>2, <2>4
    <3>2. ~ (tail = 0 /\ SizeModulus # UIntModulus)
      <4>1. ~ (bitfifo_used + Len(bits) <= Capacity)
        BY <1>2, <1>3, <3>1, Types DEF Inv
      <4> QED BY <1>7, <4>1 DEF RoomIsThere
    <3>3. found = nbits - head + tail - 1
      BY <2>1, <2>3, <3>2, RoomAround
    <3>4. Refused("FULL")
      BY <2>1, <2>3, <2>4, <3>3 DEF EnqueueAround
    <3> QED BY <1>4, <3>1, <3>4
  <2>5. CASE ~ (nbits - head + tail - 1 < Len(bits))
    <3>1. Len(bits) <= nbits - head + tail - 1 /\ u + Len(bits) <= Capacity
      BY <1>2, <1>3, <2>2, <2>5
    <3> QED BY <1>1, <1>2, <2>1, <3>1, Around, GrownStep
  <2> QED BY <2>4, <2>5
<1> QED BY <1>5, <1>6, <1>7

\* Where the n oldest bits are gone the others are held.
LEMMA LessHeld ==
  ASSUME NEW h \in Offset, NEW t \in Offset, NEW b \in [0 .. BufferBits - 1 -> Bit],
         NEW n \in 0 .. Used(h, t), NEW s \in Offset, s = Place(t, n + 1),
         Used(h, s) = Used(h, t) - n
  PROVE  Held(h, s, b) = SubSeq(Held(h, t, b), n + 1, Used(h, t))
<1> DEFINE u == Used(h, t)
           A == Held(h, t, b)
           B == Held(h, s, b)
           C == SubSeq(A, n + 1, u)
<1>1. /\ u \in Nat /\ A \in Seq(Bit) /\ Len(A) = u
      /\ B \in Seq(Bit) /\ Len(B) = u - n /\ n \in Nat /\ n <= u
  BY HeldIsSeq, PlaceIs, BufferAssumption
<1>2. /\ \A i \in 1 .. u : A[i] = b[Place(t, i)]
      /\ \A i \in 1 .. u - n : B[i] = b[Place(s, i)]
  BY DEF Held
<1>3. nbits \in Nat \ {0} /\ t \in Nat /\ t < nbits /\ u < nbits
  <2>1. u \in 0 .. Capacity
    BY PlaceIs
  <2> HIDE DEF u
  <2> QED BY <2>1, BufferAssumption DEF Offset, nbits
<1>4. ASSUME NEW i \in 1 .. u - n PROVE Place(s, i) = Place(t, n + i)
  <2> HIDE DEF u
  <2> QED BY <1>1, <1>3 DEF Place
<1> HIDE DEF u, A, B
<1>6. /\ C \in Seq(Bit) /\ Len(C) = u - n
      /\ \A i \in 1 .. u - n : C[i] = A[n + i]
  <2>1. PICK m : m = n + 1
    OBVIOUS
  <2>2. m \in 1 .. Len(A) + 1 /\ u \in m - 1 .. Len(A)
    BY <1>1, <2>1
  <2>3. /\ SubSeq(A, m, u) \in Seq(Bit)
        /\ Len(SubSeq(A, m, u)) = u - m + 1
        /\ \A i \in 1 .. u - m + 1 : SubSeq(A, m, u)[i] = A[m + i - 1]
    BY <1>1, <2>2, SubSeqProperties
  <2>4. u - m + 1 = u - n /\ \A i \in 1 .. u - n : m + i - 1 = n + i
    BY <1>1, <2>1
  <2> QED BY <2>1, <2>3, <2>4
<1>8. B = C
  <2>1. ASSUME NEW i \in 1 .. u - n PROVE B[i] = C[i]
    <3>1. n + i \in 1 .. u
      BY <1>1
    <3> QED BY <1>2, <1>4, <1>6, <3>1
  <2> HIDE DEF C
  <2> QED BY <1>1, <1>6, <2>1
<1> QED BY <1>8 DEF u, A, B

\* Where a read leaves tail, and what a read of n bits answers and leaves.
TailAfter(n) == Place(tail, n + 1)

Shrunk(n) ==
  /\ reply' = Reply("OK", SubSeq(Held(head, tail, buffer), 1, n))
  /\ buffer' = buffer /\ overrun' = overrun
  /\ IF TailAfter(n) = head THEN head' = 0 /\ tail' = 0
                            ELSE tail' = TailAfter(n) /\ head' = head

\* One copy reads the oldest bits, up to the end of the buffer.
LEMMA OneCopyReads ==
  ASSUME NEW h \in Offset, NEW t \in Offset, NEW b \in [0 .. BufferBits - 1 -> Bit],
         NEW n \in 0 .. Used(h, t), t + n <= nbits
  PROVE  Returned(bitcpy(NoBits, 0, b, t, n), n) = SubSeq(Held(h, t, b), 1, n)
<1> DEFINE A == Held(h, t, b)
           R == CopyOf(NoBits, 0, b, t, n)
<1>1. /\ A \in Seq(Bit) /\ Len(A) = Used(h, t) /\ Used(h, t) \in 0 .. Capacity
      /\ n \in Nat /\ n <= Capacity /\ Capacity < nbits
      /\ nbits \in Nat /\ nbits <= BufferBits /\ BufferBits \in Nat
      /\ Width \in Nat /\ t \in Nat
  <2>1. Used(h, t) \in 0 .. Capacity
    BY PlaceIs
  <2> QED BY <2>1, HeldIsSeq, RoomForBits, BufferAssumption DEF nbits, Offset
<1>2. bitcpy(NoBits, 0, b, t, n) = R
  BY <1>1, CopiedToFirst
<1>3. ASSUME NEW i \in 1 .. n PROVE R[i - 1] = A[i]
  <2>1. PICK k : k = i - 1
    OBVIOUS
  <2>2. k \in 0 .. 2 * Width + BufferBits /\ k \in 0 .. 0 + n - 1 /\ k - 0 + t = t + k
    BY <1>1, <2>1
  <2>3. R[k] = b[t + k]
    BY <2>2 DEF CopyOf, NoBits
  <2>4. Place(t, i) = t + k /\ i \in 1 .. Used(h, t)
    BY <1>1, <2>1 DEF Place
  <2>5. A[i] = b[Place(t, i)]
    BY <2>4 DEF Held
  <2> QED BY <2>1, <2>3, <2>4, <2>5
<1> HIDE DEF A, R
<1>4. /\ SubSeq(A, 1, n) \in Seq(Bit) /\ Len(SubSeq(A, 1, n)) = n
      /\ \A i \in 1 .. n : SubSeq(A, 1, n)[i] = A[i]
  <2>1. 1 \in 1 .. Len(A) + 1 /\ n \in 1 - 1 .. Len(A)
    BY <1>1
  <2>2. /\ SubSeq(A, 1, n) \in Seq(Bit) /\ Len(SubSeq(A, 1, n)) = n - 1 + 1
        /\ \A i \in 1 .. n - 1 + 1 : SubSeq(A, 1, n)[i] = A[1 + i - 1]
    BY <1>1, <2>1, SubSeqProperties
  <2>3. n - 1 + 1 = n /\ \A i \in 1 .. n : 1 + i - 1 = i
    BY <1>1
  <2> QED BY <2>2, <2>3
<1>5. SubSeq(A, 1, n) = [i \in 1 .. n |-> R[i - 1]]
  BY <1>1, <1>3, <1>4
<1> QED BY <1>2, <1>5 DEF Returned, A

\* With tail before head, or the bits to the end of the buffer, one copy reads.
LEMMA DequeueOutcome ==
  ASSUME Inv, NEW n \in Reads, ReadIsWhole(n), Dequeue(n), ~ bitfifo_empty
  PROVE  \/ Refused("INSUFFICIENT") /\ n > Used(head, tail)
         \/ Shrunk(n) /\ n <= Used(head, tail)
<1>1. n \in Nat
  BY ClientAssumption, BufferAssumption
<1>2. /\ head \in Nat /\ tail \in Nat /\ head < nbits /\ tail < nbits
      /\ head \in Offset /\ tail \in Offset /\ buffer \in [0 .. BufferBits - 1 -> Bit]
      /\ nbits \in Nat \ {0} /\ nbits <= BufferBits /\ BufferBits \in Nat
      /\ Width \in Nat /\ bitfifo_used = Used(head, tail)
  BY Types, BufferAssumption DEF Inv, Offset
<1>3. CASE head < tail
  <2> DEFINE atTail == Lesser(n, nbits - tail)
             rest == n - atTail
             first == bitcpy(NoBits, 0, buffer, tail, atTail)
             copied == [i \in 0 .. BufferBits + Width |->
                          IF i < BufferBits THEN buffer[i] ELSE 0]
             second == bitcpy(first, atTail, copied, tail, rest)
  <2>1. Used(head, tail) = head + nbits - tail /\ Used(head, tail) >= 1
    BY <1>2, <1>3 DEF Used
  <2>2. DequeueAround(n)
    BY <1>3 DEF Dequeue
  <2>3. CASE n > Used(head, tail)
    <3>1. (nbits - tail) + head < n
      BY <1>1, <1>2, <2>1, <2>3
    <3> QED BY <2>2, <2>3, <3>1 DEF DequeueAround
  <2>4. CASE n <= Used(head, tail)
    <3>1. n <= nbits - tail
      BY <1>1, <1>2, <1>3, <2>1, <2>4 DEF ReadIsWhole
    <3>2. atTail = n /\ rest = 0 /\ ~ ((nbits - tail) + head < n)
      BY <1>1, <1>2, <2>1, <2>4, <3>1 DEF Lesser
    <3>3. /\ reply' = Reply("OK", Returned(second, n))
          /\ overrun' = (overrun \/ Overruns(atTail % Width, tail % Width, rest))
          /\ Advance((tail + n) % nbits)
          /\ buffer' = buffer
      BY <2>2, <3>2 DEF DequeueAround
    <3>4. Returned(second, n) = Returned(first, n)
      <4>1. second = CopyOf(first, n, copied, tail, 0)
        <5> HIDE DEF first, copied
        <5>1. Unmasked(n, tail, 0) /\ 0 \in Nat
          BY DEF Unmasked
        <5>2. bitcpy(first, n, copied, tail, 0) = CopyOf(first, n, copied, tail, 0)
          BY <1>1, <1>2, <5>1, Copied
        <5> QED BY <3>2, <5>2
      <4>2. first = CopyOf(NoBits, 0, buffer, tail, n)
        BY <1>1, <1>2, <3>2, CopiedToFirst
      <4>3. n <= Capacity /\ Capacity < nbits
        BY <1>1, <1>2, <2>4, Types DEF Inv
      <4>4. ASSUME NEW i \in 1 .. n PROVE second[i - 1] = first[i - 1]
        <5>1. i - 1 \in 0 .. 2 * Width + BufferBits /\ i - 1 \notin n .. n + 0 - 1
          BY <1>1, <1>2, <4>3, BufferAssumption
        <5>2. i - 1 \in DOMAIN first
          BY <4>2, <5>1 DEF CopyOf, NoBits
        <5> HIDE DEF first, second, copied
        <5> QED BY <4>1, <5>1, <5>2 DEF CopyOf
      <4> HIDE DEF first, second
      <4> QED BY <4>4 DEF Returned
    <3>5. Returned(first, n) = SubSeq(Held(head, tail, buffer), 1, n)
      <4>1. n \in 0 .. Used(head, tail) /\ tail + n <= nbits
        BY <1>1, <1>2, <2>1, <2>4, <3>1
      <4> QED BY <1>2, <3>2, <4>1, OneCopyReads
    <3>6. overrun' = overrun
      <4>1. ~ Overruns(atTail % Width, tail % Width, rest)
        BY <3>2 DEF Overruns
      <4> QED BY <3>3, <4>1 DEF Inv, TypeOK
    <3>7. (tail + n) % nbits = TailAfter(n)
      <4>1. PICK m : m = tail + n
        OBVIOUS
      <4>2. m \in Nat /\ m < 2 * nbits
        BY <1>1, <1>2, <3>1, <4>1
      <4>3. m % nbits = IF m < nbits THEN m ELSE m - nbits
        BY <1>2, <4>2, Wraps
      <4> QED BY <1>1, <1>2, <4>1, <4>3 DEF TailAfter, Place
    <3>8. reply' = Reply("OK", SubSeq(Held(head, tail, buffer), 1, n))
      BY <3>3, <3>4, <3>5
    <3> QED BY <2>4, <3>3, <3>6, <3>7, <3>8 DEF Shrunk, Advance
  <2> QED BY <1>1, <1>2, <2>1, <2>3, <2>4
<1>4. CASE ~ (head < tail)
  <2>1. Used(head, tail) = head - tail /\ head > tail
    BY <1>2, <1>4 DEF Used, bitfifo_empty
  <2>2. DequeueBetween(n)
    BY <1>4 DEF Dequeue
  <2>3. CASE n > head - tail
    BY <2>1, <2>2, <2>3 DEF DequeueBetween
  <2>4. CASE ~ (n > head - tail)
    <3>1. /\ reply' = Reply("OK", Returned(bitcpy(NoBits, 0, buffer, tail, n), n))
          /\ Advance(tail + n)
          /\ buffer' = buffer /\ overrun' = overrun
      BY <2>2, <2>4 DEF DequeueBetween
    <3>2. n \in 0 .. Used(head, tail) /\ tail + n <= nbits
      BY <1>1, <1>2, <2>1, <2>4
    <3>3. Returned(bitcpy(NoBits, 0, buffer, tail, n), n) = SubSeq(Held(head, tail, buffer), 1, n)
      BY <1>2, <3>2, OneCopyReads
    <3>4. tail + n = TailAfter(n)
      BY <1>1, <1>2, <2>1, <2>4 DEF TailAfter, Place
    <3>5. n <= Used(head, tail)
      BY <1>1, <1>2, <2>1, <2>4
    <3> QED BY <3>1, <3>3, <3>4, <3>5 DEF Shrunk, Advance
  <2> QED BY <2>3, <2>4
<1> QED BY <1>3, <1>4

LEMMA DequeueStep ==
  ASSUME Inv, NEW n \in Reads, ReadIsWhole(n), Dequeue(n)
  PROVE  Implements
<1> DEFINE q == Held(head, tail, buffer)
           u == Used(head, tail)
           at == TailAfter(n)
<1>1. /\ n \in Nat
      /\ q \in Seq(Bit) /\ Len(q) = u /\ u \in 0 .. Capacity /\ u \in Nat
      /\ head \in Offset /\ tail \in Offset /\ buffer \in [0 .. BufferBits - 1 -> Bit]
      /\ head \in Nat /\ tail \in Nat /\ head < nbits /\ tail < nbits /\ nbits \in Nat \ {0}
      /\ nbits <= BufferBits /\ BufferBits \in Nat /\ nbits = Capacity + 1
  BY HeldNow, Types, ClientAssumption, BufferAssumption DEF Inv, Offset
<1>2. bitfifo_empty <=> q = <<>>
  BY <1>1, HeldNow
<1>3. CASE bitfifo_empty
  <2>1. Refused("EMPTY")
    BY <1>3 DEF Dequeue
  <2>2. /\ Inv' /\ reply' = Queue!Reply("EMPTY", <<>>)
        /\ Held(head, tail, buffer)' = q
    BY <2>1, RefusedStep
  <2> QED BY <1>2, <1>3, <2>2 DEF Implements, QueueStep
<1>4. CASE ~ bitfifo_empty /\ Refused("INSUFFICIENT") /\ n > u
  <2>1. /\ Inv' /\ reply' = Queue!Reply("INSUFFICIENT", <<>>)
        /\ Held(head, tail, buffer)' = q
    BY <1>4, RefusedStep
  <2> QED BY <1>1, <1>2, <1>4, <2>1 DEF Implements, QueueStep
<1>5. CASE ~ bitfifo_empty /\ Shrunk(n) /\ n <= u
  <2>1. u > 0
    BY <1>1, <1>5, HeldNow
  <2>2. at \in Offset /\ at = (IF tail + n < nbits THEN tail + n ELSE tail + n - nbits)
    <3> HIDE DEF u
    <3>1. n <= nbits - 1 /\ tail + (n + 1) - 1 = tail + n
      BY <1>1, <1>5, BufferAssumption
    <3> QED BY <1>1, <3>1 DEF TailAfter, Place, Offset
  <2>3. Used(head, at) = u - n
    BY <1>1, <1>5, <2>1, <2>2 DEF Used
  <2>5. Held(head, at, buffer) = SubSeq(q, n + 1, Len(q))
    <3>1. n \in 0 .. u
      BY <1>1, <1>5
    <3>2. at \in Offset /\ at = Place(tail, n + 1) /\ Used(head, at) = Used(head, tail) - n
      BY <2>2, <2>3 DEF TailAfter
    <3>3. Held(head, at, buffer) = SubSeq(q, n + 1, Used(head, tail))
      <4> HIDE DEF at
      <4> QED BY <1>1, <3>1, <3>2, LessHeld
    <3> QED BY <1>1, <3>3
  <2>6. /\ reply' = Reply("OK", SubSeq(q, 1, n))
        /\ buffer' = buffer /\ overrun' = overrun
        /\ IF at = head THEN head' = 0 /\ tail' = 0 ELSE tail' = at /\ head' = head
    BY <1>5 DEF Shrunk
  <2>7. Held(head, tail, buffer)' = Held(head', tail', buffer')
    BY DEF Held, Used, Place
  <2>8. Held(head, tail, buffer)' = SubSeq(q, n + 1, Len(q))
    <3>1. CASE at = head
      <4>1. Used(head, at) = 0 /\ Used(0, 0) = 0
        BY <1>1, <3>1 DEF Used
      <4>2. Held(head, at, buffer) = <<>> /\ Held(0, 0, buffer) = <<>>
        BY <4>1 DEF Held
      <4> QED BY <2>5, <2>6, <2>7, <3>1, <4>2
    <3>2. CASE at # head
      BY <2>5, <2>6, <2>7, <3>2
    <3> QED BY <3>1, <3>2
  <2>9. reply' = Queue!Reply("OK", SubSeq(q, 1, n))
    BY <2>6 DEF Reply, Queue!Reply
  <2>10. Inv'
    <3>1. head' \in Offset /\ tail' \in Offset
      <4>1. 0 \in Offset
        BY <1>1 DEF Offset
      <4> HIDE DEF at
      <4> QED BY <1>1, <2>2, <2>6, <4>1
    <3>2. SubSeq(q, 1, n) \in Seq(Bit)
      <4>1. 1 \in 1 .. Len(q) + 1 /\ n \in 1 - 1 .. Len(q)
        BY <1>1, <1>5
      <4> HIDE DEF q
      <4> QED BY <1>1, <4>1, SubSeqProperties
    <3>3. reply'.result = "OK" /\ reply'.bits \in Seq(Bit)
      BY <2>6, <3>2 DEF Reply
    <3>4. TypeOK'
      BY <2>6, <3>1, <3>3 DEF Inv, TypeOK, Offset
    <3> QED BY <2>6, <3>4 DEF Inv
  <2> HIDE DEF at
  <2> QED BY <1>1, <1>2, <1>5, <2>1, <2>8, <2>9, <2>10 DEF Implements, QueueStep
<1>6. CASE ~ bitfifo_empty
  BY <1>4, <1>5, <1>6, DequeueOutcome
<1> QED BY <1>3, <1>6

LEMMA ClearStep ==
  ASSUME Inv, Clear
  PROVE  Implements
<1>1. /\ head' = 0 /\ tail' = 0 /\ buffer' = buffer /\ overrun' = overrun
      /\ reply' = [result |-> "none", bits |-> <<>>]
  BY DEF Clear, NoReply, Reply
<1>2. 0 \in Offset
  BY Types DEF Inv, Offset
<1>3. reply'.result = "none" /\ reply'.bits \in Seq(Bit)
  BY <1>1
<1>4. TypeOK'
  BY <1>1, <1>2, <1>3 DEF Inv, TypeOK, Offset
<1>5. Inv'
  BY <1>1, <1>4 DEF Inv
<1>6. Held(head, tail, buffer)' = <<>>
  <2>1. Held(head, tail, buffer)' = Held(head', tail', buffer')
    BY DEF Held, Used, Place
  <2>2. Used(0, 0) = 0
    BY DEF Used
  <2>3. Held(0, 0, buffer) = <<>>
    BY <2>2 DEF Held
  <2> QED BY <1>1, <2>1, <2>3
<1> QED BY <1>1, <1>5, <1>6 DEF Implements, QueueStep, Queue!Reply

-----------------------------------------------------------------------------

LEMMA InitInv == Init => Inv /\ Queue!Init
<1> SUFFICES ASSUME Init PROVE Inv /\ Queue!Init
  OBVIOUS
<1>1. /\ head = 0 /\ tail = 0 /\ overrun = FALSE
      /\ reply = [result |-> "none", bits |-> <<>>]
      /\ buffer = [i \in 0 .. BufferBits - 1 |-> 0]
  BY DEF Init, NoReply, Reply
<1>2. 0 \in 0 .. nbits - 1
  BY BufferAssumption DEF nbits
<1>3. buffer \in [0 .. BufferBits - 1 -> Bit]
  BY <1>1 DEF Bit
<1>4. reply.result = "none" /\ reply.bits \in Seq(Bit)
  BY <1>1
<1>5. Inv
  BY <1>1, <1>2, <1>3, <1>4 DEF Inv, TypeOK
<1>6. [i \in 1 .. bitfifo_used |-> buffer[(tail + i - 1) % nbits]] = <<>>
  <2>1. bitfifo_used = 0
    BY <1>1 DEF bitfifo_used
  <2> QED BY <2>1
<1> QED BY <1>1, <1>5, <1>6 DEF Queue!Init, Queue!Reply

LEMMA NextInv ==
  ASSUME Inv, [SoundNext]_vars
  PROVE  Inv' /\ [Queue!Next]_(Queue!vars)
<1>1. CASE SoundNext
  <2>1. Implements
    BY <1>1, EnqueueStep, DequeueStep, ClearStep DEF SoundNext
  <2>2. /\ [i \in 1 .. bitfifo_used |-> buffer[(tail + i - 1) % nbits]] = Held(head, tail, buffer)
        /\ [i \in 1 .. bitfifo_used |-> buffer[(tail + i - 1) % nbits]]' = Held(head, tail, buffer)'
    <3>1. head' \in Offset /\ tail' \in Offset /\ bitfifo_used' = Used(head', tail')
      BY <2>1 DEF Implements, Inv, TypeOK, Offset, bitfifo_used, Used, nbits
    <3>2. [i \in 1 .. bitfifo_used' |-> buffer'[(tail' + i - 1) % nbits]] = Held(head', tail', buffer')
      BY <3>1, PlaceIs
    <3>3. /\ [i \in 1 .. bitfifo_used |-> buffer[(tail + i - 1) % nbits]]' =
               [i \in 1 .. bitfifo_used' |-> buffer'[(tail' + i - 1) % nbits]]
          /\ Held(head, tail, buffer)' = Held(head', tail', buffer')
      BY DEF Held, Used, Place, nbits
    <3> QED BY <3>2, <3>3, QueueIsHeld DEF Inv
  <2>3. QueueStep([i \in 1 .. bitfifo_used |-> buffer[(tail + i - 1) % nbits]],
                  [i \in 1 .. bitfifo_used |-> buffer[(tail + i - 1) % nbits]]')
    BY <2>1, <2>2 DEF Implements
  <2>4. Queue!Next
    BY <2>3 DEF QueueStep, Queue!Next, Queue!Enqueue, Queue!Dequeue, Queue!Clear
  <2> QED BY <2>1, <2>4 DEF Implements
<1>2. CASE UNCHANGED vars
  <2>1. UNCHANGED Queue!vars
    BY <1>2 DEF vars, Queue!vars, bitfifo_used, nbits
  <2>2. Inv'
    BY <1>2 DEF vars, Inv, TypeOK, nbits, BufferBits
  <2> QED BY <2>1, <2>2
<1> QED BY <1>1, <1>2

\* The inductive invariant: through the steps of SoundSpec, on any target, the
\* offsets stay inside the buffer and no copy is longer than asked (bitcpy).
THEOREM FifoInductive == SoundSpec => []Inv
<1>1. Inv /\ [SoundNext]_vars => Inv'
  BY NextInv
<1> QED BY <1>1, InitInv, PTL DEF SoundSpec

\* The bit fifo is a queue: for writes at any offset, reads of any number of bits
\* and a size_t of any width, but for the steps at which the code's three faults
\* bite, bits leave it in the order they entered and a call is refused when and
\* only when the queue refuses it (bitfifo_enqueue and bitfifo_dequeue).
THEOREM FifoIsQueue == SoundSpec => IsQueue
<1>1. Inv /\ [SoundNext]_vars => [Queue!Next]_(Queue!vars)
  BY NextInv
<1>2. Inv => ~ overrun
  BY DEF Inv
<1>3. Init => Queue!Init
  BY InitInv
<1> QED BY <1>1, <1>2, <1>3, FifoInductive, PTL DEF SoundSpec, IsQueue, Queue!Spec

-----------------------------------------------------------------------------
(* Powers of two. *)

LEMMA MaxOf ==
  ASSUME NEW n \in Nat, NEW S \in SUBSET (0 .. n), S # {}
  PROVE  Max(S) \in S /\ \A x \in S : x <= Max(S)
<1> DEFINE below == {n - x : x \in S}
<1>1. below \in SUBSET Nat /\ below # {}
  <2>1. ASSUME NEW x \in S PROVE n - x \in Nat
    <3>1. x \in 0 .. n
      OBVIOUS
    <3> QED BY <3>1
  <2> QED BY <2>1
<1>2. PICK b \in below : \A y \in below : b <= y
  BY <1>1, MinOf
<1>3. PICK m \in S : b = n - m
  BY <1>2
<1>4. ASSUME NEW x \in S PROVE m >= x
  <2>1. n - m <= n - x
    BY <1>2, <1>3
  <2> QED BY <2>1
<1>5. Max(S) \in S /\ \A x \in S : Max(S) >= x
  BY <1>4, Zenon DEF Max
<1> QED BY <1>5

\* The powers of two, as an operator of which only what follows is used.
TwoTo(n) == 2 ^ n

\* The subsets of 1 .. n + 1 are those of 1 .. n, and each again with n + 1.
LEMMA Doubling ==
  ASSUME NEW n \in Nat
  PROVE  TwoTo(n) \in Nat /\ TwoTo(n + 1) = TwoTo(n) + TwoTo(n)
<1> DEFINE A == 1 .. n
           B == 1 .. n + 1
           f == [X \in SUBSET A |-> X \cup {n + 1}]
           T == {X \cup {n + 1} : X \in SUBSET A}
<1>1. /\ IsFiniteSet(A) /\ Cardinality(A) = n
      /\ IsFiniteSet(B) /\ Cardinality(B) = n + 1
  <2>1. n + 1 - 1 + 1 = n + 1 /\ n - 1 + 1 = n
    OBVIOUS
  <2> QED BY <2>1, FS_Interval
<1>2. /\ IsFiniteSet(SUBSET A) /\ Cardinality(SUBSET A) = TwoTo(n)
      /\ Cardinality(SUBSET B) = TwoTo(n + 1)
  BY <1>1, FS_SUBSET DEF TwoTo
<1>3. TwoTo(n) \in Nat
  BY <1>2, FS_CardinalityType
<1>4. B = A \cup {n + 1} /\ n + 1 \notin A
  OBVIOUS
<1> HIDE DEF A, B
<1>5. f \in Bijection(SUBSET A, T)
  <2>1. \A X \in SUBSET A : (X \cup {n + 1}) \ {n + 1} = X
    BY <1>4
  <2>2. \A X, Y \in SUBSET A : X \cup {n + 1} = Y \cup {n + 1} => X = Y
    BY <2>1
  <2>3. f \in [SUBSET A -> T]
    OBVIOUS
  <2>4. f \in Injection(SUBSET A, T)
    BY <2>2, <2>3, Zenon DEF Injection, IsInjective
  <2>5. f \in Surjection(SUBSET A, T)
    BY <2>3 DEF Surjection
  <2> QED BY <2>4, <2>5 DEF Bijection
<1>6. IsFiniteSet(T) /\ Cardinality(T) = TwoTo(n)
  <2>1. ExistsBijection(SUBSET A, T)
    BY <1>5 DEF ExistsBijection
  <2> QED BY <1>2, <2>1, FS_Bijection
<1>7. SUBSET B = (SUBSET A) \cup T
  <2>1. ASSUME NEW X \in SUBSET B PROVE X \in (SUBSET A) \cup T
    <3>1. CASE n + 1 \in X
      <4>1. X \ {n + 1} \in SUBSET A /\ X = (X \ {n + 1}) \cup {n + 1}
        BY <1>4, <3>1
      <4> QED BY <4>1
    <3>2. CASE n + 1 \notin X
      BY <1>4, <3>2
    <3> QED BY <3>1, <3>2
  <2>2. ASSUME NEW X \in SUBSET A PROVE X \in SUBSET B /\ X \cup {n + 1} \in SUBSET B
    BY <1>4
  <2>3. ASSUME NEW X \in (SUBSET A) \cup T PROVE X \in SUBSET B
    BY <2>2
  <2> QED BY <2>1, <2>3
<1>8. (SUBSET A) \cap T = {}
  BY <1>4
<1> HIDE DEF T
<1>9. Cardinality((SUBSET A) \cup T) = TwoTo(n) + TwoTo(n) - Cardinality((SUBSET A) \cap T)
  BY <1>2, <1>6, FS_Union
<1>10. Cardinality((SUBSET A) \cap T) = 0
  BY <1>8, FS_EmptySet
<1>11. Cardinality(SUBSET B) = Cardinality((SUBSET A) \cup T)
  BY <1>7, Zenon
<1>12. PICK p : p = TwoTo(n)
  OBVIOUS
<1>13. p \in Nat /\ TwoTo(n + 1) = p + p - 0
  BY <1>2, <1>3, <1>9, <1>10, <1>11, <1>12, Zenon
<1> QED BY <1>12, <1>13

LEMMA First == TwoTo(0) = 1
BY DEF TwoTo

LEMMA Above ==
  ASSUME NEW n \in Nat
  PROVE  n < TwoTo(n)
<1> DEFINE Bad == {m \in Nat : ~ m < TwoTo(m)}
<1> SUFFICES ASSUME Bad # {} PROVE FALSE
  OBVIOUS
<1>1. PICK m : m = Min(Bad)
  OBVIOUS
<1>2. m \in Bad /\ \A v \in Bad : m <= v
  BY <1>1, MinOf
<1>3. m # 0
  BY <1>2, First
<1>4. m - 1 \in Nat /\ ~ m <= m - 1 /\ m - 1 + 1 = m
  BY <1>2, <1>3
<1>5. m - 1 < TwoTo(m - 1)
  BY <1>2, <1>4
<1>6. TwoTo(m - 1) \in Nat /\ TwoTo(m) = TwoTo(m - 1) + TwoTo(m - 1)
  <2>1. PICK k : k = m - 1
    OBVIOUS
  <2>2. k \in Nat /\ k + 1 = m
    BY <1>4, <2>1
  <2>3. TwoTo(k) \in Nat /\ TwoTo(k + 1) = TwoTo(k) + TwoTo(k)
    BY <2>2, Doubling
  <2> QED BY <2>1, <2>2, <2>3
<1> QED BY <1>2, <1>3, <1>4, <1>5, <1>6

-----------------------------------------------------------------------------
(* The binary search. *)

CONSTANTS Values, Wanted, MaxElems
VARIABLES array, want, range, seat, seen, stage

Search == INSTANCE BinarySearch WITH i <- seat, c <- seen, pc <- stage

\* Not only neighbours are in order.
Ordered(a) == a \in Seq(Int) /\ \A j, k \in 1 .. Len(a) : j <= k => a[j] <= a[k]

LEMMA AscendingOrdered ==
  ASSUME Search!ValuesFit, NEW n \in Nat, NEW a \in Search!Ascending(n)
  PROVE  Ordered(a)
<1>1. a \in [1 .. n -> Int] /\ \A j \in 1 .. n - 1 : a[j] <= a[j + 1]
  BY DEF Search!Ascending, Search!ValuesFit
<1>2. a \in Seq(Int) /\ Len(a) = n
  BY <1>1
<1>3. ASSUME NEW j \in 1 .. n, NEW k \in 1 .. n, j <= k, ~ a[j] <= a[k] PROVE FALSE
  <2> DEFINE Bad == {m \in Nat : m \in j .. n /\ ~ a[j] <= a[m]}
  <2>1. k \in Bad
    BY <1>3
  <2>2. PICK m : m = Min(Bad)
    OBVIOUS
  <2>3. m \in Bad /\ \A v \in Bad : m <= v
    BY <2>1, <2>2, MinOf
  <2>4. a[j] \in Int /\ m # j
    BY <1>1, <2>3
  <2>5. m - 1 \in Nat /\ m - 1 \in j .. n /\ ~ m <= m - 1 /\ m - 1 \in 1 .. n - 1 /\ m \in 1 .. n
    BY <2>3, <2>4
  <2>6. a[j] <= a[m - 1]
    BY <2>3, <2>5
  <2>7. a[m - 1] <= a[m] /\ a[m - 1] \in Int /\ a[m] \in Int
    <3>1. PICK q : q = m - 1
      OBVIOUS
    <3>2. q + 1 = m /\ q \in 1 .. n - 1 /\ q \in 1 .. n
      BY <2>5, <3>1
    <3> QED BY <1>1, <2>5, <3>1, <3>2
  <2> QED BY <2>3, <2>4, <2>6, <2>7
<1> QED BY <1>2, <1>3 DEF Ordered

LEMMA SearchRange ==
  ASSUME NEW n \in Nat \ {0}
  PROVE  \E k \in Nat : /\ Search!power2le(n) = TwoTo(k)
                        /\ TwoTo(k) <= n /\ n < 2 * TwoTo(k)
<1> DEFINE P == {TwoTo(k) : k \in {k \in 0 .. n : TwoTo(k) <= n}}
<1>1. \A k \in 0 .. n : TwoTo(k) \in Nat
  BY Doubling
<1>2. P \in SUBSET (0 .. n)
  BY <1>1
<1>3. TwoTo(0) \in P
  BY First
<1>4. Max(P) \in P /\ \A x \in P : x <= Max(P)
  BY <1>2, <1>3, MaxOf
<1>5. Search!power2le(n) = Max(P)
  <2> DEFINE Q == {2 ^ k : k \in {k \in 0 .. n : 2 ^ k <= n}}
  <2>1. Search!power2le(n) = Max(Q)
    BY DEF Search!power2le, Search!Max, Max
  <2>2. Q = P
    BY DEF TwoTo
  <2> QED BY <2>1, <2>2
<1>6. PICK k \in 0 .. n : TwoTo(k) <= n /\ Max(P) = TwoTo(k)
  BY <1>4
<1>7. TwoTo(k) \in Nat /\ TwoTo(k + 1) = TwoTo(k) + TwoTo(k) /\ k + 1 < TwoTo(k + 1)
  <2>1. k \in Nat /\ k + 1 \in Nat
    OBVIOUS
  <2>2. TwoTo(k) \in Nat /\ TwoTo(k + 1) = TwoTo(k) + TwoTo(k)
    BY <2>1, Doubling
  <2>3. PICK m : m = k + 1
    OBVIOUS
  <2>4. m < TwoTo(m)
    BY <2>1, <2>3, Above
  <2> QED BY <2>2, <2>3, <2>4
<1> HIDE DEF P
<1>8. ASSUME TwoTo(k + 1) <= n PROVE FALSE
  <2>1. k + 1 \in 0 .. n
    BY <1>7, <1>8
  <2>2. TwoTo(k + 1) \in P
    BY <1>8, <2>1 DEF P
  <2>3. TwoTo(k) >= 1
    BY <1>7
  <2> QED BY <1>4, <1>6, <1>7, <2>2, <2>3
<1> QED BY <1>5, <1>6, <1>7, <1>8

Elems == Len(array)

\* The range is a power of two.  Where the value is in the array it is less
\* than that away; the array goes on so far, or the value is on the other side.
Narrowed ==
  /\ \E k \in Nat : range = TwoTo(k)
  /\ seat \in 0 .. Elems - 1
  /\ seat >= range - 1 \/ want > array[seat + 1]
  /\ seat + range <= Elems \/ want <= array[seat + 1]
  /\ (\E j \in 1 .. Elems : array[j] = want) =>
       \E j \in 1 .. Elems : array[j] = want /\ j > seat + 1 - range /\ j < seat + 1 + range

Found ==
  IF \E j \in 1 .. Elems : array[j] = want
  THEN seat \in 0 .. Elems - 1 /\ array[seat + 1] = want
  ELSE seat = -1

SearchInv ==
  /\ Ordered(array) /\ want \in Int
  /\ stage \in {"start", "loop", "done"}
  /\ stage = "start" => seat = -1
  /\ stage = "loop" => Narrowed
  /\ stage = "done" => Found

\* The first place halves the array, or as much of its end.
LEMMA StartNarrows ==
  ASSUME SearchInv, Search!Start
  PROVE  SearchInv'
<1>1. /\ stage = "start" /\ array # <<>> /\ stage' = "loop"
      /\ array' = array /\ want' = want
  BY DEF Search!Start
<1>2. array \in Seq(Int) /\ Elems \in Nat \ {0} /\ want \in Int
  BY <1>1, LenProperties, EmptySeq DEF SearchInv, Ordered, Elems
<1>3. PICK k \in Nat : /\ Search!power2le(Elems) = TwoTo(k)
                       /\ TwoTo(k) <= Elems /\ Elems < 2 * TwoTo(k)
  BY <1>2, SearchRange
<1>4. PICK r : r = TwoTo(k)
  OBVIOUS
<1>5. r \in Nat /\ r <= Elems /\ Elems < 2 * r /\ r >= 1
  <2>1. r \in Nat
    BY <1>4, Doubling
  <2> QED BY <1>2, <1>3, <1>4, <2>1
<1>6. /\ range' = r
      /\ seat' = IF want > array[r] THEN Elems - r ELSE r - 1
  BY <1>3, <1>4 DEF Search!Start, Search!nelems, Search!rangeShift, Elems
<1>7. /\ \A j \in 1 .. Elems : array[j] \in Int
      /\ \A j, l \in 1 .. Elems : j <= l => array[j] <= array[l]
  BY <1>2, ElementOfSeq DEF SearchInv, Ordered, Elems
<1>8. CASE want > array[r]
  <2>1. seat' = Elems - r
    BY <1>6, <1>8
  <2>2. seat' \in 0 .. Elems - 1 /\ seat' + r <= Elems /\ seat' + 1 <= r /\ seat' + 1 \in 1 .. Elems
    BY <1>2, <1>5, <2>1
  <2>3. want > array[seat' + 1]
    <3>1. PICK q : q = Elems - r + 1
      OBVIOUS
    <3>2. q \in 1 .. Elems /\ r \in 1 .. Elems /\ q <= r
      BY <1>2, <1>5, <2>2, <2>1, <3>1
    <3>3. array[q] <= array[r] /\ array[q] \in Int /\ array[r] \in Int
      BY <1>7, <3>2
    <3>4. seat' + 1 = q
      BY <1>2, <1>5, <2>1, <3>1
    <3> QED BY <1>2, <1>8, <3>3, <3>4
  <2>4. ASSUME NEW j \in 1 .. Elems, array[j] = want
        PROVE  j > seat' + 1 - r /\ j < seat' + 1 + r
    <3>1. ~ j <= r
      BY <1>2, <1>5, <1>7, <1>8, <2>4
    <3> QED BY <1>2, <1>5, <2>1, <3>1
  <2> QED BY <1>1, <1>2, <1>4, <1>6, <2>2, <2>3, <2>4 DEF SearchInv, Narrowed, Elems
<1>9. CASE want <= array[r]
  <2>1. seat' = r - 1 /\ seat' + 1 = r
    BY <1>2, <1>5, <1>6, <1>7, <1>9
  <2>2. seat' \in 0 .. Elems - 1 /\ seat' >= r - 1 /\ want <= array[seat' + 1]
    BY <1>2, <1>5, <1>9, <2>1
  <2>3. ASSUME NEW j \in 1 .. Elems, array[j] = want
        PROVE  \E l \in 1 .. Elems : array[l] = want /\ l > seat' + 1 - r /\ l < seat' + 1 + r
    <3>1. CASE j <= r
      BY <1>2, <1>5, <2>1, <2>3, <3>1
    <3>2. CASE j > r
      <4>1. array[r] = want /\ r \in 1 .. Elems
        BY <1>2, <1>5, <1>7, <1>9, <2>3, <3>2
      <4> QED BY <1>5, <2>1, <4>1
    <3> QED BY <1>2, <1>5, <3>1, <3>2
  <2> QED BY <1>1, <1>2, <1>4, <1>6, <2>2, <2>3 DEF SearchInv, Narrowed, Elems
<1> QED BY <1>2, <1>5, <1>7, <1>8, <1>9

\* Half a power of two is one, but of 1.
LEMMA Halved ==
  ASSUME NEW k \in Nat
  PROVE  /\ TwoTo(k) \in Nat \ {0}
         /\ \/ TwoTo(k) = 1
            \/ \E l \in Nat : TwoTo(k) = TwoTo(l) + TwoTo(l) /\ TwoTo(l) \in Nat \ {0}
<1>1. CASE k = 0
  BY <1>1, First
<1>2. CASE k # 0
  <2>1. PICK l : l = k - 1
    OBVIOUS
  <2>2. l \in Nat /\ l + 1 = k
    BY <1>2, <2>1
  <2>3. TwoTo(k) = TwoTo(l) + TwoTo(l) /\ TwoTo(l) \in Nat /\ l < TwoTo(l)
    BY <2>2, Doubling, Above
  <2> QED BY <2>2, <2>3
<1> QED BY <1>1, <1>2

LEMMA HalveNarrows ==
  ASSUME SearchInv, Search!Halve
  PROVE  SearchInv'
<1> DEFINE e == array[seat + 1]
<1>1. Narrowed /\ stage = "loop" /\ array' = array /\ want' = want
  BY DEF SearchInv, Search!Halve
<1>2. array \in Seq(Int) /\ Elems \in Nat /\ want \in Int
  BY <1>1, LenProperties DEF SearchInv, Ordered, Elems
<1>3. /\ \A j \in 1 .. Elems : array[j] \in Int
      /\ \A j, l \in 1 .. Elems : j <= l => array[j] <= array[l]
  BY <1>2, ElementOfSeq DEF SearchInv, Ordered, Elems
<1>4. PICK k \in Nat : range = TwoTo(k)
  BY <1>1 DEF Narrowed
<1>5. range \in Nat \ {0} /\ seat \in 0 .. Elems - 1 /\ seat + 1 \in 1 .. Elems /\ e \in Int
  BY <1>1, <1>2, <1>3, <1>4, Halved DEF Narrowed
<1>6. PICK h : h = range \div 2
  OBVIOUS
<1>7. \/ range = 1 /\ h = 0
      \/ range = h + h /\ h \in Nat \ {0} /\ \E l \in Nat : h = TwoTo(l)
  <2>1. CASE range = 1
    BY <1>6, <2>1
  <2>2. CASE \E l \in Nat : range = TwoTo(l) + TwoTo(l) /\ TwoTo(l) \in Nat \ {0}
    <3>1. PICK l \in Nat : range = TwoTo(l) + TwoTo(l) /\ TwoTo(l) \in Nat \ {0}
      BY <2>2
    <3>2. PICK p : p = TwoTo(l)
      OBVIOUS
    <3>3. p \in Nat \ {0} /\ range = p + p
      BY <3>1, <3>2
    <3>4. h = p
      BY <1>6, <3>3
    <3> QED BY <3>2, <3>3, <3>4
  <2> QED BY <1>4, <2>1, <2>2, Halved
<1>8. /\ range' = h
      /\ IF want # e /\ h # 0
         THEN /\ stage' = "loop"
              /\ seat' = IF want < e THEN seat - h ELSE seat + h
         ELSE /\ stage' = "done"
              /\ seat' = IF e = want THEN seat ELSE -1
  <2>1. range' = h /\ seen' = e
    BY <1>6 DEF Search!Halve
  <2>2. CASE want = e
    BY <2>1, <2>2, <1>5 DEF Search!Halve, Search!Answer
  <2>3. CASE want < e
    BY <2>1, <2>3, <1>2, <1>5 DEF Search!Halve, Search!Answer
  <2>4. CASE want > e
    BY <2>1, <2>4, <1>2, <1>5 DEF Search!Halve, Search!Answer
  <2> QED BY <1>2, <1>5, <2>2, <2>3, <2>4
<1> HIDE DEF e
<1>9. (\E j \in 1 .. Elems : array[j] = want) =>
        \E j \in 1 .. Elems : array[j] = want /\ j > seat + 1 - range /\ j < seat + 1 + range
  BY <1>1 DEF Narrowed
<1>10. CASE want = e
  <2>1. stage' = "done" /\ seat' = seat
    BY <1>8, <1>10
  <2>2. Found'
    BY <1>1, <1>5, <1>10, <2>1 DEF Found, Elems, e
  <2> QED BY <1>1, <2>1, <2>2 DEF SearchInv
<1>11. CASE want # e /\ h = 0
  <2>1. stage' = "done" /\ seat' = -1 /\ range = 1
    BY <1>7, <1>8, <1>11
  <2>2. ASSUME NEW j \in 1 .. Elems, array[j] = want PROVE FALSE
    <3>1. PICK l \in 1 .. Elems : array[l] = want /\ l > seat + 1 - 1 /\ l < seat + 1 + 1
      BY <1>9, <2>1, <2>2
    <3>2. l = seat + 1
      BY <1>5, <3>1
    <3> QED BY <1>11, <3>1, <3>2 DEF e
  <2>3. Found'
    BY <1>1, <2>1, <2>2 DEF Found, Elems
  <2> QED BY <1>1, <2>1, <2>3 DEF SearchInv
<1>12. CASE want < e /\ h # 0
  <2>1. stage' = "loop" /\ seat' = seat - h /\ range' = h /\ range = h + h /\ h \in Nat \ {0}
    BY <1>2, <1>5, <1>7, <1>8, <1>12
  <2>2. seat >= range - 1
    BY <1>1, <1>2, <1>5, <1>12 DEF Narrowed, e
  <2>3. seat' \in 0 .. Elems - 1 /\ seat' >= h - 1 /\ seat' + h <= Elems
    BY <1>2, <1>5, <2>1, <2>2
  <2>4. ASSUME NEW j \in 1 .. Elems, array[j] = want
        PROVE  \E l \in 1 .. Elems : array[l] = want /\ l > seat' + 1 - h /\ l < seat' + 1 + h
    <3>1. PICK l \in 1 .. Elems : array[l] = want /\ l > seat + 1 - range /\ l < seat + 1 + range
      BY <1>9, <2>4
    <3>2. ~ seat + 1 <= l
      BY <1>2, <1>3, <1>5, <1>12, <3>1 DEF e
    <3> QED BY <1>5, <2>1, <3>1, <3>2
  <2>5. Narrowed'
    BY <1>1, <1>7, <1>12, <2>1, <2>3, <2>4 DEF Narrowed, Elems
  <2> QED BY <1>1, <2>1, <2>5 DEF SearchInv
<1>13. CASE want > e /\ h # 0
  <2>1. stage' = "loop" /\ seat' = seat + h /\ range' = h /\ range = h + h /\ h \in Nat \ {0}
    BY <1>2, <1>5, <1>7, <1>8, <1>13
  <2>2. seat + range <= Elems
    BY <1>1, <1>2, <1>5, <1>13 DEF Narrowed, e
  <2>3. seat' \in 0 .. Elems - 1 /\ seat' >= h - 1 /\ seat' + h <= Elems
    BY <1>2, <1>5, <2>1, <2>2
  <2>4. ASSUME NEW j \in 1 .. Elems, array[j] = want
        PROVE  \E l \in 1 .. Elems : array[l] = want /\ l > seat' + 1 - h /\ l < seat' + 1 + h
    <3>1. PICK l \in 1 .. Elems : array[l] = want /\ l > seat + 1 - range /\ l < seat + 1 + range
      BY <1>9, <2>4
    <3>2. ~ l <= seat + 1
      BY <1>2, <1>3, <1>5, <1>13, <3>1 DEF e
    <3> QED BY <1>5, <2>1, <3>1, <3>2
  <2>5. Narrowed'
    BY <1>1, <1>7, <1>13, <2>1, <2>3, <2>4 DEF Narrowed, Elems
  <2> QED BY <1>1, <2>1, <2>5 DEF SearchInv
<1> QED BY <1>2, <1>5, <1>10, <1>11, <1>12, <1>13

\* The search never reads outside the array, and a value that is there is
\* always less than the range away.
THEOREM SearchInductive ==
  ASSUME Search!ValuesFit
  PROVE  Search!Spec => []SearchInv
<1>1. Search!Init => SearchInv
  <2> SUFFICES ASSUME Search!Init PROVE SearchInv
    OBVIOUS
  <2>1. PICK n \in 0 .. MaxElems : array \in Search!Ascending(n)
    BY DEF Search!Init
  <2>2. n \in Nat
    BY DEF Search!ValuesFit
  <2>3. Ordered(array)
    BY <2>1, <2>2, AscendingOrdered
  <2> QED BY <2>3 DEF Search!Init, SearchInv, Search!ValuesFit
<1>2. SearchInv /\ [Search!Next]_(Search!vars) => SearchInv'
  <2>1. ASSUME SearchInv, Search!NoElements PROVE SearchInv'
    <3>1. Elems = 0 /\ 1 .. Elems = {}
      BY <2>1 DEF Search!NoElements, Elems
    <3>2. stage = "start" /\ stage' = "done" /\ UNCHANGED <<array, want, range, seat, seen>>
      BY <2>1 DEF Search!NoElements
    <3>3. Found'
      BY <2>1, <3>1, <3>2 DEF Found, Elems, SearchInv
    <3> QED BY <2>1, <3>2, <3>3 DEF SearchInv
  <2>2. ASSUME SearchInv, UNCHANGED Search!vars PROVE SearchInv'
    BY <2>2 DEF SearchInv, Narrowed, Found, Elems, Search!vars
  <2> QED BY <2>1, <2>2, StartNarrows, HalveNarrows DEF Search!Next
<1> QED BY <1>1, <1>2, PTL DEF Search!Spec

\* bsearch finds a value exactly when it is there, in an ascending array of
\* any length, and reads nothing but the array.
THEOREM SearchFinds ==
  ASSUME Search!ValuesFit
  PROVE  Search!Spec => []Search!FindsIffThere
<1>1. SearchInv => Search!FindsIffThere
  <2> SUFFICES ASSUME SearchInv PROVE Search!FindsIffThere
    OBVIOUS
  <2>1. DOMAIN array = 1 .. Elems
    BY LenProperties DEF SearchInv, Ordered, Elems
  <2>2. stage = "loop" => seat \in 0 .. Elems - 1
    BY DEF SearchInv, Narrowed
  <2>3. stage = "done" => Found
    BY DEF SearchInv
  <2> QED BY <2>1, <2>2, <2>3 DEF Found, Search!FindsIffThere, Search!nelems, Elems
<1> QED BY <1>1, SearchInductive, PTL

-----------------------------------------------------------------------------
(* The layout of a cache's block. *)

CONSTANTS
  BlockLengths, ChainLengths, Percentages,
  SizeHeader, SizePointer, SizeEntry, Quantum
VARIABLES call, answer

CacheBlock == INSTANCE CacheLayout WITH reply <- answer

LEMMA BinsOf ==
  ASSUME NEW n \in Nat, n <= CacheBlock!IntMax
  PROVE  /\ \E k \in 0 .. 30 : CacheBlock!power2le(n) = TwoTo(k)
         /\ CacheBlock!power2le(n) \in Nat \ {0}
         /\ n < 2 * CacheBlock!power2le(n)
         /\ CacheBlock!power2le(n) = 1 \/ CacheBlock!power2le(n) <= n
<1>1. CASE n = 0
  <2>1. CacheBlock!power2le(n) = 1
    BY <1>1 DEF CacheBlock!power2le
  <2> QED BY <1>1, <2>1, First
<1>2. CASE n # 0
  <2> DEFINE Over == {m \in Nat : n < TwoTo(m + 1)}
             Fits(p) == p <= n /\ n - p < p
             Powers == {TwoTo(k) : k \in 0 .. 30}
  <2>1. 30 \in Over
    <3>1. TwoTo(31) = 2147483648 /\ 30 + 1 = 31
      BY DEF TwoTo
    <3> QED BY <3>1 DEF CacheBlock!IntMax
  <2>2. PICK k : k = Min(Over)
    OBVIOUS
  <2>3. k \in Over /\ \A m \in Over : k <= m
    BY <2>1, <2>2, MinOf
  <2>4. k \in Nat /\ k \in 0 .. 30
    BY <2>1, <2>3
  <2>5. TwoTo(k) \in Nat /\ n < TwoTo(k) + TwoTo(k)
    BY <2>3, <2>4, Doubling
  <2>6. TwoTo(k) <= n
    <3>1. CASE k = 0
      BY <1>2, <3>1, First
    <3>2. CASE k # 0
      <4>1. PICK l : l = k - 1
        OBVIOUS
      <4>2. l \in Nat /\ l + 1 = k /\ ~ k <= l
        BY <2>4, <3>2, <4>1
      <4>3. ~ n < TwoTo(l + 1)
        BY <2>3, <4>2
      <4> QED BY <2>5, <4>2, <4>3
    <3> QED BY <3>1, <3>2
  <2>7. TwoTo(k) \in Powers /\ Fits(TwoTo(k))
    BY <2>4, <2>5, <2>6
  <2>8. CacheBlock!power2le(n) = CHOOSE p \in Powers : Fits(p)
    BY <1>2 DEF CacheBlock!power2le, TwoTo
  <2>9. CacheBlock!power2le(n) \in Powers /\ Fits(CacheBlock!power2le(n))
    BY <2>7, <2>8, Zenon
  <2>10. PICK j \in 0 .. 30 : CacheBlock!power2le(n) = TwoTo(j)
    BY <2>9
  <2>11. TwoTo(j) \in Nat
    <3>1. j \in Nat
      OBVIOUS
    <3> QED BY <3>1, Doubling
  <2> QED BY <1>2, <2>9, <2>10, <2>11
<1> QED BY <1>1, <1>2

LEMMA Multiple ==
  ASSUME NEW q \in Nat, NEW w \in Nat \ {0}
  PROVE  q * w \in Nat /\ (q * w) % w = 0
<1>1. PICK a : a = q * w
  OBVIOUS
<1>2. a \in Nat
  BY <1>1
<1>3. PICK d : d = a \div w
  OBVIOUS
<1>4. d \in Nat /\ a % w \in 0 .. w - 1 /\ a = d * w + (a % w)
  BY <1>2, <1>3, Division
<1>5. PICK x : x = q - d
  OBVIOUS
<1>6. x \in Int /\ x * w = a % w
  BY <1>1, <1>4, <1>5
<1>7. CASE x = 0
  BY <1>1, <1>2, <1>6, <1>7
<1>8. CASE x >= 1
  <2>1. x * w >= w
    BY <1>6, <1>8
  <2> QED BY <1>4, <1>6, <2>1
<1>9. CASE x <= -1
  <2>1. x * w <= -w
    BY <1>6, <1>9
  <2> QED BY <1>4, <1>6, <2>1
<1> QED BY <1>6, <1>7, <1>8, <1>9

LEMMA Rounded ==
  ASSUME NEW n \in Nat, NEW w \in Nat \ {0}
  PROVE  /\ (n \div w) * w \in Nat /\ ((n \div w) * w) % w = 0
         /\ (n \div w) * w <= n /\ n < (n \div w) * w + w
<1>1. PICK q : q = n \div w
  OBVIOUS
<1>2. q \in Nat /\ n % w \in 0 .. w - 1 /\ n = q * w + (n % w)
  BY <1>1, Division
<1>3. q * w \in Nat /\ (q * w) % w = 0
  BY <1>2, Multiple
<1> QED BY <1>1, <1>2, <1>3

\* The entries of a block and the bins that share them out.
LEMMA EntriesOf ==
  ASSUME CacheBlock!SizesFit, NEW c \in CacheBlock!Calls, CacheBlock!ValidArguments(c)
  PROVE  /\ CacheBlock!nentries(c) \in Nat
         /\ CacheBlock!nentries(c) <= c.length \div SizeEntry
         /\ \E k \in 0 .. 30 : CacheBlock!nbins(c) = TwoTo(k)
         /\ CacheBlock!nbins(c) \in Nat \ {0}
         /\ CacheBlock!nentries(c) < 2 * (CacheBlock!nbins(c) * c.chain)
         /\ CacheBlock!nbins(c) = 1 \/ CacheBlock!nbins(c) * c.chain <= CacheBlock!nentries(c)
<1>1. /\ c.length \in Nat /\ c.chain \in Nat \ {0} /\ c.percentage \in 5 .. 95
      /\ SizeEntry \in Nat \ {0}
      /\ c.length \div SizeEntry <= CacheBlock!IntMax
  <2>1. c.length \in BlockLengths /\ c.chain \in ChainLengths /\ c.percentage \in Percentages
    BY DEF CacheBlock!Calls
  <2>2. c.length \in Nat /\ c.length \div SizeEntry <= CacheBlock!IntMax
    BY <2>1 DEF CacheBlock!SizesFit
  <2>3. c.chain \in Int /\ c.percentage \in Int /\ SizeEntry \in Nat \ {0}
    BY <2>1 DEF CacheBlock!SizesFit
  <2> QED BY <2>2, <2>3 DEF CacheBlock!ValidArguments
<1>2. PICK x : x = c.length \div SizeEntry
  OBVIOUS
<1>3. PICK p : p = c.percentage
  OBVIOUS
<1>4. x \in Nat /\ x <= CacheBlock!IntMax /\ p \in 5 .. 95
  BY <1>1, <1>2, <1>3, Division
<1>5. PICK y : y = x * p
  OBVIOUS
<1>6. y \in Nat /\ y <= x * 100
  BY <1>4, <1>5
<1>7. PICK n : n = y \div 100
  OBVIOUS
<1>8. n \in Nat /\ n <= x
  <2>1. n * 100 \in Nat /\ n * 100 <= y /\ n \in Nat
    BY <1>6, <1>7
  <2> QED BY <1>4, <1>6, <2>1
<1>9. CacheBlock!nentries(c) = n
  BY <1>2, <1>3, <1>5, <1>7 DEF CacheBlock!nentries
<1>10. PICK h : h = c.chain
  OBVIOUS
<1>11. PICK q : q = n \div h
  OBVIOUS
<1>12. h \in Nat \ {0} /\ q \in Nat /\ q * h <= n /\ n < q * h + h /\ q <= n
  <2>1. h \in Nat \ {0}
    BY <1>1, <1>10
  <2>2. q \in Nat /\ n % h \in 0 .. h - 1 /\ n = q * h + (n % h)
    BY <1>8, <1>11, <2>1, Division
  <2>3. q * h >= q
    BY <2>1, <2>2
  <2> QED BY <1>8, <2>1, <2>2, <2>3
<1>13. PICK b : b = CacheBlock!power2le(q)
  OBVIOUS
<1>14. q <= CacheBlock!IntMax
  BY <1>4, <1>8, <1>12 DEF CacheBlock!IntMax
<1>15. /\ \E k \in 0 .. 30 : b = TwoTo(k)
       /\ b \in Nat \ {0} /\ q < 2 * b
       /\ b = 1 \/ b <= q
  BY <1>12, <1>13, <1>14, BinsOf
<1>16. CacheBlock!nbins(c) = b
  BY <1>9, <1>10, <1>11, <1>13 DEF CacheBlock!nbins
<1>17. n < 2 * (b * h)
  <2>1. q + 1 <= 2 * b
    BY <1>12, <1>15
  <2>2. (q + 1) * h <= (2 * b) * h
    BY <1>12, <1>15, <2>1
  <2>3. (q + 1) * h = q * h + h /\ (2 * b) * h = 2 * (b * h)
    BY <1>12, <1>15
  <2> QED BY <1>8, <1>12, <1>15, <2>2, <2>3
<1>18. b = 1 \/ b * h <= n
  <2>1. ASSUME b <= q PROVE b * h <= q * h
    BY <1>12, <1>15, <2>1
  <2> QED BY <1>8, <1>12, <1>15, <2>1
<1> QED BY <1>2, <1>8, <1>9, <1>10, <1>15, <1>16, <1>17, <1>18

\* Where there is room, no difference wraps.
LEMMA PartsOf ==
  ASSUME CacheBlock!SizesFit, NEW c \in CacheBlock!Calls, CacheBlock!ValidArguments(c),
         CacheBlock!HasRoom(c)
  PROVE  /\ CacheBlock!ofentries(c) \in Nat /\ CacheBlock!szentries(c) \in Nat
         /\ CacheBlock!ofstore(c) \in Nat /\ CacheBlock!ofstore(c) % Quantum = 0
         /\ CacheBlock!ofstore(c) >= CacheBlock!ofentries(c) + CacheBlock!szentries(c)
         /\ CacheBlock!szstore(c) \in Nat /\ CacheBlock!szstore(c) % Quantum = 0
         /\ CacheBlock!szstore(c) >= Quantum
         /\ CacheBlock!ofstore(c) + CacheBlock!szstore(c) <= c.length
         /\ c.function = "cache_create" =>
              CacheBlock!szcache(c) = CacheBlock!ofstore(c) + CacheBlock!szstore(c)
<1>1. /\ c.length \in Nat /\ 4 * c.length < SizeModulus /\ SizeModulus \in Nat
      /\ SizeHeader \in Nat /\ SizePointer \in Nat /\ SizeEntry \in Nat /\ Quantum \in Nat \ {0}
  BY DEF CacheBlock!SizesFit, CacheBlock!Calls
<1>2. PICK e : e = CacheBlock!ofentries(c)
  OBVIOUS
<1>3. PICK z : z = CacheBlock!szentries(c)
  OBVIOUS
<1>4. e \in Nat /\ z \in Nat
  <2>1. CacheBlock!nentries(c) \in Nat /\ CacheBlock!nbins(c) \in Nat
    BY EntriesOf
  <2>2. \A m, n \in Nat : m * n \in Nat
    OBVIOUS
  <2>3. SizeEntry * CacheBlock!nentries(c) \in Nat /\ SizePointer * (CacheBlock!nbins(c) + 1) \in Nat
    BY <1>1, <2>1, <2>2
  <2> QED BY <1>1, <1>2, <1>3, <2>3 DEF CacheBlock!ofentries, CacheBlock!szentries
<1>5. PICK u : u = e + z + Quantum - 1
  OBVIOUS
<1>6. PICK o : o = (u \div Quantum) * Quantum
  OBVIOUS
<1>7. u \in Nat
  BY <1>1, <1>4, <1>5
<1>8. o \in Nat /\ o % Quantum = 0 /\ o <= u /\ u < o + Quantum
  BY <1>1, <1>6, <1>7, Rounded
<1>9. o >= e + z
  BY <1>1, <1>4, <1>5, <1>8
<1>10. CacheBlock!ofstore(c) = o
  BY <1>2, <1>3, <1>5, <1>6 DEF CacheBlock!ofstore, CacheBlock!RoundUp
<1>11. PICK v : v = c.length - o
  OBVIOUS
<1>12. v \in Nat /\ v < SizeModulus /\ v >= Quantum /\ v <= c.length
  BY <1>1, <1>8, <1>10, <1>11 DEF CacheBlock!HasRoom
<1>13. v % SizeModulus = v
  BY <1>1, <1>12
<1>14. PICK s : s = (v \div Quantum) * Quantum
  OBVIOUS
<1>15. s \in Nat /\ s % Quantum = 0 /\ s <= v /\ v < s + Quantum
  BY <1>1, <1>12, <1>14, Rounded
<1>16. CacheBlock!szstore(c) = s
  BY <1>10, <1>11, <1>13, <1>14 DEF CacheBlock!szstore, CacheBlock!Size, CacheBlock!RoundDown
<1>17. s >= Quantum
  <2>1. PICK q : q = v \div Quantum
    OBVIOUS
  <2>2. q \in Nat /\ s = q * Quantum
    BY <1>1, <1>12, <1>14, <2>1
  <2>3. q # 0
    BY <1>1, <1>12, <1>15, <2>2
  <2>4. q * Quantum >= Quantum
    BY <1>1, <2>2, <2>3
  <2> QED BY <2>2, <2>4
<1>18. o + s <= c.length /\ (o + s) % SizeModulus = o + s
  BY <1>1, <1>8, <1>11, <1>12, <1>15
<1>19. c.function = "cache_create" => CacheBlock!szcache(c) = o + s
  BY <1>10, <1>16, <1>18 DEF CacheBlock!szcache, CacheBlock!Size
<1> QED BY <1>2, <1>3, <1>4, <1>8, <1>9, <1>10, <1>15, <1>16, <1>17, <1>18, <1>19

\* A difference that should be negative comes out below the modulus.
LEMMA BelowModulus ==
  ASSUME NEW m \in Nat, NEW k \in Nat \ {0}, k <= m
  PROVE  (-k) % m = m - k
<1>1. PICK r : r = (-k) % m
  OBVIOUS
<1>2. PICK d : d = (-k) \div m
  OBVIOUS
<1>3. m \in Nat \ {0} /\ -k \in Int
  OBVIOUS
<1>4. d \in Int /\ r \in 0 .. m - 1 /\ -k = d * m + r
  BY <1>1, <1>2, <1>3
<1>5. CASE d >= 0
  <2>1. d * m >= 0
    BY <1>3, <1>4, <1>5
  <2> QED BY <1>4, <2>1
<1>6. CASE d <= -2
  <2>1. d * m <= -2 * m
    BY <1>3, <1>4, <1>6
  <2> QED BY <1>3, <1>4, <2>1
<1>7. CASE d = -1
  BY <1>1, <1>4, <1>7
<1> QED BY <1>4, <1>5, <1>6, <1>7

\* The parts before the store are at most three times the block.
LEMMA PartsBefore ==
  ASSUME CacheBlock!SizesFit, NEW c \in CacheBlock!Calls, CacheBlock!ValidArguments(c),
         CacheBlock!nentries(c) >= 1
  PROVE  CacheBlock!ofstore(c) \in Nat /\ CacheBlock!ofstore(c) <= 3 * c.length
<1>1. PICK L, h, p, z, w :
        L = c.length /\ h = SizeHeader /\ p = SizePointer /\ z = SizeEntry /\ w = Quantum
  OBVIOUS
<1>2. /\ L \in Nat /\ L >= 512 /\ h \in Nat /\ p \in Nat /\ z \in Nat \ {0} /\ w \in Nat \ {0}
      /\ p <= z /\ h + p + w <= 512
  <2>1. c.length \in BlockLengths
    BY DEF CacheBlock!Calls
  <2> QED BY <1>1, <2>1
         DEF CacheBlock!SizesFit, CacheBlock!ValidArguments, CacheBlock!MinLength
<1>3. PICK n, b, t : n = CacheBlock!nentries(c) /\ b = CacheBlock!nbins(c) /\ t = c.chain
  OBVIOUS
<1>4. /\ n \in Nat /\ n >= 1 /\ n <= L \div z /\ b \in Nat \ {0}
      /\ b = 1 \/ b * t <= n
  BY <1>1, <1>3, EntriesOf
<1>5. b <= n
  <2>1. t \in Nat \ {0}
    <3>1. c.chain \in ChainLengths
      BY DEF CacheBlock!Calls
    <3>2. c.chain \in Int
      BY <3>1 DEF CacheBlock!SizesFit
    <3>3. c.chain >= 1
      BY DEF CacheBlock!ValidArguments
    <3> QED BY <1>3, <3>2, <3>3
  <2>2. b * t >= b
    BY <1>4, <2>1
  <2>3. b * t \in Nat
    BY <1>4, <2>1
  <2> QED BY <1>4, <2>2, <2>3
<1>6. z * n <= L /\ z * n \in Nat
  <2>1. PICK q : q = L \div z
    OBVIOUS
  <2>2. q \in Nat /\ L % z \in 0 .. z - 1 /\ L = q * z + (L % z)
    BY <1>2, <2>1, Division
  <2>3. z * n <= z * q /\ z * q = q * z
    BY <1>2, <1>4, <2>1, <2>2
  <2>4. z * n \in Nat /\ q * z \in Nat
    BY <1>2, <1>4, <2>2
  <2> QED BY <1>2, <2>2, <2>3, <2>4
<1>7. p * (b + 1) <= L + p /\ p * (b + 1) \in Nat
  <2>1. p * b <= z * b /\ z * b <= z * n
    BY <1>2, <1>4, <1>5
  <2>2. p * (b + 1) = p * b + p /\ p * b \in Nat /\ z * b \in Nat
    BY <1>2, <1>4
  <2> QED BY <1>2, <1>6, <2>1, <2>2
<1>8. PICK u : u = h + p * (b + 1) + z * n + w - 1
  OBVIOUS
<1>9. u \in Nat /\ u <= 3 * L
  BY <1>2, <1>6, <1>7, <1>8
<1>10. CacheBlock!ofstore(c) = (u \div w) * w
  BY <1>1, <1>3, <1>8
     DEF CacheBlock!ofstore, CacheBlock!RoundUp, CacheBlock!ofentries, CacheBlock!szentries
<1>11. (u \div w) * w \in Nat /\ (u \div w) * w <= u
  BY <1>2, <1>9, Rounded
<1> QED BY <1>1, <1>2, <1>9, <1>10, <1>11

\* Where there is no room, the store's length is 0, or it wraps and the store
\* would end above the modulus.
LEMMA PartsWrap ==
  ASSUME CacheBlock!SizesFit, NEW c \in CacheBlock!Calls, CacheBlock!ValidArguments(c),
         CacheBlock!nentries(c) >= 1, ~ CacheBlock!HasRoom(c)
  PROVE  /\ c.length \in Nat /\ c.length < SizeModulus /\ SizeModulus \in Nat
         /\ CacheBlock!szstore(c) \in Nat /\ CacheBlock!ofstore(c) \in Nat
         /\ \/ CacheBlock!szstore(c) = 0
            \/ CacheBlock!ofstore(c) + CacheBlock!szstore(c) >= SizeModulus
<1>1. PICK L, o, w, m : L = c.length /\ o = CacheBlock!ofstore(c) /\ w = Quantum /\ m = SizeModulus
  OBVIOUS
<1>2. /\ L \in Nat /\ L >= 512 /\ w \in Nat \ {0} /\ w <= 512 /\ m \in Nat /\ 4 * L < m
      /\ o \in Nat /\ o <= 3 * L /\ ~ o + w <= L
  <2>1. c.length \in BlockLengths
    BY DEF CacheBlock!Calls
  <2>2. L \in Nat /\ w \in Nat \ {0} /\ m \in Nat /\ 4 * L < m
    BY <1>1, <2>1 DEF CacheBlock!SizesFit
  <2>3. L >= 512 /\ w <= 512
    BY <1>1, <2>2 DEF CacheBlock!SizesFit, CacheBlock!ValidArguments, CacheBlock!MinLength
  <2>4. o \in Nat /\ o <= 3 * L
    BY <1>1, PartsBefore
  <2>5. ~ o + w <= L
    BY <1>1 DEF CacheBlock!HasRoom
  <2> QED BY <2>2, <2>3, <2>4, <2>5
<1>3. PICK v : v = (L - o) % m
  OBVIOUS
<1>4. PICK s : s = (v \div w) * w
  OBVIOUS
<1>5. CacheBlock!szstore(c) = s
  BY <1>1, <1>3, <1>4 DEF CacheBlock!szstore, CacheBlock!Size, CacheBlock!RoundDown
<1>6. CASE o <= L
  <2>1. v = L - o /\ v \in 0 .. w - 1
    BY <1>2, <1>3, <1>6
  <2>2. v \div w = 0
    BY <1>2, <2>1
  <2>3. s = 0
    BY <1>2, <1>4, <2>2
  <2> QED BY <1>1, <1>2, <1>5, <2>3
<1>7. CASE o > L
  <2>1. PICK k : k = o - L
    OBVIOUS
  <2>2. k \in Nat \ {0} /\ k <= m /\ L - o = -k
    BY <1>2, <1>7, <2>1
  <2>3. v = m - k
    BY <1>2, <1>3, <2>2, BelowModulus
  <2>4. v \in Nat
    BY <1>2, <2>2, <2>3
  <2>5. s \in Nat /\ v < s + w
    BY <1>2, <1>4, <2>4, Rounded
  <2>6. o + s >= m
    BY <1>2, <2>1, <2>3, <2>5
  <2> QED BY <1>1, <1>2, <1>5, <2>5, <2>6
<1> QED BY <1>2, <1>6, <1>7

-----------------------------------------------------------------------------

\* What was answered is the layout of the block asked for.
LayoutInv ==
  CacheBlock!Made =>
    /\ call \in CacheBlock!Calls /\ CacheBlock!ValidArguments(call)
    /\ CacheBlock!nentries(call) >= 1
    /\ answer = CacheBlock!ReplyTo(call)

\* An answer is the layout of the block asked for, of arguments that are valid.
THEOREM CacheLayoutInductive ==
  ASSUME CacheBlock!SizesFit
  PROVE  CacheBlock!Spec => []LayoutInv
<1>1. CacheBlock!Init => LayoutInv
  BY DEF CacheBlock!Init, CacheBlock!NoReply, CacheBlock!Made, LayoutInv
<1>2. LayoutInv /\ [CacheBlock!Next]_(CacheBlock!vars) => LayoutInv'
  <2>1. ASSUME NEW c \in CacheBlock!Calls, CacheBlock!Answer(c) PROVE LayoutInv'
    <3>1. call' = c /\ answer' = CacheBlock!ReplyTo(c)
      BY <2>1 DEF CacheBlock!Answer
    <3>2. CacheBlock!ReplyTo(c).result = "OK" =>
            CacheBlock!ValidArguments(c) /\ ~ CacheBlock!nentries(c) < 1
      BY DEF CacheBlock!ReplyTo, CacheBlock!BadArg
    <3>3. CacheBlock!ValidArguments(c) => CacheBlock!nentries(c) \in Nat
      BY <2>1, EntriesOf
    <3> QED BY <2>1, <3>1, <3>2, <3>3 DEF LayoutInv, CacheBlock!Made
  <2>2. ASSUME CacheBlock!Destroy PROVE LayoutInv'
    BY <2>2 DEF CacheBlock!Destroy, CacheBlock!NoReply, CacheBlock!Made, LayoutInv
  <2>3. ASSUME LayoutInv, UNCHANGED CacheBlock!vars PROVE LayoutInv'
    BY <2>3 DEF CacheBlock!vars, CacheBlock!Made, LayoutInv
  <2> QED BY <2>1, <2>2, <2>3 DEF CacheBlock!Next
<1> QED BY <1>1, <1>2, PTL DEF CacheBlock!Spec

LEMMA ChainsShared ==
  ASSUME CacheBlock!SizesFit, LayoutInv
  PROVE  CacheBlock!ChainsAsConfigured
<1> SUFFICES ASSUME CacheBlock!Made PROVE CacheBlock!ChainsAsConfigured
  BY DEF CacheBlock!ChainsAsConfigured
<1>1. PICK c \in CacheBlock!Calls :
        /\ c = call /\ CacheBlock!ValidArguments(c) /\ answer = CacheBlock!ReplyTo(c)
  BY DEF LayoutInv
<1>2. answer.nbins = CacheBlock!nbins(c) /\ answer.nentries = CacheBlock!nentries(c)
  <2>1. answer.result = "OK"
    BY DEF CacheBlock!Made
  <2> QED BY <1>1, <2>1 DEF CacheBlock!ReplyTo, CacheBlock!BadArg
<1>3. /\ \E k \in 0 .. 30 : CacheBlock!nbins(c) = TwoTo(k)
      /\ CacheBlock!nentries(c) < 2 * (CacheBlock!nbins(c) * c.chain)
      /\ CacheBlock!nbins(c) = 1 \/ CacheBlock!nbins(c) * c.chain <= CacheBlock!nentries(c)
  BY <1>1, EntriesOf
<1>4. \E k \in 0 .. 30 : answer.nbins = 2 ^ k
  BY <1>2, <1>3 DEF TwoTo
<1> QED BY <1>1, <1>2, <1>3, <1>4 DEF CacheBlock!ChainsAsConfigured

LEMMA PartsFollow ==
  ASSUME CacheBlock!SizesFit, LayoutInv
  PROVE  CacheBlock!LaidOutIfRoom
<1> SUFFICES ASSUME CacheBlock!Made
             PROVE  CacheBlock!LayoutFits /\ CacheBlock!StoreHoldsFreeBlocks
                      <=> CacheBlock!HasRoom(call)
  BY DEF CacheBlock!LaidOutIfRoom
<1>1. PICK c \in CacheBlock!Calls :
        /\ c = call /\ CacheBlock!ValidArguments(c) /\ CacheBlock!nentries(c) >= 1
        /\ answer = CacheBlock!ReplyTo(c)
  BY DEF LayoutInv
<1>2. /\ answer.nbins = CacheBlock!nbins(c) /\ answer.nentries = CacheBlock!nentries(c)
      /\ answer.ofbins = SizeHeader /\ answer.ofentries = CacheBlock!ofentries(c)
      /\ answer.ofstore = CacheBlock!ofstore(c) /\ answer.storelength = CacheBlock!szstore(c)
      /\ answer.allocated =
           IF c.function = "cache_create" THEN CacheBlock!szcache(c) ELSE c.length
  <2>1. answer.result = "OK"
    BY DEF CacheBlock!Made
  <2> QED BY <1>1, <2>1 DEF CacheBlock!ReplyTo, CacheBlock!BadArg
<1>3. CASE ~ CacheBlock!HasRoom(c)
  <2>1. /\ c.length \in Nat /\ c.length < SizeModulus /\ SizeModulus \in Nat
        /\ CacheBlock!szstore(c) \in Nat /\ CacheBlock!ofstore(c) \in Nat
        /\ \/ CacheBlock!szstore(c) = 0
           \/ CacheBlock!ofstore(c) + CacheBlock!szstore(c) >= SizeModulus
    BY <1>1, <1>3, PartsWrap
  <2>2. CASE CacheBlock!szstore(c) = 0
    <3>1. Quantum \in Nat \ {0}
      BY DEF CacheBlock!SizesFit
    <3>2. ~ answer.storelength >= Quantum
      BY <1>2, <2>2, <3>1
    <3> QED BY <1>1, <1>3, <3>2 DEF CacheBlock!StoreHoldsFreeBlocks
  <2>3. CASE CacheBlock!ofstore(c) + CacheBlock!szstore(c) >= SizeModulus
    <3>1. PICK x : x = CacheBlock!ofstore(c) + CacheBlock!szstore(c)
      OBVIOUS
    <3>2. x \in Nat /\ SizeModulus \in Nat \ {0} /\ x >= SizeModulus
      BY <2>1, <2>3, <3>1
    <3>3. x % SizeModulus < SizeModulus /\ x % SizeModulus \in Nat
      BY <3>2
    <3>4. answer.allocated < SizeModulus /\ answer.allocated \in Nat
      BY <1>1, <1>2, <2>1, <3>1, <3>3
         DEF CacheBlock!szcache, CacheBlock!Size, CacheBlock!Calls, CacheBlock!Functions
    <3>5. ~ answer.ofstore + answer.storelength <= answer.allocated
      BY <1>2, <3>1, <3>2, <3>4
    <3> QED BY <1>1, <1>3, <3>5 DEF CacheBlock!LayoutFits
  <2> QED BY <2>1, <2>2, <2>3
<1> SUFFICES ASSUME CacheBlock!HasRoom(c)
             PROVE  CacheBlock!LayoutFits /\ CacheBlock!StoreHoldsFreeBlocks
  BY <1>1, <1>3
<1>4. /\ CacheBlock!ofentries(c) \in Nat /\ CacheBlock!szentries(c) \in Nat
      /\ CacheBlock!ofstore(c) \in Nat /\ CacheBlock!ofstore(c) % Quantum = 0
      /\ CacheBlock!ofstore(c) >= CacheBlock!ofentries(c) + CacheBlock!szentries(c)
      /\ CacheBlock!szstore(c) \in Nat /\ CacheBlock!szstore(c) % Quantum = 0
      /\ CacheBlock!szstore(c) >= Quantum
      /\ CacheBlock!ofstore(c) + CacheBlock!szstore(c) <= c.length
      /\ c.function = "cache_create" =>
           CacheBlock!szcache(c) = CacheBlock!ofstore(c) + CacheBlock!szstore(c)
  BY <1>1, PartsOf
<1>5. CacheBlock!LayoutFits
  <2>1. /\ CacheBlock!szentries(c) = SizeEntry * CacheBlock!nentries(c)
        /\ CacheBlock!ofentries(c) = SizeHeader + SizePointer * (CacheBlock!nbins(c) + 1)
    BY DEF CacheBlock!szentries, CacheBlock!ofentries
  <2>2. answer.ofentries >= answer.ofbins + SizePointer * (answer.nbins + 1)
    BY <1>2, <1>4, <2>1
  <2>3. answer.ofstore >= answer.ofentries + SizeEntry * answer.nentries
    BY <1>2, <1>4, <2>1
  <2>4. answer.ofstore + answer.storelength <= answer.allocated
    <3>1. c.function = "cache_create" => CacheBlock!szcache(c) = answer.ofstore + answer.storelength
      BY <1>2, <1>4
    <3> QED BY <1>2, <1>4, <3>1
  <2> QED BY <2>2, <2>3, <2>4 DEF CacheBlock!LayoutFits
<1>6. CacheBlock!StoreHoldsFreeBlocks
  BY <1>2, <1>4 DEF CacheBlock!StoreHoldsFreeBlocks
<1> QED BY <1>5, <1>6

\* The number of bins is a power of two, never 0, and shares the entries out
\* in chains of the length configured or less than twice that, for any block.
THEOREM CacheChains ==
  ASSUME CacheBlock!SizesFit
  PROVE  CacheBlock!Spec => []CacheBlock!ChainsAsConfigured
BY ChainsShared, CacheLayoutInductive, PTL

\* Of the blocks accepted, the parts follow each other and end inside those
\* where header, bins and entries leave room for a store, which is of whole
\* free blocks, and inside no others.  These are not refused: a length below
\* the store's offset gives a difference that wraps, and so does the sum that
\* is checked.
THEOREM CacheBlockLaidOut ==
  ASSUME CacheBlock!SizesFit
  PROVE  CacheBlock!Spec => []CacheBlock!LaidOutIfRoom
BY PartsFollow, CacheLayoutInductive, PTL

-----------------------------------------------------------------------------
(* Streams over a block of memory and over a file. *)

CONSTANTS Datas, BufferSizes, EarlyFill
VARIABLES kind, data, filepos, bufsz, held, before, got, said

Stream == INSTANCE ByteStream WITH buffer <- held, buf <- before, answer <- said

\* A stream has bytes and a buffer, and its client calls fill once that is
\* empty.  A fill before finds the bytes left already moved when there turn out
\* to be no more, and its client reads them at the old place.
Drained ==
  /\ Datas \subseteq Seq(Nat)
  /\ BufferSizes \subseteq Nat \ {0}
  /\ EarlyFill = FALSE

\* How many bytes of the block or file are before the buffer's.
Base == filepos - Len(held)

\* What is left in the buffer is what follows the client's position.
Buffered ==
  /\ kind \in {"mem", "stdio"}
  /\ data \in Seq(Nat) /\ held \in Seq(Nat) /\ bufsz \in Nat \ {0}
  /\ before \in 0 .. Len(held) /\ filepos \in 0 .. Len(data)
  /\ kind = "mem" => filepos = Len(data) /\ held = data
  /\ Base + before >= 0
  /\ \A j \in before + 1 .. Len(held) : held[j] = data[Base + j]

\* The byte that can be put back is still there.
LastHeld == before > 0 /\ Base + before > 0 /\ held[before] = data[Base + before]

StreamInv == Buffered /\ got \in BOOLEAN /\ (got => LastHeld)

\* A byte or more of the file from the FILE's position, or none at its end.
LEMMA ReadFrom ==
  ASSUME StreamInv, NEW n \in Nat \ {0}
  PROVE  /\ Stream!Read(n) \in Seq(Nat)
         /\ Len(Stream!Read(n)) \in 0 .. Len(data) - filepos
         /\ \A j \in 1 .. Len(Stream!Read(n)) : Stream!Read(n)[j] = data[filepos + j]
         /\ Stream!Read(n) = <<>> <=> filepos = Len(data)
         /\ Stream!Read(n) # <<>> => Len(Stream!Read(n)) > 0
<1>1. data \in Seq(Nat) /\ Len(data) \in Nat /\ filepos \in 0 .. Len(data)
  BY LenProperties DEF StreamInv, Buffered
<1>2. PICK e : e = Stream!Lesser(filepos + n, Len(data))
  OBVIOUS
<1>3. e \in Nat /\ e \in filepos .. Len(data) /\ (e = filepos <=> filepos = Len(data))
  BY <1>1, <1>2 DEF Stream!Lesser
<1>4. PICK r : r = SubSeq(data, filepos + 1, e)
  OBVIOUS
<1>5. Stream!Read(n) = r
  BY <1>2, <1>4 DEF Stream!Read
<1>6. r \in Seq(Nat) /\ Len(r) = e - filepos /\ \A j \in 1 .. e - filepos : r[j] = data[filepos + j]
  <2>1. PICK m : m = filepos + 1
    OBVIOUS
  <2>2. /\ m \in Int /\ e \in Int /\ e - m + 1 = e - filepos
        /\ \A j \in m .. e : data[j] \in Nat
        /\ m <= e \/ e - filepos = 0
    BY <1>1, <1>3, <2>1
  <2>3. /\ r \in Seq(Nat) /\ Len(r) = IF m <= e THEN e - m + 1 ELSE 0
        /\ \A j \in 1 .. e - m + 1 : r[j] = data[m + j - 1]
    BY <1>4, <2>1, <2>2, SubSeqProperties
  <2>4. \A j \in 1 .. e - filepos : m + j - 1 = filepos + j
    BY <1>1, <1>3, <2>1
  <2>5. m <= e => e - filepos > 0
    BY <1>1, <1>3, <2>1
  <2> QED BY <2>2, <2>3, <2>4, <2>5
<1>7. r = <<>> <=> Len(r) = 0
  BY <1>6, EmptySeq
<1> QED BY <1>1, <1>3, <1>5, <1>6, <1>7

LEMMA NothingToPutBack == Buffered' /\ got' = FALSE => StreamInv'
<1>1. got' = FALSE => got' \in BOOLEAN /\ ~ got'
  OBVIOUS
<1> QED BY <1>1, Zenon DEF StreamInv

\* A call leaves what it should and is a call of the source.
StreamKept == StreamInv' /\ [Stream!Source!Next]_(Stream!Source!vars)

\* The client's position.
LEMMA PositionIs ==
  ASSUME StreamInv
  PROVE  /\ filepos - Stream!stream_remaining = Base + before
         /\ filepos - Stream!stream_remaining \in Nat
         /\ Stream!stream_remaining = Len(held) - before
         /\ Stream!stream_remaining \in Nat /\ Len(held) \in Nat /\ Len(data) \in Nat
BY LenProperties DEF StreamInv, Buffered, Base, Stream!stream_remaining

LEMMA BufferedStep ==
  ASSUME Drained, StreamInv, Stream!GetBuffered
  PROVE  StreamKept
<1>1. /\ before + 1 \in 1 .. Len(held) /\ before' = before + 1 /\ said' = <<held[before + 1]>>
      /\ UNCHANGED <<kind, data, filepos, bufsz, held>> /\ got' = TRUE
  BY PositionIs DEF Stream!GetBuffered, StreamInv, Buffered
<1>2. held[before + 1] = data[Base + (before + 1)] /\ Base + (before + 1) = Base + before + 1
  <2>1. PICK m : m = before + 1
    OBVIOUS
  <2>2. before \in Nat /\ Base \in Int /\ m \in before + 1 .. Len(held)
    BY <1>1, <2>1, PositionIs DEF StreamInv, Buffered, Base
  <2>3. held[m] = data[Base + m]
    BY <2>2 DEF StreamInv, Buffered
  <2> QED BY <2>1, <2>2, <2>3
<1>3. StreamInv'
  <2>1. Base' = Base /\ Base \in Int
    BY <1>1, PositionIs DEF Base, StreamInv, Buffered
  <2>2. Base + before' > 0 /\ held[before'] = data[Base + before'] /\ before' \in 1 .. Len(held)
    BY <1>1, <1>2, <2>1, PositionIs
  <2>3. \A j \in before' + 1 .. Len(held) : j \in before + 1 .. Len(held)
    BY <1>1, PositionIs DEF StreamInv, Buffered
  <2>4. Buffered'
    BY <1>1, <2>1, <2>2, <2>3, PositionIs DEF StreamInv, Buffered
  <2>5. LastHeld'
    BY <1>1, <2>1, <2>2 DEF LastHeld
  <2> QED BY <1>1, <2>4, <2>5, Zenon DEF StreamInv
<1>4. Stream!Source!Get
  <2>1. filepos - Stream!stream_remaining < Len(data)
    <3>1. filepos \in 0 .. Len(data) /\ before + 1 <= Len(held) /\ before \in Nat
      BY <1>1, PositionIs DEF StreamInv, Buffered
    <3>2. Len(data) \in Nat /\ Len(held) \in Nat /\ Stream!stream_remaining = Len(held) - before
      BY PositionIs
    <3> QED BY <3>1, <3>2
  <2>2. (filepos - Stream!stream_remaining)' = filepos - Stream!stream_remaining + 1
    BY <1>1, PositionIs DEF Stream!stream_remaining, StreamInv, Buffered
  <2>3. said' = <<data[filepos - Stream!stream_remaining + 1]>>
    BY <1>1, <1>2, PositionIs
  <2> QED BY <2>1, <2>2, <2>3 DEF Stream!Source!Get, Stream!GetBuffered
<1> QED BY <1>3, <1>4 DEF StreamKept, Stream!Source!Next

LEMMA EndStep ==
  ASSUME Drained, StreamInv, Stream!stream_remaining = 0, filepos = Len(data),
         said' = Stream!EOF, got' = FALSE,
         UNCHANGED <<kind, data, filepos, bufsz, held, before>>
  PROVE  StreamKept /\ Stream!Source!Get /\ Stream!Source!Fill
<1>1. StreamInv'
  BY NothingToPutBack DEF StreamInv, Buffered, Base
<1>2. ~ filepos - Stream!stream_remaining < Len(data) /\ filepos - Stream!stream_remaining >= Len(data)
  BY PositionIs
<1>3. (filepos - Stream!stream_remaining)' = filepos - Stream!stream_remaining
  BY DEF Stream!stream_remaining
<1>4. said' = Stream!Source!EOF
  BY DEF Stream!EOF, Stream!Source!EOF
<1>5. Stream!Source!Get /\ Stream!Source!Fill
  BY <1>2, <1>3, <1>4 DEF Stream!Source!Get, Stream!Source!Fill
<1> QED BY <1>1, <1>5 DEF StreamKept, Stream!Source!Next

LEMMA MemGetStep ==
  ASSUME Drained, StreamInv, Stream!stream_mem_get
  PROVE  StreamKept
BY EndStep DEF Stream!stream_mem_get, StreamInv, Buffered

\* A buffer filled anew.
LEMMA Refilled ==
  ASSUME Drained, StreamInv, NEW n \in Nat \ {0}, kind = "stdio", Stream!stream_remaining = 0,
         Stream!Read(n) # <<>>, held' = Stream!Read(n), NEW b \in {0, 1}, before' = b,
         filepos' = filepos + Len(Stream!Read(n)), got' = FALSE \/ (b = 1 /\ got' = TRUE), UNCHANGED <<kind, data, bufsz>>
  PROVE  /\ StreamInv'
         /\ filepos < Len(data) /\ filepos - Stream!stream_remaining = filepos
         /\ Len(Stream!Read(n)) \in 1 .. Len(data) - filepos
         /\ Stream!Read(n)[1] = data[filepos + 1]
         /\ (filepos - Stream!stream_remaining)' = filepos + b
<1>1. PICK r : r = Stream!Read(n)
  OBVIOUS
<1>2. /\ r \in Seq(Nat) /\ Len(r) \in 1 .. Len(data) - filepos
      /\ \A j \in 1 .. Len(r) : r[j] = data[filepos + j]
  <2>1. /\ Stream!Read(n) \in Seq(Nat)
        /\ Len(Stream!Read(n)) \in 0 .. Len(data) - filepos
        /\ Len(Stream!Read(n)) > 0
        /\ \A j \in 1 .. Len(Stream!Read(n)) : Stream!Read(n)[j] = data[filepos + j]
    BY ReadFrom
  <2>2. Len(r) \in 0 .. Len(data) - filepos /\ Len(r) > 0
    BY <1>1, <2>1
  <2> QED BY <1>1, <2>1, <2>2
<1>3. filepos < Len(data)
  BY <1>2, PositionIs DEF StreamInv, Buffered
<1>4. held' = r /\ filepos' = filepos + Len(r) /\ Base' = filepos
  BY <1>1, <1>2, PositionIs DEF Base, StreamInv, Buffered
<1>5. StreamInv'
  <2>1. /\ Base' + before' = filepos + b /\ filepos + b \in Nat /\ b \in 0 .. Len(r)
        /\ filepos' \in 0 .. Len(data)
        /\ b = 1 => filepos + b > 0
    BY <1>2, <1>4, PositionIs DEF StreamInv, Buffered
  <2>2. \A j \in b + 1 .. Len(r) : r[j] = data[Base' + j]
    BY <1>2, <1>4
  <2>3. Buffered'
    BY <1>2, <1>4, <2>1, <2>2, PositionIs DEF StreamInv, Buffered
  <2>4. b = 1 => LastHeld'
    BY <1>2, <1>4, <2>1 DEF LastHeld
  <2>5. got' \in BOOLEAN /\ (got' => b = 1)
    <3>1. TRUE \in BOOLEAN /\ FALSE \in BOOLEAN
      OBVIOUS
    <3> QED BY <3>1, Zenon
  <2> QED BY <2>3, <2>4, <2>5, Zenon DEF StreamInv
<1>6. (filepos - Stream!stream_remaining)' = filepos + b
  <2>1. (filepos - Stream!stream_remaining)' = filepos' - (Len(held') - before')
    BY DEF Stream!stream_remaining
  <2>2. PICK f, l, c : f = filepos' /\ l = Len(held') /\ c = before'
    OBVIOUS
  <2>3. filepos \in Int /\ l \in Int /\ f = filepos + l /\ c = b
    BY <1>2, <1>4, <2>2, PositionIs DEF StreamInv, Buffered
  <2>4. f - (l - c) = filepos + b
    BY <2>3
  <2> QED BY <2>1, <2>2, <2>4
<1>7. filepos - Stream!stream_remaining = filepos
  BY DEF StreamInv, Buffered
<1> QED BY <1>1, <1>2, <1>3, <1>5, <1>6, <1>7

LEMMA FileGetStep ==
  ASSUME Drained, StreamInv, Stream!stream_stdio_get
  PROVE  StreamKept
<1>1. bufsz \in Nat \ {0} /\ kind = "stdio" /\ Stream!stream_remaining = 0
  BY DEF StreamInv, Buffered, Stream!stream_stdio_get
<1>2. CASE Stream!Read(bufsz) = <<>>
  <2>1. filepos = Len(data)
    BY <1>1, <1>2, ReadFrom
  <2> QED BY <1>1, <1>2, <2>1, EndStep DEF Stream!stream_stdio_get
<1>3. CASE Stream!Read(bufsz) # <<>>
  <2>1. /\ held' = Stream!Read(bufsz) /\ before' = 1 /\ got' = TRUE
        /\ filepos' = filepos + Len(Stream!Read(bufsz))
        /\ said' = <<Stream!Read(bufsz)[1]>> /\ UNCHANGED <<kind, data, bufsz>>
    BY <1>3 DEF Stream!stream_stdio_get
  <2>2. /\ StreamInv' /\ filepos < Len(data) /\ filepos - Stream!stream_remaining = filepos
        /\ Stream!Read(bufsz)[1] = data[filepos + 1]
        /\ (filepos - Stream!stream_remaining)' = filepos + 1
    BY <1>1, <1>3, <2>1, Refilled
  <2>3. Stream!Source!Get
    BY <2>1, <2>2 DEF Stream!Source!Get
  <2> QED BY <2>2, <2>3 DEF StreamKept, Stream!Source!Next
<1> QED BY <1>2, <1>3

LEMMA UngetStep ==
  ASSUME Drained, StreamInv, Stream!stream_ungetc
  PROVE  StreamKept
<1>1. before \in 1 .. Len(held) /\ Base + before > 0 /\ held[before] = data[Base + before]
  <2>1. LastHeld
    BY Zenon DEF StreamInv, Stream!stream_ungetc
  <2> QED BY <2>1, PositionIs DEF LastHeld, StreamInv, Buffered
<1>2. before' = before - 1 /\ got' = FALSE /\ UNCHANGED <<kind, data, filepos, bufsz, held, said>>
  BY DEF Stream!stream_ungetc
<1>3. StreamInv'
  <2>1. Base' = Base /\ Base \in Int
    BY <1>2, PositionIs DEF Base, StreamInv, Buffered
  <2>2. Base + before' >= 0 /\ before' \in 0 .. Len(held)
    BY <1>1, <1>2, <2>1, PositionIs
  <2>3. \A j \in before' + 1 .. Len(held) : j = before \/ j \in before + 1 .. Len(held)
    <3>1. PICK b : b = before
      OBVIOUS
    <3>2. PICK c : c = before'
      OBVIOUS
    <3>3. Len(held) \in Nat /\ b \in Int /\ c = b - 1
      BY <1>1, <1>2, <3>1, <3>2, PositionIs
    <3>4. \A j \in c + 1 .. Len(held) : j = b \/ j \in b + 1 .. Len(held)
      BY <3>3
    <3> QED BY <3>1, <3>2, <3>4
  <2>4. \A j \in before' + 1 .. Len(held) : held[j] = data[Base + j]
    BY <1>1, <2>3 DEF StreamInv, Buffered
  <2>5. Buffered'
    BY <1>2, <2>1, <2>2, <2>4 DEF StreamInv, Buffered
  <2> QED BY <1>2, <2>5, NothingToPutBack
<1>4. Stream!Source!Unget
  <2>1. filepos - Stream!stream_remaining > 0
    BY <1>1, PositionIs
  <2>2. (filepos - Stream!stream_remaining)' = filepos - Stream!stream_remaining - 1
    BY <1>1, <1>2, PositionIs DEF Stream!stream_remaining, StreamInv, Buffered
  <2> QED BY <1>2, <2>1, <2>2 DEF Stream!Source!Unget
<1> QED BY <1>3, <1>4 DEF StreamKept, Stream!Source!Next

\* An empty buffer has nothing to move.
LEMMA NothingShifted ==
  ASSUME StreamInv, Stream!stream_remaining = 0
  PROVE  \A r \in Seq(Nat) : SubSeq(Stream!Shifted, 1, Stream!stream_remaining) \o r = r
<1> SUFFICES ASSUME NEW r \in Seq(Nat)
             PROVE  SubSeq(Stream!Shifted, 1, 0) \o r = r
  OBVIOUS
<1>1. SubSeq(Stream!Shifted, 1, 0) = <<>>
  OBVIOUS
<1> QED BY <1>1

LEMMA FillStep ==
  ASSUME Drained, StreamInv, Stream!stream_fill
  PROVE  StreamKept
<1>1. Stream!stream_remaining = 0 /\ bufsz \in Nat \ {0} /\ got' = FALSE
  BY DEF Drained, StreamInv, Buffered, Stream!stream_fill, Stream!MayFill
<1>2. CASE Stream!FillNothing
  <2>1. kind = "mem" /\ said' = Stream!EOF /\ UNCHANGED <<kind, data, filepos, bufsz, held, before>>
    BY <1>1, <1>2 DEF Stream!FillNothing
  <2> QED BY <1>1, <2>1, EndStep DEF StreamInv, Buffered
<1>3. CASE Stream!FillFile
  <2>1. kind = "stdio" /\ UNCHANGED <<kind, data, bufsz>> /\ bufsz - Stream!stream_remaining = bufsz
    BY <1>1, <1>3 DEF Stream!FillFile
  <2>2. CASE Stream!Read(bufsz) = <<>>
    <3>1. filepos = Len(data)
      BY <1>1, <2>2, ReadFrom
    <3>2. held' = held /\ said' = Stream!EOF /\ UNCHANGED <<filepos, before>>
      BY <1>1, <1>3, <2>1, <2>2 DEF Stream!FillFile
    <3> QED BY <1>1, <2>1, <3>1, <3>2, EndStep
  <2>3. CASE Stream!Read(bufsz) # <<>>
    <3>1. Stream!Read(bufsz) \in Seq(Nat)
      BY <1>1, ReadFrom
    <3>2. /\ held' = SubSeq(Stream!Shifted, 1, Stream!stream_remaining) \o Stream!Read(bufsz)
          /\ before' = 0 /\ filepos' = filepos + Len(Stream!Read(bufsz))
          /\ said' = <<Stream!stream_remaining + Len(Stream!Read(bufsz))>>
      BY <1>3, <2>1, <2>3 DEF Stream!FillFile
    <3>3. held' = Stream!Read(bufsz)
      BY <1>1, <3>1, <3>2, NothingShifted
      <3>5. /\ StreamInv' /\ filepos < Len(data) /\ filepos - Stream!stream_remaining = filepos
          /\ Len(Stream!Read(bufsz)) \in 1 .. Len(data) - filepos
          /\ (filepos - Stream!stream_remaining)' = filepos + 0
      BY <1>1, <2>1, <2>3, <3>2, <3>3, Refilled
    <3>6. said' = <<Len(Stream!Read(bufsz))>> /\ filepos + 0 = filepos
      BY <1>1, <3>2, <3>5 DEF StreamInv, Buffered
    <3>7. Stream!Source!Fill
      BY <2>1, <3>5, <3>6 DEF Stream!Source!Fill
    <3> QED BY <3>5, <3>7 DEF StreamKept, Stream!Source!Next
  <2> QED BY <2>2, <2>3
<1> QED BY <1>2, <1>3 DEF Stream!stream_fill

LEMMA SeekStep ==
  ASSUME Drained, StreamInv, Stream!stream_seek
  PROVE  StreamKept
<1>1. PICK pos \in 0 .. Len(data) : Stream!Seeked(pos)
  BY DEF Stream!stream_seek
<1>2. got' = FALSE /\ UNCHANGED <<kind, data, bufsz, said>>
  BY DEF Stream!stream_seek
<1>3. pos \in Nat /\ pos <= Len(data)
  BY <1>1, PositionIs
<1>4. StreamInv' /\ (filepos - Stream!stream_remaining)' = pos
  <2>1. CASE kind = "mem"
    <3>1. before' = pos /\ UNCHANGED <<filepos, held>> /\ held = data /\ filepos = Len(data)
      BY <1>1, <2>1 DEF Stream!Seeked, StreamInv, Buffered
    <3>2. Base = 0 /\ Base' = 0 /\ pos \in 0 .. Len(held)
      BY <1>2, <1>3, <3>1, PositionIs DEF Base
    <3>3. held \in Seq(Nat) /\ \A j \in pos + 1 .. Len(held) : held[j] = data[0 + j]
      BY <3>1, PositionIs DEF StreamInv, Buffered
    <3>4. Buffered'
      BY <1>2, <1>3, <3>1, <3>2, <3>3 DEF StreamInv, Buffered
    <3>5. (filepos - Stream!stream_remaining)' = Len(held) - (Len(held) - pos)
      BY <3>1 DEF Stream!stream_remaining
    <3> QED BY <1>2, <1>3, <3>4, <3>5, PositionIs, NothingToPutBack
  <2>2. CASE kind # "mem"
    <3>1. filepos' = pos /\ before' = Len(held) /\ UNCHANGED held
      BY <1>1, <2>2 DEF Stream!Seeked
    <3>2. Base' = pos - Len(held) /\ Base' + before' = pos /\ before' \in 0 .. Len(held)
      BY <1>3, <3>1, PositionIs DEF Base
    <3>3. before' + 1 .. Len(held) = {}
      BY <3>1, PositionIs
    <3>4. Buffered'
      BY <1>1, <1>2, <1>3, <2>2, <3>1, <3>2, <3>3 DEF StreamInv, Buffered
    <3>5. (filepos - Stream!stream_remaining)' = pos - (Len(held) - Len(held))
      BY <3>1 DEF Stream!stream_remaining
    <3> QED BY <1>2, <1>3, <3>4, <3>5, PositionIs, NothingToPutBack
  <2> QED BY <2>1, <2>2
<1>5. Stream!Source!Seek
  BY <1>2, <1>3, <1>4 DEF Stream!Source!Seek
<1> QED BY <1>4, <1>5 DEF StreamKept, Stream!Source!Next

LEMMA SeekFailsStep ==
  ASSUME Drained, StreamInv, Stream!SeekFails \/ UNCHANGED Stream!vars
  PROVE  StreamKept
<1>1. /\ UNCHANGED <<kind, data, filepos, bufsz, held, before, said>>
      /\ got' = FALSE \/ got' = got
  BY DEF Stream!SeekFails, Stream!vars
<1>2. StreamInv'
  <2>1. Buffered' /\ (LastHeld => LastHeld')
    BY <1>1 DEF StreamInv, Buffered, Base, LastHeld
  <2> QED BY <1>1, <2>1, NothingToPutBack, Zenon DEF StreamInv
<1> QED BY <1>1, <1>2 DEF StreamKept, Stream!Source!vars, Stream!stream_remaining

LEMMA StreamInitInv ==
  ASSUME Drained, Stream!Init
  PROVE  StreamInv /\ Stream!Source!Init
<1>1. data \in Seq(Nat) /\ bufsz \in Nat \ {0} /\ Len(data) \in Nat
  BY LenProperties DEF Drained, Stream!Init
<1>2. before = 0 /\ got = FALSE /\ said = Stream!Source!EOF
  BY DEF Stream!Init, Stream!EOF, Stream!Source!EOF
<1>3. Buffered /\ filepos - Stream!stream_remaining = 0
  <2>1. CASE kind = "mem" /\ held = data /\ filepos = Len(data)
    <3>1. Base = 0 /\ \A j \in before + 1 .. Len(held) : j \in Int /\ 0 + j = j
      BY <1>1, <2>1 DEF Base
    <3> QED BY <1>1, <1>2, <2>1, <3>1 DEF Buffered, Stream!stream_remaining
  <2>2. CASE kind = "stdio" /\ held = <<>> /\ filepos = 0
    <3>1. held \in Seq(Nat) /\ Len(held) = 0
      BY <2>2
    <3>2. kind = "stdio" /\ filepos = 0
      BY <2>2
    <3>3. Base = 0
      BY <3>1, <3>2 DEF Base
    <3>4. before + 1 .. Len(held) = {}
      BY <1>2, <3>1
    <3> QED BY <1>1, <1>2, <3>1, <3>2, <3>3, <3>4 DEF Buffered, Stream!stream_remaining
  <2> QED BY <2>1, <2>2 DEF Stream!Init
<1> QED BY <1>2, <1>3, Zenon DEF StreamInv, Stream!Source!Init

LEMMA StreamNextKeeps ==
  ASSUME Drained, StreamInv, [Stream!Next]_(Stream!vars)
  PROVE  StreamKept
BY BufferedStep, MemGetStep, FileGetStep, UngetStep, FillStep, SeekStep, SeekFailsStep
   DEF Stream!Next

\* What is left in the buffer are the bytes of the block or file that follow
\* the client's position.
THEOREM StreamsInductive == ASSUME Drained PROVE Stream!Spec => []StreamInv
<1>1. Stream!Init => StreamInv
  BY StreamInitInv
<1>2. StreamInv /\ [Stream!Next]_(Stream!vars) => StreamInv'
  BY StreamNextKeeps DEF StreamKept
<1> QED BY <1>1, <1>2, PTL DEF Stream!Spec

\* Whatever gets, put backs, fills and seeks are mixed, over buffers of any size,
\* the client of a memory or file stream gets the bytes from its position on,
\* and the end only behind the last.
THEOREM StreamsReadOn == ASSUME Drained PROVE Stream!Spec => Stream!ReadsInOrder
<1>1. Stream!Init => Stream!Source!Init
  BY StreamInitInv
<1>2. StreamInv /\ [Stream!Next]_(Stream!vars) => [Stream!Source!Next]_(Stream!Source!vars)
  BY StreamNextKeeps DEF StreamKept
<1> QED BY <1>1, <1>2, StreamsInductive, PTL
        DEF Stream!Spec, Stream!ReadsInOrder, Stream!Source!Spec

-----------------------------------------------------------------------------
(* Vectors of bits: a bit's word, and its place in the word. *)

CONSTANTS Vectors, WordBits, MaxBits, MayFail
VARIABLE vec

BitVecs == INSTANCE BitVec

\* The bits clients use are those of some number of words.
WholeWords == WordBits \in Nat \ {0} /\ \E n \in Nat : MaxBits = n * WordBits

InAWord == 0 .. WordBits - 1
WordSeqs == Seq(SUBSET InAWord)

BitVecInv ==
  /\ vec \in [Vectors -> WordSeqs]
  /\ \A v \in Vectors : Len(vec[v]) * WordBits <= MaxBits

LEMMA MoreThanOne ==
  ASSUME NEW d \in Nat \ {0}, NEW w \in Nat
  PROVE  d * w \in Nat /\ d * w >= w
<1>1. PICK e \in Nat : e = d - 1
  OBVIOUS
<1>2. e * w \in Nat
  OBVIOUS
<1>3. d = e + 1
  BY <1>1
<1>4. (e + 1) * w = e * w + w
  OBVIOUS
<1> HIDE <1>1
<1>5. d * w = e * w + w
  BY <1>3, <1>4
<1> QED BY <1>2, <1>5

\* Numbers of a later word are greater.
LEMMA LaterWord ==
  ASSUME NEW q \in Nat, NEW p \in Nat, p < q, NEW w \in Nat \ {0},
         NEW r \in 0 .. w - 1, NEW s \in 0 .. w - 1
  PROVE  p * w + r < q * w + s /\ p * w + r \in Nat /\ q * w + s \in Nat
<1>1. PICK d \in Nat \ {0} : q = p + d
  <2>1. q - p \in Nat \ {0} /\ q = p + (q - p)
    OBVIOUS
  <2> QED BY <2>1
<1>2. d * w >= w /\ d * w \in Nat
  BY MoreThanOne
<1>3. (p + d) * w = p * w + d * w
  OBVIOUS
<1>4. p * w \in Nat
  OBVIOUS
<1>5. q * w = p * w + d * w
  BY <1>1, <1>3
<1>6. PICK x \in Nat, y \in Nat, z \in Nat : x = p * w /\ y = d * w /\ z = q * w
  BY <1>2, <1>4, <1>5
<1> QED BY <1>2, <1>5, <1>6

LEMMA WordAndPlace ==
  ASSUME NEW q \in Nat, NEW w \in Nat \ {0}, NEW r \in 0 .. w - 1
  PROVE  /\ q * w + r \in Nat
         /\ (q * w + r) \div w = q
         /\ (q * w + r) % w = r
<1>1. PICK a : a = q * w + r
  OBVIOUS
<1>2. q * w \in Nat
  OBVIOUS
<1>3. a \in Nat
  BY <1>1, <1>2
<1>4. PICK p, s : p = a \div w /\ s = a % w
  OBVIOUS
<1>5. p \in Nat /\ s \in 0 .. w - 1 /\ a = p * w + s
  BY <1>3, <1>4, Division
<1>6. ~ (p < q)
  BY <1>1, <1>5, LaterWord
<1>7. ~ (q < p)
  BY <1>1, <1>5, LaterWord
<1>8. p = q
  BY <1>5, <1>6, <1>7
<1>9. s = r
  BY <1>1, <1>2, <1>5, <1>8
<1> QED BY <1>1, <1>3, <1>4, <1>8, <1>9

\* A number is one of a vector where its word has it.
Has(words, n) ==
  /\ n \in Nat /\ n \div WordBits < Len(words)
  /\ n % WordBits \in words[(n \div WordBits) + 1]

LEMMA MembersAre ==
  ASSUME WholeWords, NEW words \in WordSeqs
  PROVE  BitVecs!Members(words) = {n \in Nat : Has(words, n)}
<1>1. Len(words) \in Nat /\ DOMAIN words = 1 .. Len(words)
      /\ \A w \in 1 .. Len(words) : words[w] \subseteq InAWord
  BY LenProperties, ElementOfSeq DEF WordSeqs
<1>2. ASSUME NEW w \in 1 .. Len(words), NEW b \in words[w]
      PROVE  (w - 1) * WordBits + b \in {n \in Nat : Has(words, n)}
  <2>1. w - 1 \in Nat /\ b \in InAWord /\ w - 1 < Len(words) /\ (w - 1) + 1 = w
    BY <1>1
  <2>2. PICK q \in Nat : q = w - 1
    BY <2>1
  <2>3. /\ q * WordBits + b \in Nat
        /\ (q * WordBits + b) \div WordBits = q
        /\ (q * WordBits + b) % WordBits = b
    BY <2>1, WordAndPlace DEF InAWord, WholeWords
  <2> QED BY <2>1, <2>2, <2>3 DEF Has
<1>3. ASSUME NEW n \in Nat, Has(words, n)
      PROVE  \E w \in DOMAIN words : n \in {(w - 1) * WordBits + b : b \in words[w]}
  <2>1. PICK q, r : q = n \div WordBits /\ r = n % WordBits
    OBVIOUS
  <2>2. q \in Nat /\ n = q * WordBits + r
    BY <2>1, Division DEF WholeWords
  <2>3. r \in words[q + 1] /\ q < Len(words)
    BY <1>3, <2>1 DEF Has
  <2>4. q + 1 \in 1 .. Len(words) /\ (q + 1) - 1 = q
    BY <1>1, <2>2, <2>3
  <2> QED BY <1>1, <2>2, <2>3, <2>4
<1>4. ASSUME NEW n \in BitVecs!Members(words) PROVE n \in {m \in Nat : Has(words, m)}
  BY <1>1, <1>2 DEF BitVecs!Members
<1>5. ASSUME NEW n \in {m \in Nat : Has(words, m)} PROVE n \in BitVecs!Members(words)
  BY <1>3 DEF BitVecs!Members
<1> QED BY <1>4, <1>5

LEMMA SameNumber ==
  ASSUME WholeWords, NEW n \in Nat, NEW m \in Nat,
         n \div WordBits = m \div WordBits, n % WordBits = m % WordBits
  PROVE  n = m
BY Division DEF WholeWords

LEMMA NumberParts ==
  ASSUME WholeWords, NEW n \in Nat
  PROVE  /\ n \div WordBits \in Nat /\ n % WordBits \in InAWord
         /\ n = (n \div WordBits) * WordBits + (n % WordBits)
BY Division DEF WholeWords, InAWord

\* The bits that clients use are in the words that they may come to have.
LEMMA WordsInBounds ==
  ASSUME WholeWords, NEW n \in Nat, n < MaxBits
  PROVE  ((n \div WordBits) + 1) * WordBits <= MaxBits
<1>1. PICK k \in Nat : MaxBits = k * WordBits
  BY DEF WholeWords
<1>2. PICK q, r : q = n \div WordBits /\ r = n % WordBits
  OBVIOUS
<1>3. q \in Nat /\ r \in InAWord /\ n = q * WordBits + r
  BY <1>2, NumberParts
<1>4. 0 \in 0 .. WordBits - 1 /\ WordBits \in Nat \ {0}
  BY DEF WholeWords
<1>5. k * WordBits + 0 = MaxBits
  BY <1>1, <1>4
<1>6. ~ (k < q)
  <2>1. ASSUME k < q PROVE MaxBits < q * WordBits + r
    BY <1>3, <1>4, <1>5, <2>1, LaterWord DEF InAWord
  <2>2. MaxBits \in Nat /\ n \in Nat
    BY <1>1, <1>4
  <2> QED BY <1>3, <2>1, <2>2
<1>7. k # q
  <2>1. q * WordBits \in Nat
    BY <1>3, <1>4
  <2>2. PICK x \in Nat : x = q * WordBits
    BY <2>1
  <2>3. k = q => n >= MaxBits
    BY <1>1, <1>3, <1>4, <2>2 DEF InAWord
  <2>4. MaxBits \in Nat
    BY <1>1, <1>4
  <2> QED BY <2>3, <2>4
<1>8. PICK d \in Nat : k = (q + 1) + d
  <2>1. k - (q + 1) \in Nat /\ k = (q + 1) + (k - (q + 1))
    BY <1>3, <1>6, <1>7
  <2> QED BY <2>1
<1>9. ((q + 1) + d) * WordBits = (q + 1) * WordBits + d * WordBits
  BY <1>3, <1>4
<1>10. d * WordBits \in Nat /\ (q + 1) * WordBits \in Nat
  BY <1>3, <1>4
<1> QED BY <1>1, <1>2, <1>8, <1>9, <1>10

LEMMA EnsuredMembers ==
  ASSUME WholeWords, NEW words \in WordSeqs, NEW need \in Nat
  PROVE  /\ BitVecs!bitvec_ensure(words, need) \in WordSeqs
         /\ Len(BitVecs!bitvec_ensure(words, need)) = IF need > Len(words) THEN need ELSE Len(words)
         /\ \A n : Has(BitVecs!bitvec_ensure(words, need), n) <=> Has(words, n)
<1>1. Len(words) \in Nat /\ DOMAIN words = 1 .. Len(words)
      /\ \A w \in 1 .. Len(words) : words[w] \subseteq InAWord
  BY LenProperties, ElementOfSeq DEF WordSeqs
<1>2. PICK size : size = IF need > Len(words) THEN need ELSE Len(words)
  OBVIOUS
<1>3. PICK new : new = [w \in 1 .. size |-> IF w <= Len(words) THEN words[w] ELSE {}]
  OBVIOUS
<1>4. size \in Nat /\ size >= Len(words)
  <2>1. PICK len \in Nat : len = Len(words)
    BY <1>1
  <2>2. size = IF need > len THEN need ELSE len
    BY <1>2, <2>1
  <2> QED BY ONLY need \in Nat, <2>1, <2>2
<1>5. new \in WordSeqs /\ Len(new) = size
  BY <1>1, <1>3, <1>4 DEF WordSeqs
<1>6. BitVecs!bitvec_ensure(words, need) = new
  BY <1>1, <1>2, <1>3 DEF BitVecs!bitvec_ensure, BitVecs!Greater
<1>7. ASSUME NEW n PROVE Has(new, n) <=> Has(words, n)
  <2>1. SUFFICES ASSUME n \in Nat PROVE Has(new, n) <=> Has(words, n)
    BY DEF Has
  <2>2. PICK q, r : q = n \div WordBits /\ r = n % WordBits
    OBVIOUS
  <2>3. q \in Nat
    BY <2>1, <2>2, NumberParts
  <2>4. CASE q < Len(words)
    BY <1>1, <1>3, <1>4, <1>5, <2>2, <2>3, <2>4 DEF Has
  <2>5. CASE ~ (q < Len(words))
    BY <1>1, <1>3, <1>4, <1>5, <2>2, <2>3, <2>5 DEF Has
  <2> QED BY <2>4, <2>5
<1> QED BY <1>2, <1>5, <1>6, <1>7

LEMMA BitVecsLibrary ==
  /\ \A S : BitVecs!Min(S) = Min(S)
  /\ \A S : BitVecs!Cardinality(S) = Cardinality(S)
  /\ \A S : BitVecs!Sets!Cardinality(S) = Cardinality(S)
BY DEF BitVecs!Min, Min, BitVecs!Cardinality, BitVecs!Sets!Cardinality, Cardinality

\* A word is changed.
LEMMA ChangedWord ==
  ASSUME WholeWords, NEW words \in WordSeqs, NEW i \in 1 .. Len(words), NEW x \in SUBSET InAWord
  PROVE  /\ [words EXCEPT ![i] = x] \in WordSeqs
         /\ Len([words EXCEPT ![i] = x]) = Len(words)
         /\ \A n \in Nat : Has([words EXCEPT ![i] = x], n)
               <=> IF (n \div WordBits) + 1 = i THEN n % WordBits \in x ELSE Has(words, n)
<1>1. /\ [words EXCEPT ![i] = x] \in WordSeqs
      /\ Len([words EXCEPT ![i] = x]) = Len(words)
  BY ExceptSeq DEF WordSeqs
<1>2. Len(words) \in Nat /\ DOMAIN words = 1 .. Len(words)
  BY LenProperties DEF WordSeqs
<1>3. PICK new : new = [words EXCEPT ![i] = x]
  OBVIOUS
<1>4. \A w \in 1 .. Len(words) : new[w] = IF w = i THEN x ELSE words[w]
  BY <1>2, <1>3
<1>5. ASSUME NEW n \in Nat
      PROVE  Has(new, n) <=> IF (n \div WordBits) + 1 = i THEN n % WordBits \in x ELSE Has(words, n)
  <2>1. PICK q, r : q = n \div WordBits /\ r = n % WordBits
    OBVIOUS
  <2>2. q \in Nat
    BY <2>1, NumberParts
  <2>3. Len(new) = Len(words)
    BY <1>1, <1>3
  <2>4. CASE q + 1 = i
    BY <1>2, <1>4, <2>1, <2>2, <2>3, <2>4 DEF Has
  <2>5. CASE q + 1 # i
    BY <1>2, <1>4, <2>1, <2>2, <2>3, <2>5 DEF Has
  <2> QED BY <2>1, <2>4, <2>5
<1> QED BY <1>1, <1>3, <1>5

\* A vector's words become others: a set becomes another.
LEMMA WordsBecome ==
  ASSUME WholeWords, BitVecInv, NEW v \in Vectors, NEW new \in WordSeqs,
         Len(new) * WordBits <= MaxBits, vec' = [vec EXCEPT ![v] = new]
  PROVE  BitVecInv' /\ BitVecs!Sets!Becomes(v, {n \in Nat : Has(new, n)})
<1>1. BitVecInv'
  BY DEF BitVecInv
<1>2. \A u \in Vectors : BitVecs!Members(vec'[u]) = IF u = v THEN {n \in Nat : Has(new, n)}
                                                    ELSE BitVecs!Members(vec[u])
  BY MembersAre DEF BitVecInv
<1>3. [u \in Vectors |-> BitVecs!Members(vec'[u])] =
        [[u \in Vectors |-> BitVecs!Members(vec[u])] EXCEPT ![v] = {n \in Nat : Has(new, n)}]
  BY <1>2
<1> QED BY <1>1, <1>3 DEF BitVecs!Sets!Becomes

\* The word of a bit is changed, in a vector grown to have it.
LEMMA BitChanged ==
  ASSUME WholeWords, BitVecInv, NEW v \in Vectors, NEW bit \in BitVecs!Bits, NEW grown, NEW x,
         grown = BitVecs!bitvec_ensure(vec[v], BitVecs!Word(bit) + 1),
         grown[BitVecs!Word(bit) + 1] \subseteq InAWord => x \subseteq InAWord,
         vec' = [vec EXCEPT ![v] = [grown EXCEPT ![BitVecs!Word(bit) + 1] = x]],
         NEW S \in SUBSET Nat,
         \A n \in Nat : n \in S <=> IF n \div WordBits = bit \div WordBits THEN n % WordBits \in x
                                   ELSE n \in BitVecs!Members(vec[v])
  PROVE  BitVecInv' /\ BitVecs!Sets!Becomes(v, S)
<1>1. bit \in Nat /\ bit < MaxBits
  BY DEF BitVecs!Bits, WholeWords
<1>2. PICK q : q = bit \div WordBits
  OBVIOUS
<1>3. q \in Nat /\ q + 1 \in Nat /\ (q + 1) * WordBits <= MaxBits
  BY <1>1, <1>2, NumberParts, WordsInBounds
<1>4. BitVecs!Word(bit) = q
  BY <1>2 DEF BitVecs!Word
<1>5. vec[v] \in WordSeqs /\ Len(vec[v]) * WordBits <= MaxBits
  BY DEF BitVecInv
<1>6. /\ grown \in WordSeqs
      /\ Len(grown) = IF q + 1 > Len(vec[v]) THEN q + 1 ELSE Len(vec[v])
      /\ \A n : Has(grown, n) <=> Has(vec[v], n)
  BY <1>3, <1>4, <1>5, EnsuredMembers
<1>7. Len(grown) * WordBits <= MaxBits
  BY <1>3, <1>5, <1>6
<1>8. Len(vec[v]) \in Nat
  BY <1>5, LenProperties DEF WordSeqs
<1>9. q + 1 \in 1 .. Len(grown)
  BY <1>3, <1>6, <1>8
<1>10. grown[q + 1] \subseteq InAWord
  BY <1>6, <1>9, ElementOfSeq DEF WordSeqs
<1>11. x \in SUBSET InAWord
  BY <1>4, <1>10
<1>12. PICK new : new = [grown EXCEPT ![q + 1] = x]
  OBVIOUS
<1>13. /\ new \in WordSeqs /\ Len(new) = Len(grown)
       /\ \A n \in Nat : Has(new, n)
             <=> IF (n \div WordBits) + 1 = q + 1 THEN n % WordBits \in x ELSE Has(grown, n)
  BY <1>6, <1>9, <1>11, <1>12, ChangedWord
<1>14. {n \in Nat : Has(new, n)} = S
  <2>1. \A n \in Nat : n \in BitVecs!Members(vec[v]) <=> Has(vec[v], n)
    BY <1>5, MembersAre
  <2>2. \A n \in Nat : (n \div WordBits) + 1 = q + 1 <=> n \div WordBits = q
    BY <1>3, NumberParts
  <2> QED BY <1>2, <1>6, <1>13, <2>1, <2>2
<1>15. vec' = [vec EXCEPT ![v] = new] /\ Len(new) * WordBits <= MaxBits
  BY <1>4, <1>7, <1>12, <1>13
<1> QED BY <1>13, <1>14, <1>15, WordsBecome

\* Which bits a word has after a change of one of them.
LEMMA OneOfWord ==
  ASSUME WholeWords, NEW bit \in Nat, NEW n \in Nat,
         n \div WordBits = bit \div WordBits
  PROVE  n % WordBits = BitVecs!InWord(bit) <=> n = bit
BY SameNumber DEF BitVecs!InWord

\* What the word of a bit has, wherever the vector ends.
LEMMA WordHas ==
  ASSUME WholeWords, BitVecInv, NEW v \in Vectors, NEW bit \in Nat, NEW n \in Nat,
         n \div WordBits = bit \div WordBits
  PROVE  n % WordBits \in BitVecs!bitvec_ensure(vec[v], BitVecs!Word(bit) + 1)[BitVecs!Word(bit) + 1]
           <=> n \in BitVecs!Members(vec[v])
<1>1. PICK q : q = bit \div WordBits
  OBVIOUS
<1>2. PICK grown : grown = BitVecs!bitvec_ensure(vec[v], q + 1)
  OBVIOUS
<1>3. q \in Nat /\ q + 1 \in Nat
  BY <1>1, NumberParts
<1>4. vec[v] \in WordSeqs
  BY DEF BitVecInv
<1>5. Len(vec[v]) \in Nat
  BY <1>4, LenProperties DEF WordSeqs
<1>6. /\ Len(grown) = IF q + 1 > Len(vec[v]) THEN q + 1 ELSE Len(vec[v])
      /\ Has(grown, n) <=> Has(vec[v], n)
  BY <1>2, <1>3, <1>4, EnsuredMembers
<1>7. q < Len(grown)
  BY <1>3, <1>5, <1>6
<1>8. Has(grown, n) <=> n % WordBits \in grown[q + 1]
  BY <1>1, <1>7 DEF Has
<1>9. n \in BitVecs!Members(vec[v]) <=> Has(vec[v], n)
  BY <1>4, MembersAre
<1> QED BY <1>1, <1>2, <1>6, <1>8, <1>9 DEF BitVecs!Word

LEMMA BitVecSetStep ==
  ASSUME WholeWords, BitVecInv, NEW v \in Vectors, NEW bit \in BitVecs!Bits,
         BitVecs!bitvec_set(v, bit), answer' # <<"OOM">>
  PROVE  /\ BitVecInv' /\ answer' = <<"OK">>
         /\ BitVecs!Sets!Set(v, bit)
<1>1. bit \in Nat
  BY DEF BitVecs!Bits
<1>2. PICK grown : grown = BitVecs!bitvec_ensure(vec[v], BitVecs!Word(bit) + 1)
  OBVIOUS
<1>3. PICK x : x = grown[BitVecs!Word(bit) + 1] \cup {BitVecs!InWord(bit)}
  OBVIOUS
<1>4. answer' = <<"OK">> /\ vec' = [vec EXCEPT ![v] = [grown EXCEPT ![BitVecs!Word(bit) + 1] = x]]
  BY <1>2, <1>3 DEF BitVecs!bitvec_set, BitVecs!Changed, BitVecs!CanFail, BitVecs!NoMemory
<1>5. BitVecs!InWord(bit) \in InAWord
  BY <1>1, NumberParts DEF BitVecs!InWord
<1>6. \A n \in Nat : n \div WordBits = bit \div WordBits
                       => (n % WordBits \in x <=> n \in BitVecs!Members(vec[v]) \/ n = bit)
  BY <1>1, <1>2, <1>3, OneOfWord, WordHas
<1>7. BitVecs!Members(vec[v]) \subseteq Nat
  BY MembersAre DEF BitVecInv
<1>8. PICK S \in SUBSET Nat : S = BitVecs!Members(vec[v]) \cup {bit}
  BY <1>1, <1>7
<1>9. \A n \in Nat : n \in S <=> IF n \div WordBits = bit \div WordBits THEN n % WordBits \in x
                                ELSE n \in BitVecs!Members(vec[v])
  BY <1>1, <1>6, <1>7, <1>8
<1>10. grown[BitVecs!Word(bit) + 1] \subseteq InAWord => x \subseteq InAWord
  BY <1>3, <1>5
<1>11. BitVecInv' /\ BitVecs!Sets!Becomes(v, S)
  BY <1>2, <1>4, <1>9, <1>10, BitChanged
<1> QED BY <1>4, <1>8, <1>11 DEF BitVecs!Sets!Set

LEMMA BitVecToggleStep ==
  ASSUME WholeWords, BitVecInv, NEW v \in Vectors, NEW bit \in BitVecs!Bits,
         BitVecs!bitvec_toggle(v, bit), answer' # <<"OOM">>
  PROVE  /\ BitVecInv' /\ answer' = <<"OK">>
         /\ BitVecs!Sets!Toggle(v, bit)
<1>1. bit \in Nat
  BY DEF BitVecs!Bits
<1>2. PICK grown : grown = BitVecs!bitvec_ensure(vec[v], BitVecs!Word(bit) + 1)
  OBVIOUS
<1>3. PICK word, b : word = grown[BitVecs!Word(bit) + 1] /\ b = BitVecs!InWord(bit)
  OBVIOUS
<1>4. PICK x : x = (word \cup {b}) \ (word \cap {b})
  OBVIOUS
<1>5. answer' = <<"OK">> /\ vec' = [vec EXCEPT ![v] = [grown EXCEPT ![BitVecs!Word(bit) + 1] = x]]
  BY <1>2, <1>3, <1>4 DEF BitVecs!bitvec_toggle, BitVecs!Changed, BitVecs!CanFail, BitVecs!NoMemory
<1>6. b \in InAWord
  BY <1>1, <1>3, NumberParts DEF BitVecs!InWord
<1>7. PICK S : S = IF bit \in BitVecs!Members(vec[v]) THEN BitVecs!Members(vec[v]) \ {bit}
                   ELSE BitVecs!Members(vec[v]) \cup {bit}
  OBVIOUS
<1>8. \A n \in Nat : n \div WordBits = bit \div WordBits
                       => /\ n % WordBits = b <=> n = bit
                          /\ n % WordBits \in word <=> n \in BitVecs!Members(vec[v])
  BY <1>1, <1>2, <1>3, OneOfWord, WordHas
<1>9. b \in word <=> bit \in BitVecs!Members(vec[v])
  BY <1>1, <1>3, <1>8 DEF BitVecs!InWord
<1>10. \A n \in Nat : n \div WordBits = bit \div WordBits => (n % WordBits \in x <=> n \in S)
  BY <1>4, <1>7, <1>8, <1>9
<1>11. BitVecs!Members(vec[v]) \subseteq Nat
  BY MembersAre DEF BitVecInv
<1>12. /\ S \in SUBSET Nat
       /\ \A n \in Nat : n \in S <=> IF n \div WordBits = bit \div WordBits THEN n % WordBits \in x
                                    ELSE n \in BitVecs!Members(vec[v])
  BY <1>1, <1>7, <1>10, <1>11
<1>13. grown[BitVecs!Word(bit) + 1] \subseteq InAWord => x \subseteq InAWord
  BY <1>3, <1>4, <1>6
<1>14. BitVecInv' /\ BitVecs!Sets!Becomes(v, S)
  BY <1>2, <1>5, <1>12, <1>13, BitChanged
<1>15. bit \in [u \in Vectors |-> BitVecs!Members(vec[u])][v] <=> bit \in BitVecs!Members(vec[v])
  OBVIOUS
<1> QED BY <1>5, <1>7, <1>14, <1>15 DEF BitVecs!Sets!Toggle, BitVecs!Sets!Set, BitVecs!Sets!Clear

\* A bit beyond a vector's words is clear as it is.
LEMMA BitVecClearStep ==
  ASSUME WholeWords, BitVecInv, NEW v \in Vectors, NEW bit \in BitVecs!Bits,
         BitVecs!bitvec_clear(v, bit)
  PROVE  /\ BitVecInv' /\ answer' = <<"OK">>
         /\ BitVecs!Sets!Clear(v, bit)
<1>1. bit \in Nat
  BY DEF BitVecs!Bits
<1>2. PICK words, q : words = vec[v] /\ q = bit \div WordBits
  OBVIOUS
<1>3. q \in Nat /\ BitVecs!Word(bit) = q /\ BitVecs!length(v) = Len(words)
  BY <1>1, <1>2, NumberParts DEF BitVecs!Word, BitVecs!length
<1>4. /\ words \in WordSeqs /\ Len(words) * WordBits <= MaxBits /\ Len(words) \in Nat
      /\ vec \in [Vectors -> WordSeqs]
      /\ BitVecs!Members(words) = {n \in Nat : Has(words, n)}
  BY <1>2, MembersAre, LenProperties DEF BitVecInv, WordSeqs
<1>5. answer' = <<"OK">>
  BY DEF BitVecs!bitvec_clear
<1>6. CASE q >= Len(words)
  <2>1. vec' = vec
    BY <1>3, <1>6 DEF BitVecs!bitvec_clear
  <2>2. ~ Has(words, bit)
    BY <1>2, <1>3, <1>4, <1>6 DEF Has
  <2>3. BitVecs!Members(words) = {n \in Nat : Has(words, n)} \ {bit}
    BY <1>4, <2>2
  <2>4. vec' = [vec EXCEPT ![v] = words]
    BY <1>2, <1>4, <2>1
  <2>5. BitVecInv' /\ BitVecs!Sets!Becomes(v, BitVecs!Members(words))
    BY <1>4, <2>4, WordsBecome
  <2>6. BitVecs!Members(vec[v]) \ {bit} = BitVecs!Members(words)
    BY <1>2, <1>4, <2>3
  <2> QED BY <1>5, <2>5, <2>6 DEF BitVecs!Sets!Clear
<1>7. CASE q < Len(words)
  <2>1. PICK x, new : x = words[q + 1] \ {BitVecs!InWord(bit)} /\ new = [words EXCEPT ![q + 1] = x]
    OBVIOUS
  <2>2. vec' = [vec EXCEPT ![v] = new]
    BY <1>2, <1>3, <1>4, <1>7, <2>1 DEF BitVecs!bitvec_clear
  <2>3. q + 1 \in 1 .. Len(words)
    BY <1>3, <1>4, <1>7
  <2>4. x \in SUBSET InAWord
    BY <1>4, <2>1, <2>3, ElementOfSeq DEF WordSeqs
  <2>5. /\ new \in WordSeqs /\ Len(new) = Len(words)
        /\ \A n \in Nat : Has(new, n)
              <=> IF (n \div WordBits) + 1 = q + 1 THEN n % WordBits \in x ELSE Has(words, n)
    BY <1>4, <2>1, <2>3, <2>4, ChangedWord
  <2>6. ASSUME NEW n \in Nat PROVE Has(new, n) <=> Has(words, n) /\ n # bit
    <3>1. (n \div WordBits) + 1 = q + 1 <=> n \div WordBits = q
      <4>1. PICK k \in Nat : k = n \div WordBits
        BY NumberParts
      <4> QED BY <1>3, <4>1
    <3>2. CASE n \div WordBits = q
      <4>1. n % WordBits = BitVecs!InWord(bit) <=> n = bit
        BY <1>1, <1>2, <3>2, OneOfWord
      <4>2. Has(words, n) <=> n % WordBits \in words[q + 1]
        BY <1>7, <3>2 DEF Has
      <4> QED BY <2>1, <2>5, <3>1, <3>2, <4>1, <4>2
    <3>3. CASE n \div WordBits # q
      BY <1>2, <2>5, <3>1, <3>3
    <3> QED BY <3>2, <3>3
  <2>7. BitVecInv' /\ BitVecs!Sets!Becomes(v, {n \in Nat : Has(new, n)})
    BY <1>4, <2>2, <2>5, WordsBecome
  <2>8. BitVecs!Members(vec[v]) \ {bit} = {n \in Nat : Has(new, n)}
    BY <1>2, <1>4, <2>6
  <2> QED BY <1>5, <2>7, <2>8 DEF BitVecs!Sets!Clear
<1> QED BY <1>3, <1>4, <1>6, <1>7

LEMMA SetAllStep ==
  ASSUME WholeWords, BitVecInv, NEW v \in Vectors, BitVecs!bitvec_set_all(v)
  PROVE  /\ BitVecInv' /\ answer' = <<"OK">>
         /\ BitVecs!Sets!SetAll(v)
<1>1. PICK len : len = Len(vec[v])
  OBVIOUS
<1>2. len \in Nat /\ len * WordBits <= MaxBits /\ WordBits \in Nat \ {0}
  BY <1>1, LenProperties DEF BitVecInv, WordSeqs, WholeWords
<1>3. PICK new : new = [w \in 1 .. len |-> InAWord]
  OBVIOUS
<1>4. new \in WordSeqs /\ Len(new) = len
  BY <1>2, <1>3 DEF WordSeqs
<1>5. answer' = <<"OK">> /\ vec' = [vec EXCEPT ![v] = new]
  BY <1>1, <1>3 DEF BitVecs!bitvec_set_all, BitVecs!Full, BitVecs!length, InAWord
<1>6. PICK all : all = len * WordBits
  OBVIOUS
<1>7. all \in Nat /\ MaxBits \in Nat
  BY <1>2, <1>6 DEF WholeWords
<1>8. ASSUME NEW n \in Nat PROVE Has(new, n) <=> n < all
  <2>1. PICK q, r : q = n \div WordBits /\ r = n % WordBits
    OBVIOUS
  <2>2. q \in Nat /\ r \in InAWord /\ n = q * WordBits + r
    BY <2>1, NumberParts
  <2>3. Has(new, n) <=> q < len
    <3>1. q < len => q + 1 \in 1 .. len
      BY <1>2, <2>2
    <3> QED BY <1>3, <1>4, <2>1, <2>2, <3>1 DEF Has
  <2>4. 0 \in 0 .. WordBits - 1 /\ len * WordBits + 0 = all
    BY <1>2, <1>6, <1>7
  <2>5. q < len => n < all
    BY <1>2, <2>2, <2>4, LaterWord DEF InAWord
  <2>6. len < q => all < n
    BY <1>2, <2>2, <2>4, LaterWord DEF InAWord
  <2>7. len = q => all <= n
    BY <1>6, <1>7, <2>2 DEF InAWord
  <2> QED BY <1>2, <1>7, <2>2, <2>3, <2>5, <2>6, <2>7
<1>9. {n \in Nat : Has(new, n)} = 0 .. all - 1
  BY <1>7, <1>8
<1>10. BitVecInv' /\ BitVecs!Sets!Becomes(v, 0 .. all - 1)
  BY <1>2, <1>4, <1>5, <1>9, WordsBecome
<1>11. Cardinality(BitVecs!Bits) = MaxBits
  <2>1. Cardinality(0 .. MaxBits - 1) = IF 0 > MaxBits - 1 THEN 0 ELSE (MaxBits - 1) - 0 + 1
    BY <1>7, FS_Interval
  <2> QED BY <1>7, <2>1 DEF BitVecs!Bits
<1>12. all \in 0 .. Cardinality(BitVecs!Bits)
  BY <1>2, <1>6, <1>7, <1>11
<1> QED BY <1>5, <1>10, <1>12, BitVecsLibrary DEF BitVecs!Sets!SetAll

LEMMA ClearAllStep ==
  ASSUME WholeWords, BitVecInv, NEW v \in Vectors, BitVecs!bitvec_clear_all(v)
  PROVE  /\ BitVecInv' /\ answer' = <<"OK">>
         /\ BitVecs!Sets!Becomes(v, {})
<1>1. PICK len, new : len = Len(vec[v]) /\ new = [w \in 1 .. len |-> {}]
  OBVIOUS
<1>2. len \in Nat /\ len * WordBits <= MaxBits
  BY <1>1, LenProperties DEF BitVecInv, WordSeqs
<1>3. new \in WordSeqs /\ Len(new) = len
  BY <1>1, <1>2 DEF WordSeqs
<1>4. answer' = <<"OK">> /\ vec' = [vec EXCEPT ![v] = new]
  BY <1>1 DEF BitVecs!bitvec_clear_all, BitVecs!length
<1>5. ASSUME NEW n \in Nat, Has(new, n) PROVE FALSE
  <2>1. (n \div WordBits) + 1 \in 1 .. len
    <3>1. n \div WordBits \in Nat /\ n \div WordBits < len
      BY <1>3, <1>5, NumberParts DEF Has
    <3> QED BY <1>2, <3>1
  <2> QED BY <1>1, <1>5, <2>1 DEF Has
<1>6. {n \in Nat : Has(new, n)} = {}
  BY <1>5
<1> QED BY <1>2, <1>3, <1>4, <1>6, WordsBecome

LEMMA AndStep ==
  ASSUME WholeWords, BitVecInv, NEW a \in Vectors, NEW b \in Vectors, NEW c \in Vectors,
         BitVecs!bitvec_and(a, b, c), answer' # <<"OOM">>
  PROVE  /\ BitVecInv' /\ answer' = <<"OK">>
         /\ BitVecs!Sets!Becomes(c, BitVecs!Members(vec[a]) \cap BitVecs!Members(vec[b]))
<1>1. PICK p, q : p = vec[a] /\ q = vec[b]
  OBVIOUS
<1>2. /\ p \in WordSeqs /\ q \in WordSeqs /\ Len(p) \in Nat /\ Len(q) \in Nat
      /\ Len(p) * WordBits <= MaxBits /\ Len(q) * WordBits <= MaxBits
      /\ \A w \in 1 .. Len(p) : p[w] \subseteq InAWord
  BY <1>1, LenProperties, ElementOfSeq DEF BitVecInv, WordSeqs
<1>3. PICK len : len = IF Len(p) < Len(q) THEN Len(p) ELSE Len(q)
  OBVIOUS
<1>4. len \in Nat /\ len <= Len(p) /\ len <= Len(q) /\ len * WordBits <= MaxBits
  <2>1. PICK m \in Nat, n \in Nat : m = Len(p) /\ n = Len(q)
    BY <1>2
  <2> QED BY <1>2, <1>3, <2>1
<1>5. PICK new : new = [w \in 1 .. len |-> p[w] \cap q[w]]
  OBVIOUS
<1>6. new \in WordSeqs /\ Len(new) = len
  BY <1>2, <1>4, <1>5 DEF WordSeqs
<1>7. answer' = <<"OK">> /\ vec' = [vec EXCEPT ![c] = new]
  BY <1>1, <1>3, <1>5 DEF BitVecs!bitvec_and, BitVecs!Created, BitVecs!NoMemory, BitVecs!Lesser,
                         BitVecs!length
<1>8. ASSUME NEW n \in Nat PROVE Has(new, n) <=> Has(p, n) /\ Has(q, n)
  <2>1. PICK k, r : k = n \div WordBits /\ r = n % WordBits
    OBVIOUS
  <2>2. k \in Nat
    BY <2>1, NumberParts
  <2>3. k < len <=> k < Len(p) /\ k < Len(q)
    BY <1>2, <1>3, <2>2
  <2>4. k < len => k + 1 \in 1 .. len
    BY <1>4, <2>2
  <2> QED BY <1>5, <1>6, <2>1, <2>3, <2>4 DEF Has
<1>9. {n \in Nat : Has(new, n)} = BitVecs!Members(vec[a]) \cap BitVecs!Members(vec[b])
  <2>1. /\ BitVecs!Members(p) = {n \in Nat : Has(p, n)}
        /\ BitVecs!Members(q) = {n \in Nat : Has(q, n)}
    BY <1>2, MembersAre
  <2> QED BY <1>1, <1>8, <2>1
<1> QED BY <1>4, <1>6, <1>7, <1>9, WordsBecome

LEMMA OrStep ==
  ASSUME WholeWords, BitVecInv, NEW a \in Vectors, NEW b \in Vectors, NEW c \in Vectors,
         BitVecs!bitvec_or(a, b, c), answer' # <<"OOM">>
  PROVE  /\ BitVecInv' /\ answer' = <<"OK">>
         /\ BitVecs!Sets!Becomes(c, BitVecs!Members(vec[a]) \cup BitVecs!Members(vec[b]))
<1>1. PICK p, q, l : p = vec[a] /\ q = vec[b] /\ l = IF Len(p) > Len(q) THEN p ELSE q
  OBVIOUS
<1>2. /\ p \in WordSeqs /\ q \in WordSeqs /\ Len(p) \in Nat /\ Len(q) \in Nat
      /\ Len(p) * WordBits <= MaxBits /\ Len(q) * WordBits <= MaxBits
      /\ \A w \in 1 .. Len(p) : p[w] \subseteq InAWord
      /\ \A w \in 1 .. Len(q) : q[w] \subseteq InAWord
  BY <1>1, LenProperties, ElementOfSeq DEF BitVecInv, WordSeqs
<1>3. PICK min : min = IF Len(p) < Len(q) THEN Len(p) ELSE Len(q)
  OBVIOUS
<1>4. \/ l = p /\ min = Len(q) /\ Len(q) <= Len(p)
      \/ l = q /\ min = Len(p) /\ Len(p) <= Len(q)
  <2>1. PICK m \in Nat, n \in Nat : m = Len(p) /\ n = Len(q)
    BY <1>2
  <2> QED BY <1>1, <1>3, <2>1
<1>5. PICK new : new = [w \in 1 .. Len(l) |-> IF w <= min THEN p[w] \cup q[w] ELSE l[w]]
  OBVIOUS
<1>6. \A w \in 1 .. Len(l) : new[w] \subseteq InAWord
  <2> SUFFICES ASSUME NEW w \in 1 .. Len(l) PROVE new[w] \subseteq InAWord
    OBVIOUS
  <2>1. CASE w <= min
    BY <1>2, <1>4, <1>5, <2>1
  <2>2. CASE ~ (w <= min)
    BY <1>2, <1>4, <1>5, <2>2
  <2> QED BY <2>1, <2>2
<1>7. new \in WordSeqs /\ Len(new) = Len(l) /\ Len(l) * WordBits <= MaxBits
  BY <1>2, <1>4, <1>5, <1>6 DEF WordSeqs
<1>8. answer' = <<"OK">> /\ vec' = [vec EXCEPT ![c] = new]
  <2>1. vec[IF Len(p) > Len(q) THEN a ELSE b] = l
    BY <1>1
  <2> QED BY <1>1, <1>3, <1>5, <2>1 DEF BitVecs!bitvec_or, BitVecs!Created, BitVecs!NoMemory,
                                       BitVecs!Lesser, BitVecs!length
<1>9. ASSUME NEW n \in Nat PROVE Has(new, n) <=> Has(p, n) \/ Has(q, n)
  <2>1. PICK k, r : k = n \div WordBits /\ r = n % WordBits
    OBVIOUS
  <2>2. k \in Nat
    BY <2>1, NumberParts
  <2>3. k < Len(l) => k + 1 \in 1 .. Len(l)
    BY <1>2, <1>4, <2>2
  <2>4. CASE k < min
    <3>1. k < Len(p) /\ k < Len(q) /\ k < Len(l) /\ k + 1 <= min
      BY <1>2, <1>4, <2>2, <2>4
    <3> QED BY <1>5, <1>7, <2>1, <2>3, <3>1 DEF Has
  <2>5. CASE ~ (k < min)
    <3>1. ~ (k + 1 <= min)
      BY <1>2, <1>4, <2>2, <2>5
    <3>2. Has(new, n) <=> Has(l, n)
      BY <1>5, <1>7, <2>1, <2>3, <3>1 DEF Has
    <3> QED BY <1>4, <2>1, <2>5, <3>2 DEF Has
  <2> QED BY <2>4, <2>5
<1>10. {n \in Nat : Has(new, n)} = BitVecs!Members(vec[a]) \cup BitVecs!Members(vec[b])
  <2>1. /\ BitVecs!Members(p) = {n \in Nat : Has(p, n)}
        /\ BitVecs!Members(q) = {n \in Nat : Has(q, n)}
    BY <1>2, MembersAre
  <2> QED BY <1>1, <1>9, <2>1
<1> QED BY <1>7, <1>8, <1>10, WordsBecome

-----------------------------------------------------------------------------
(* What vectors answer. *)

\* An answer leaves the vectors as they were.
LEMMA Answered ==
  ASSUME NEW a, BitVecs!Answers(a), BitVecInv
  PROVE  /\ BitVecInv' /\ answer' = a
         /\ [v \in Vectors |-> BitVecs!Members(vec'[v])] = [v \in Vectors |-> BitVecs!Members(vec[v])]
BY DEF BitVecs!Answers, BitVecInv

LEMMA BitVecGetStep ==
  ASSUME WholeWords, BitVecInv, NEW v \in Vectors, NEW bit \in BitVecs!Bits,
         BitVecs!bitvec_get(v, bit)
  PROVE  BitVecs!Sets!Get(v, bit)
<1>1. bit \in Nat
  BY DEF BitVecs!Bits
<1>2. bit \in BitVecs!Members(vec[v]) <=> Has(vec[v], bit)
  BY <1>1, MembersAre DEF BitVecInv
<1>3. (BitVecs!Word(bit) < BitVecs!length(v) /\ BitVecs!InWord(bit) \in BitVecs!At(v, BitVecs!Word(bit)))
        = (bit \in BitVecs!Members(vec[v]))
  BY <1>1, <1>2 DEF Has, BitVecs!Word, BitVecs!InWord, BitVecs!length, BitVecs!At
<1> QED BY <1>3 DEF BitVecs!bitvec_get, BitVecs!Answers, BitVecs!Sets!Get

\* A word of a vector, as the numbers that it stands for.
LEMMA WordsAre ==
  ASSUME WholeWords, NEW words \in WordSeqs, NEW w \in 1 .. Len(words), NEW b \in InAWord
  PROVE  b \in words[w] <=> (w - 1) * WordBits + b \in BitVecs!Members(words)
<1>1. PICK q \in Nat : q = w - 1 /\ q + 1 = w /\ q < Len(words)
  <2>1. Len(words) \in Nat
    BY LenProperties DEF WordSeqs
  <2> QED BY <2>1
<1>2. PICK n : n = q * WordBits + b
  OBVIOUS
<1>3. n \in Nat /\ n \div WordBits = q /\ n % WordBits = b
  BY <1>2, WordAndPlace DEF WholeWords, InAWord
<1>4. n \in BitVecs!Members(words) <=> Has(words, n)
  BY <1>3, MembersAre
<1> QED BY <1>1, <1>2, <1>3, <1>4 DEF Has

\* Vectors are equal that have the same bits, wherever the one that is longer
\* goes on without any.
LEMMA EqualWords ==
  ASSUME WholeWords, NEW p \in WordSeqs, NEW q \in WordSeqs, Len(p) <= Len(q)
  PROVE  BitVecs!Members(p) = BitVecs!Members(q)
           <=> /\ \A w \in 1 .. Len(p) : p[w] = q[w]
               /\ \A w \in Len(p) + 1 .. Len(q) : q[w] = {}
<1>1. /\ Len(p) \in Nat /\ Len(q) \in Nat
      /\ \A w \in 1 .. Len(p) : p[w] \subseteq InAWord
      /\ \A w \in 1 .. Len(q) : q[w] \subseteq InAWord
  BY LenProperties, ElementOfSeq DEF WordSeqs
<1>2. /\ BitVecs!Members(p) = {n \in Nat : Has(p, n)}
      /\ BitVecs!Members(q) = {n \in Nat : Has(q, n)}
  BY MembersAre
<1>3. ASSUME BitVecs!Members(p) = BitVecs!Members(q), NEW w \in 1 .. Len(p)
      PROVE  p[w] = q[w]
  <2>1. w \in 1 .. Len(q)
    BY <1>1
  <2>2. \A b \in InAWord : b \in p[w] <=> b \in q[w]
    BY <1>3, <2>1, WordsAre
  <2> QED BY <1>1, <2>1, <2>2
<1>4. ASSUME BitVecs!Members(p) = BitVecs!Members(q), NEW w \in Len(p) + 1 .. Len(q), NEW b \in q[w]
      PROVE  FALSE
  <2>1. PICK k \in Nat : k = w - 1
    BY <1>1
  <2>2. w \in 1 .. Len(q) /\ ~ (k < Len(p))
    BY <1>1, <2>1
  <2>3. PICK n : n = k * WordBits + b
    OBVIOUS
  <2>4. b \in InAWord
    BY <1>1, <1>4, <2>2
  <2>5. n \in BitVecs!Members(q)
    BY <1>4, <2>1, <2>2, <2>3, <2>4, WordsAre
  <2>6. n \div WordBits = k
    BY <2>3, <2>4, WordAndPlace DEF WholeWords, InAWord
  <2> QED BY <1>2, <1>4, <2>2, <2>5, <2>6 DEF Has
<1>5. ASSUME \A w \in 1 .. Len(p) : p[w] = q[w], \A w \in Len(p) + 1 .. Len(q) : q[w] = {},
             NEW n \in Nat
      PROVE  Has(p, n) <=> Has(q, n)
  <2>1. PICK k : k = n \div WordBits
    OBVIOUS
  <2>2. k \in Nat
    BY <2>1, NumberParts
  <2>3. CASE k < Len(p)
    <3>1. k + 1 \in 1 .. Len(p) /\ k < Len(q)
      BY <1>1, <2>2, <2>3
    <3> QED BY <1>5, <2>1, <2>3, <3>1 DEF Has
  <2>4. CASE ~ (k < Len(p)) /\ k < Len(q)
    <3>1. k + 1 \in Len(p) + 1 .. Len(q)
      BY <1>1, <2>2, <2>4
    <3> QED BY <1>5, <2>1, <2>4, <3>1 DEF Has
  <2>5. CASE ~ (k < Len(p)) /\ ~ (k < Len(q))
    BY <2>1, <2>5 DEF Has
  <2> QED BY <2>3, <2>4, <2>5
<1> QED BY <1>2, <1>3, <1>4, <1>5

LEMMA BitVecEqualStep ==
  ASSUME WholeWords, BitVecInv, NEW a \in Vectors, NEW b \in Vectors, BitVecs!bitvec_eq(a, b)
  PROVE  BitVecs!Sets!Equal(a, b)
<1>1. vec[a] \in WordSeqs /\ vec[b] \in WordSeqs /\ Len(vec[a]) \in Nat /\ Len(vec[b]) \in Nat
  BY LenProperties DEF BitVecInv, WordSeqs
<1>2. PICK l, p, same :
        /\ l = IF Len(vec[a]) < Len(vec[b]) THEN Len(vec[a]) ELSE Len(vec[b])
        /\ p = IF Len(vec[a]) = l THEN b ELSE a
        /\ same = (/\ \A w \in 1 .. l : vec[a][w] = vec[b][w]
                   /\ \A w \in l + 1 .. Len(vec[p]) : vec[p][w] = {})
  OBVIOUS
<1>3. answer' = <<"eq", a, b, same>>
  BY <1>2 DEF BitVecs!bitvec_eq, BitVecs!Answers, BitVecs!Lesser, BitVecs!length
<1>4. same = (BitVecs!Members(vec[a]) = BitVecs!Members(vec[b]))
  <2>1. PICK m \in Nat, n \in Nat : m = Len(vec[a]) /\ n = Len(vec[b])
    BY <1>1
  <2>2. CASE m <= n
    <3>1. l = m /\ p = b
      BY <1>2, <2>1, <2>2
    <3>2. BitVecs!Members(vec[a]) = BitVecs!Members(vec[b])
            <=> /\ \A w \in 1 .. m : vec[a][w] = vec[b][w]
                /\ \A w \in m + 1 .. n : vec[b][w] = {}
      BY <1>1, <2>1, <2>2, EqualWords
    <3> QED BY <1>2, <2>1, <3>1, <3>2
  <2>3. CASE n < m
    <3>1. l = n /\ p = a
      BY <1>2, <2>1, <2>3
    <3>2. BitVecs!Members(vec[b]) = BitVecs!Members(vec[a])
            <=> /\ \A w \in 1 .. n : vec[b][w] = vec[a][w]
                /\ \A w \in n + 1 .. m : vec[a][w] = {}
      BY <1>1, <2>1, <2>3, EqualWords
    <3> QED BY <1>2, <2>1, <3>1, <3>2
  <2> QED BY <2>1, <2>2, <2>3
<1> QED BY <1>3, <1>4 DEF BitVecs!Sets!Equal

LEMMA PlacesAreNumbers == ASSUME WholeWords PROVE InAWord \subseteq Nat
BY DEF InAWord, WholeWords

LEMMA LeastIs ==
  ASSUME NEW S \in SUBSET Nat, NEW m \in S, \A k \in S : m <= k
  PROVE  BitVecs!Sets!Least(S) = m
<1>1. \A j \in S : (\A k \in S : j <= k) => j = m
  <2> SUFFICES ASSUME NEW j \in S, \A k \in S : j <= k PROVE j = m
    OBVIOUS
  <2>1. j <= m /\ m <= j /\ j \in Nat /\ m \in Nat
    OBVIOUS
  <2> QED BY ONLY <2>1
<1>2. S # {}
  OBVIOUS
<1>3. (CHOOSE j \in S : \A k \in S : j <= k) = m
  BY <1>1
<1> QED BY <1>2, <1>3 DEF BitVecs!Sets!Least

\* Of two numbers, by their words and places.
LEMMA NumbersOrdered ==
  ASSUME WholeWords, NEW m \in Nat, NEW n \in Nat
  PROVE  m > n <=> \/ m \div WordBits > n \div WordBits
                   \/ m \div WordBits = n \div WordBits /\ m % WordBits > n % WordBits
<1>1. PICK q, r, p, s : /\ q = m \div WordBits /\ r = m % WordBits
                        /\ p = n \div WordBits /\ s = n % WordBits
  OBVIOUS
<1>2. /\ q \in Nat /\ r \in 0 .. WordBits - 1 /\ m = q * WordBits + r
      /\ p \in Nat /\ s \in 0 .. WordBits - 1 /\ n = p * WordBits + s
      /\ WordBits \in Nat \ {0}
  BY <1>1, NumberParts DEF InAWord, WholeWords
<1>3. p < q => n < m
  BY <1>2, LaterWord
<1>4. q < p => m < n
  BY <1>2, LaterWord
<1>5. q = p => (m > n <=> r > s)
  <2>1. PICK k \in Nat : k = q * WordBits
    BY <1>2
  <2> QED BY <1>2, <2>1
<1> QED BY <1>1, <1>2, <1>3, <1>4, <1>5

\* Numbers beyond n are those of a later word than hi, or beyond lo of hi.
Beyond(m, hi, lo) ==
  m \div WordBits > hi \/ (m \div WordBits = hi /\ m % WordBits > lo)

LEMMA BeyondIs ==
  ASSUME WholeWords, NEW n \in Nat \cup {-1}, NEW hi, NEW lo,
         hi = IF n < 0 THEN 0
              ELSE IF n < 0 \/ n % WordBits = WordBits - 1 THEN (n \div WordBits) + 1
              ELSE n \div WordBits,
         lo = IF n < 0 \/ n % WordBits = WordBits - 1 THEN -1 ELSE n % WordBits
  PROVE  /\ hi \in Nat /\ lo \in InAWord \cup {-1}
         /\ lo # -1 => n \in Nat /\ hi = n \div WordBits
         /\ \A m \in Nat : m > n <=> Beyond(m, hi, lo)
<1>1. \A m \in Nat : m \div WordBits \in Nat /\ m % WordBits \in 0 .. WordBits - 1
  BY NumberParts DEF InAWord
<1>2. WordBits \in Nat \ {0}
  BY DEF WholeWords
<1>3. CASE n < 0
  <2>1. n = -1 /\ hi = 0 /\ lo = -1
    BY <1>3
  <2>2. ASSUME NEW m \in Nat PROVE m > n <=> Beyond(m, hi, lo)
    <3>1. PICK q, r : q = m \div WordBits /\ r = m % WordBits
      OBVIOUS
    <3>2. q \in Nat /\ r \in 0 .. WordBits - 1
      BY <1>1, <3>1
    <3>3. q > 0 \/ (q = 0 /\ r > -1)
      BY <1>2, <3>2
    <3> QED BY <2>1, <3>1, <3>3 DEF Beyond
  <2> QED BY <2>1, <2>2
<1>4. CASE ~ (n < 0)
  <2>1. n \in Nat
    BY <1>4
  <2>2. PICK p, s : p = n \div WordBits /\ s = n % WordBits
    OBVIOUS
  <2>3. p \in Nat /\ s \in 0 .. WordBits - 1
    BY <1>1, <2>1, <2>2
  <2>4. CASE s = WordBits - 1
    <3>1. hi = p + 1 /\ lo = -1
      BY <1>4, <2>2, <2>4
    <3>2. ASSUME NEW m \in Nat PROVE m > n <=> Beyond(m, hi, lo)
      <4>1. PICK q, r : q = m \div WordBits /\ r = m % WordBits
        OBVIOUS
      <4>2. q \in Nat /\ r \in 0 .. WordBits - 1
        BY <1>1, <4>1
      <4>3. m > n <=> q > p \/ (q = p /\ r > s)
        BY <2>1, <2>2, <4>1, NumbersOrdered
      <4>4. ~ (r > s) /\ r > -1
        BY <1>2, <2>4, <4>2
      <4>5. q > p <=> q > p + 1 \/ q = p + 1
        BY <2>3, <4>2
      <4> QED BY <3>1, <4>1, <4>3, <4>4, <4>5 DEF Beyond
    <3> QED BY <2>3, <3>1, <3>2
  <2>5. CASE s # WordBits - 1
    <3>1. hi = p /\ lo = s
      BY <1>4, <2>2, <2>5
    <3>2. ASSUME NEW m \in Nat PROVE m > n <=> Beyond(m, hi, lo)
      BY <2>1, <2>2, <3>1, NumbersOrdered DEF Beyond
    <3> QED BY <2>1, <2>2, <2>3, <3>1, <3>2 DEF InAWord
  <2> QED BY <2>4, <2>5
<1> QED BY <1>3, <1>4

\* The words from hi on that have a bit; the numbers of a word beyond lo; those
\* of a vector beyond both.
WordsFrom(words, hi) == {w \in hi .. Len(words) - 1 : words[w + 1] # {}}
PlacesOver(word, lo) == {b \in word : b > lo}
MembersBeyond(words, hi, lo) == {m \in BitVecs!Members(words) : Beyond(m, hi, lo)}

\* The answer, from the words that have a bit: the first of them, or the next
\* where the first has no more.
LEMMA FirstBeyond ==
  ASSUME WholeWords, NEW words \in WordSeqs, NEW hi \in Nat, NEW lo \in InAWord \cup {-1},
         NEW set, set = WordsFrom(words, hi), lo # -1 => hi \in set,
         NEW first, first = Min(set), NEW left, left = PlacesOver(words[first + 1], lo),
         NEW later, later = set \ {first},
         NEW found, found = MembersBeyond(words, hi, lo)
  PROVE  BitVecs!Sets!Least(found) =
           IF set = {} THEN -1
           ELSE IF left # {} THEN first * WordBits + Min(left)
           ELSE IF later = {} THEN -1
           ELSE Min(later) * WordBits + Min(words[Min(later) + 1])
<1> USE DEF WordsFrom, PlacesOver, MembersBeyond
<1>1. PICK len \in Nat : len = Len(words)
  BY LenProperties DEF WordSeqs
<1>2. set \in SUBSET Nat /\ \A w \in set : w \in Nat /\ w >= hi /\ w < len /\ words[w + 1] # {}
  BY <1>1
<1>3. \A w \in set : words[w + 1] \in SUBSET InAWord /\ w + 1 \in 1 .. len /\ (w + 1) - 1 = w
  BY <1>1, <1>2, ElementOfSeq DEF WordSeqs
<1>4. ASSUME NEW w \in set, NEW b \in words[w + 1]
      PROVE  /\ w * WordBits + b \in BitVecs!Members(words)
             /\ w * WordBits + b \in Nat
             /\ (w * WordBits + b) \div WordBits = w
             /\ (w * WordBits + b) % WordBits = b
  <2>1. b \in InAWord /\ w \in Nat
    BY <1>2, <1>3
  <2>2. (w + 1) - 1 = w /\ w + 1 \in 1 .. Len(words)
    BY <1>1, <1>3
  <2>3. ((w + 1) - 1) * WordBits + b \in BitVecs!Members(words)
    BY <2>1, <2>2, WordsAre
  <2> QED BY <2>1, <2>2, <2>3, WordAndPlace DEF InAWord, WholeWords
<1>5. ASSUME NEW m \in found
      PROVE  /\ m \in Nat /\ Beyond(m, hi, lo)
             /\ m \div WordBits \in set /\ m % WordBits \in words[(m \div WordBits) + 1]
             /\ m % WordBits \in InAWord /\ m % WordBits \in Nat /\ m \div WordBits \in Nat
  <2>1. m \in Nat /\ Has(words, m) /\ Beyond(m, hi, lo)
    BY MembersAre
  <2>2. PICK q, r : q = m \div WordBits /\ r = m % WordBits
    OBVIOUS
  <2>3. q \in Nat /\ r \in InAWord /\ q < len /\ r \in words[q + 1]
    BY <1>1, <2>1, <2>2, NumberParts DEF Has
  <2>4. q >= hi
    BY <2>1, <2>2, <2>3 DEF Beyond
  <2>5. q \in hi .. Len(words) - 1
    BY <1>1, <2>3, <2>4
  <2>6. r \in Nat
    BY <2>3 DEF InAWord, WholeWords
  <2> QED BY <2>1, <2>2, <2>3, <2>5, <2>6
<1>6. found \in SUBSET Nat
  BY <1>5
<1>7. CASE set = {}
  <2>1. found = {}
    BY <1>5, <1>7
  <2> QED BY <1>7, <2>1 DEF BitVecs!Sets!Least
<1>8. CASE set # {}
  <2>1. first \in set /\ \A w \in set : first <= w
    BY <1>2, <1>8, MinOf
  <2>2. first \in Nat /\ first >= hi /\ left \in SUBSET Nat
    <3>1. words[first + 1] \subseteq InAWord
      BY <1>3, <2>1
    <3> QED BY <1>2, <2>1, <3>1, PlacesAreNumbers
  <2>3. lo # -1 => first = hi
    <3>1. lo # -1 => first <= hi
      BY <2>1
    <3> QED BY <2>2, <3>1
  <2>4. ASSUME NEW m \in found, m \div WordBits = first
        PROVE  m % WordBits \in left
    <3>1. CASE lo = -1
      BY <1>5, <2>4, <3>1 DEF InAWord, WholeWords
    <3>2. CASE lo # -1
      BY <1>5, <2>2, <2>3, <2>4, <3>2 DEF Beyond
    <3> QED BY <3>1, <3>2
  <2>5. CASE left # {}
    <3>1. PICK r : r = Min(left)
      OBVIOUS
    <3>2. r \in left /\ \A b \in left : r <= b
      BY <2>2, <2>5, <3>1, MinOf
    <3>3. PICK m : m = first * WordBits + r
      OBVIOUS
    <3>4. m \in BitVecs!Members(words) /\ m \in Nat /\ m \div WordBits = first /\ m % WordBits = r
      BY <1>4, <2>1, <3>2, <3>3
    <3>5. Beyond(m, hi, lo)
      BY <2>2, <3>2, <3>4 DEF Beyond
    <3>6. m \in found
      BY <3>4, <3>5
    <3>7. ASSUME NEW k \in found PROVE m <= k
      <4>1. k \in Nat /\ first <= k \div WordBits /\ k \div WordBits \in Nat /\ k % WordBits \in Nat
        BY <1>5, <2>1
      <4>2. k \div WordBits = first => r <= k % WordBits
        BY <2>4, <3>2, <3>7
      <4>3. m > k <=> \/ first > k \div WordBits
                      \/ first = k \div WordBits /\ r > k % WordBits
        BY <3>4, <4>1, NumbersOrdered
      <4>4. r \in Nat
        BY <2>2, <3>2
      <4> QED BY <2>2, <3>4, <4>1, <4>2, <4>3, <4>4
    <3>8. BitVecs!Sets!Least(found) = m
      BY <1>6, <3>6, <3>7, LeastIs
    <3> QED BY <1>8, <2>5, <3>1, <3>3, <3>8
  <2>6. CASE left = {}
    <3>1. \A m \in found : m \div WordBits \in later
      BY <1>5, <2>4, <2>6
    <3>2. CASE later = {}
      <4>1. found = {}
        BY <3>1, <3>2
      <4> QED BY <1>8, <2>6, <3>2, <4>1 DEF BitVecs!Sets!Least
    <3>3. CASE later # {}
      <4>1. PICK w : w = Min(later)
        OBVIOUS
      <4>2. later \in SUBSET Nat
        BY <1>2
      <4>3. w \in later /\ \A u \in later : w <= u
        BY <3>3, <4>1, <4>2, MinOf
      <4>4. w \in set /\ w \in Nat /\ first <= w /\ w # first
        BY <1>2, <2>1, <4>3
      <4>5. words[w + 1] \in SUBSET Nat /\ words[w + 1] # {}
        BY <1>2, <1>3, <4>4 DEF InAWord, WholeWords
      <4>6. PICK r : r = Min(words[w + 1])
        OBVIOUS
      <4>7. r \in words[w + 1] /\ (\A b \in words[w + 1] : r <= b) /\ r \in Nat
        BY <4>5, <4>6, MinOf
      <4>8. PICK m : m = w * WordBits + r
        OBVIOUS
      <4>9. m \in BitVecs!Members(words) /\ m \in Nat /\ m \div WordBits = w /\ m % WordBits = r
        BY <1>4, <4>4, <4>7, <4>8
      <4>10. w > hi
        BY <2>2, <4>4
      <4>11. m \in found
        BY <4>9, <4>10 DEF Beyond
      <4>12. ASSUME NEW k \in found PROVE m <= k
        <5>1. k \in Nat /\ k \div WordBits \in later /\ k % WordBits \in words[(k \div WordBits) + 1]
          BY <1>5, <3>1
        <5>2. w <= k \div WordBits /\ k \div WordBits \in Nat /\ k % WordBits \in Nat
          BY <1>5, <4>3, <5>1
        <5>3. k \div WordBits = w => r <= k % WordBits
          BY <4>7, <5>1
        <5>4. m > k <=> \/ w > k \div WordBits
                        \/ w = k \div WordBits /\ r > k % WordBits
          BY <4>9, <5>1, NumbersOrdered
        <5> QED BY <4>4, <4>7, <4>9, <5>1, <5>2, <5>3, <5>4
      <4>13. BitVecs!Sets!Least(found) = m
        BY <1>6, <4>11, <4>12, LeastIs
      <4> QED BY <1>8, <2>6, <3>3, <4>1, <4>6, <4>8, <4>13
    <3> QED BY <3>2, <3>3
  <2> QED BY <2>5, <2>6
<1> QED BY <1>7, <1>8

LEMMA BitVecNextStep ==
  ASSUME WholeWords, BitVecInv, NEW v \in Vectors, NEW n \in BitVecs!Bits \cup {-1},
         BitVecs!bitvec_next(v, n)
  PROVE  BitVecs!Sets!After(v, n) \/ BitVecs!FromClear
<1>1. answer' = <<"next", v, n, BitVecs!NextOf(v, n)>> /\ vec' = vec
  BY DEF BitVecs!bitvec_next, BitVecs!Answers
<1>2. n \in Nat \cup {-1}
  BY DEF BitVecs!Bits
<1>3. vec[v] \in WordSeqs
  BY DEF BitVecInv
<1>4. CASE n >= 0 /\ \A m \in BitVecs!Members(vec[v]) : BitVecs!Word(m) # BitVecs!Word(n)
  <2>1. answer'[1] = "next" /\ answer'[2] = v /\ answer'[3] = n
    BY <1>1
  <2> QED BY <1>4, <2>1 DEF BitVecs!FromClear
<1>5. CASE n < 0 \/ \E m \in BitVecs!Members(vec[v]) : BitVecs!Word(m) = BitVecs!Word(n)
  <2> DEFINE words == vec[v]
             skip == n < 0 \/ n % WordBits = WordBits - 1
             hi == IF n < 0 THEN 0 ELSE IF skip THEN (n \div WordBits) + 1 ELSE n \div WordBits
             lo == IF skip THEN -1 ELSE n % WordBits
             set == {w \in hi .. Len(words) - 1 : words[w + 1] # {}}
             first == BitVecs!Min(set)
             left == {b \in words[first + 1] : b > lo}
             later == set \ {first}
             found == {m \in BitVecs!Members(words) : Beyond(m, hi, lo)}
  <2>1. BitVecs!NextOf(v, n) =
           IF set = {} THEN -1
           ELSE IF left # {} THEN first * WordBits + BitVecs!Min(left)
           ELSE IF later = {} THEN -1
           ELSE BitVecs!Min(later) * WordBits + BitVecs!Min(words[BitVecs!Min(later) + 1])
    BY DEF BitVecs!NextOf, BitVecs!InWord, BitVecs!Word, BitVecs!At, BitVecs!length
  <2>2. first = Min(set)
    BY BitVecsLibrary
  <2>3. /\ hi \in Nat /\ lo \in InAWord \cup {-1}
        /\ lo # -1 => n \in Nat /\ hi = n \div WordBits
        /\ \A m \in Nat : m > n <=> Beyond(m, hi, lo)
    BY <1>2, BeyondIs
  <2>4. lo # -1 => hi \in set
    <3> HIDE DEF lo, hi
    <3> SUFFICES ASSUME lo # -1 PROVE hi \in set
      OBVIOUS
    <3>1. ~ (n < 0) /\ hi = n \div WordBits
      BY <2>3
    <3>2. PICK m \in BitVecs!Members(words) : m \div WordBits = hi
      BY <1>5, <3>1 DEF BitVecs!Word
    <3>3. Has(words, m)
      BY <1>3, <3>2, MembersAre
    <3>4. hi < Len(words) /\ m % WordBits \in words[hi + 1]
      BY <3>2, <3>3 DEF Has
    <3>5. Len(words) \in Nat
      BY <1>3, LenProperties DEF WordSeqs
    <3> QED BY <2>3, <3>4, <3>5
  <2>5. found = {m \in BitVecs!Members(vec[v]) : m > n}
    <3>1. BitVecs!Members(vec[v]) \subseteq Nat
      BY <1>3, MembersAre
    <3> HIDE DEF lo, hi
    <3> QED BY <2>3, <3>1
  <2>6. /\ set = WordsFrom(words, hi) /\ left = PlacesOver(words[first + 1], lo)
        /\ later = set \ {first} /\ found = MembersBeyond(words, hi, lo)
        /\ words \in WordSeqs
    BY <1>3 DEF WordsFrom, PlacesOver, MembersBeyond
  <2> HIDE DEF words, hi, lo, set, first, left, later, found
  <2>7. BitVecs!Sets!Least(found) =
           IF set = {} THEN -1
           ELSE IF left # {} THEN first * WordBits + Min(left)
           ELSE IF later = {} THEN -1
           ELSE Min(later) * WordBits + Min(words[Min(later) + 1])
    <3>1. hi \in Nat /\ lo \in InAWord \cup {-1} /\ words \in WordSeqs
      BY <2>3, <2>6
    <3> QED BY <2>2, <2>4, <2>6, <3>1, FirstBeyond
  <2>8. BitVecs!NextOf(v, n) = BitVecs!Sets!Least(found)
    BY <2>1, <2>7, BitVecsLibrary
  <2>9. [u \in Vectors |-> BitVecs!Members(vec[u])][v] = BitVecs!Members(vec[v])
    OBVIOUS
  <2> QED BY <1>1, <2>5, <2>8, <2>9 DEF BitVecs!Sets!After
<1>6. n >= 0 \/ n < 0
  BY <1>2
<1> QED BY <1>4, <1>5, <1>6

\* The members that are of some of the words.
PartOf(words, s) == {n \in Nat : Has(words, n) /\ (n \div WordBits) + 1 \in s}

LEMMA PartIsFinite ==
  ASSUME WholeWords, NEW words \in WordSeqs, NEW s
  PROVE  IsFiniteSet(PartOf(words, s))
<1>1. Len(words) \in Nat /\ WordBits \in Nat \ {0}
  BY LenProperties DEF WordSeqs, WholeWords
<1>2. PICK n \in Nat : n = Len(words) * WordBits + 0
  BY <1>1
<1>3. ASSUME NEW m \in PartOf(words, s) PROVE m \in 0 .. n
  <2>1. m \in Nat /\ m \div WordBits < Len(words)
    BY DEF PartOf, Has
  <2>2. PICK q, r : q = m \div WordBits /\ r = m % WordBits
    OBVIOUS
  <2>3. q \in Nat /\ r \in 0 .. WordBits - 1 /\ m = q * WordBits + r
    BY <2>1, <2>2, NumberParts DEF InAWord
  <2>4. 0 \in 0 .. WordBits - 1
    BY <1>1
  <2>5. m < n
    BY <1>1, <1>2, <2>1, <2>2, <2>3, <2>4, LaterWord
  <2> QED BY <1>2, <2>1, <2>5
<1>4. PartOf(words, s) \subseteq 0 .. n
  BY <1>3
<1>5. IsFiniteSet(0 .. n)
  BY <1>2, FS_Interval
<1> QED BY <1>4, <1>5, FS_Subset

\* A word has as many bits as there are members of it.
LEMMA WordCount ==
  ASSUME WholeWords, NEW words \in WordSeqs, NEW w \in DOMAIN words
  PROVE  Cardinality(words[w]) = Cardinality(PartOf(words, {w}))
<1>1. /\ Len(words) \in Nat /\ w \in 1 .. Len(words) /\ words[w] \subseteq InAWord
      /\ WordBits \in Nat \ {0}
  BY LenProperties, ElementOfSeq DEF WordSeqs, WholeWords
<1>2. PICK q \in Nat : q = w - 1 /\ q + 1 = w /\ q < Len(words)
  BY <1>1
<1>3. PICK f : f = [b \in words[w] |-> q * WordBits + b]
  OBVIOUS
<1>4. ASSUME NEW b \in words[w]
      PROVE  /\ f[b] \in Nat /\ f[b] \div WordBits = q /\ f[b] % WordBits = b
             /\ f[b] \in PartOf(words, {w})
  <2>1. b \in 0 .. WordBits - 1
    BY <1>1 DEF InAWord
  <2>2. f[b] \in Nat /\ f[b] \div WordBits = q /\ f[b] % WordBits = b
    BY <1>1, <1>2, <1>3, <2>1, WordAndPlace
  <2>3. Has(words, f[b])
    BY <1>2, <2>2 DEF Has
  <2> QED BY <1>2, <2>2, <2>3 DEF PartOf
<1>5. ASSUME NEW n \in PartOf(words, {w}) PROVE \E b \in words[w] : f[b] = n
  <2>1. PICK p, r : p = n \div WordBits /\ r = n % WordBits
    OBVIOUS
  <2>2. n \in Nat /\ Has(words, n) /\ p + 1 = w
    BY <2>1 DEF PartOf
  <2>3. p \in Nat /\ n = p * WordBits + r
    BY <2>1, <2>2, NumberParts
  <2>4. p = q
    BY <1>2, <2>2, <2>3
  <2>5. r \in words[w]
    BY <2>1, <2>2 DEF Has
  <2> QED BY <1>3, <2>3, <2>4, <2>5
<1>6. f \in Bijection(words[w], PartOf(words, {w}))
  <2>1. f \in [words[w] -> PartOf(words, {w})]
    BY <1>3, <1>4
  <2>2. \A a, b \in words[w] : f[a] = f[b] => a = b
    BY <1>4
  <2>3. \A n \in PartOf(words, {w}) : \E b \in words[w] : f[b] = n
    BY <1>5
  <2> QED BY <2>1, <2>2, <2>3 DEF Bijection, Injection, Surjection, IsInjective
<1>7. IsFiniteSet(words[w])
  <2>1. IsFiniteSet(0 .. WordBits - 1)
    BY <1>1, FS_Interval
  <2> QED BY <1>1, <2>1, FS_Subset DEF InAWord
<1> QED BY <1>6, <1>7, FS_Bijection DEF ExistsBijection

\* What the sum of the words' bits is for each set of words.
SumsOf(words, f) ==
  f = [s \in SUBSET DOMAIN words |->
         IF s = {} THEN 0
         ELSE Cardinality(words[CHOOSE w \in s : TRUE]) + f[s \ {CHOOSE w \in s : TRUE}]]

LEMMA PartsAdd ==
  ASSUME WholeWords, NEW words \in WordSeqs, NEW s \in SUBSET DOMAIN words, NEW w \in s
  PROVE  Cardinality(PartOf(words, s))
           = Cardinality(words[w]) + Cardinality(PartOf(words, s \ {w}))
<1>1. PartOf(words, s) = PartOf(words, {w}) \cup PartOf(words, s \ {w})
  BY DEF PartOf
<1>2. PartOf(words, {w}) \cap PartOf(words, s \ {w}) = {}
  BY DEF PartOf
<1>3. IsFiniteSet(PartOf(words, {w})) /\ IsFiniteSet(PartOf(words, s \ {w}))
  BY PartIsFinite
<1>4. Cardinality(PartOf(words, {w}) \cup PartOf(words, s \ {w})) =
        Cardinality(PartOf(words, {w})) + Cardinality(PartOf(words, s \ {w}))
          - Cardinality(PartOf(words, {w}) \cap PartOf(words, s \ {w}))
  BY <1>3, FS_Union
<1>5. /\ Cardinality(PartOf(words, {w})) \in Nat
      /\ Cardinality(PartOf(words, s \ {w})) \in Nat
      /\ Cardinality({}) = 0
  BY <1>3, FS_CardinalityType, FS_EmptySet
<1>6. Cardinality(words[w]) = Cardinality(PartOf(words, {w}))
  BY WordCount
<1>7. PICK a \in Nat, b \in Nat : /\ a = Cardinality(PartOf(words, {w}))
                                  /\ b = Cardinality(PartOf(words, s \ {w}))
  BY <1>5
<1>8. Cardinality(PartOf(words, s)) = a + b - 0
  BY <1>1, <1>2, <1>4, <1>5, <1>7
<1> QED BY <1>6, <1>7, <1>8

LEMMA NoPart == ASSUME NEW words PROVE PartOf(words, {}) = {} /\ Cardinality({}) = 0
BY FS_EmptySet DEF PartOf

\* Summing word by word, in any order, counts the members.
LEMMA SumCounts ==
  ASSUME WholeWords, NEW words \in WordSeqs
  PROVE  (CHOOSE f : SumsOf(words, f))[DOMAIN words] = Cardinality(BitVecs!Members(words))
<1> DEFINE D == DOMAIN words
           Chosen(s) == CHOOSE w \in s : TRUE
           count == [s \in SUBSET D |-> Cardinality(PartOf(words, s))]
<1>1. D = 1 .. Len(words) /\ Len(words) \in Nat
  BY LenProperties DEF WordSeqs
<1>2. IsFiniteSet(D)
  BY <1>1, FS_Interval
<1>3. \A s \in SUBSET D : s # {} => Chosen(s) \in s
  OBVIOUS
<1>4. ASSUME NEW s \in SUBSET D
      PROVE  count[s] = IF s = {} THEN 0
                        ELSE Cardinality(words[Chosen(s)]) + count[s \ {Chosen(s)}]
  <2> HIDE DEF Chosen
  <2>1. CASE s = {}
    BY <2>1, NoPart
  <2>2. CASE s # {}
    <3>1. Chosen(s) \in s /\ s \ {Chosen(s)} \in SUBSET D
      BY <1>3, <2>2
    <3>2. Cardinality(PartOf(words, s))
            = Cardinality(words[Chosen(s)]) + Cardinality(PartOf(words, s \ {Chosen(s)}))
      BY <3>1, PartsAdd
    <3> QED BY <2>2, <3>1, <3>2
  <2> QED BY <2>1, <2>2
<1>5. SumsOf(words, count)
  <2>1. count = [s \in SUBSET D |-> count[s]]
    OBVIOUS
  <2> HIDE DEF count, Chosen
  <2>2. count = [s \in SUBSET D |-> IF s = {} THEN 0
                        ELSE Cardinality(words[Chosen(s)]) + count[s \ {Chosen(s)}]]
    BY <1>4, <2>1
  <2> QED BY <2>2 DEF SumsOf, Chosen
<1>6. PICK f : f = CHOOSE g : SumsOf(words, g)
  OBVIOUS
<1>7. SumsOf(words, f)
  BY <1>5, <1>6
<1>8. \A s \in SUBSET D : f[s] = IF s = {} THEN 0
                                 ELSE Cardinality(words[Chosen(s)]) + f[s \ {Chosen(s)}]
  BY <1>7 DEF SumsOf
<1>9. ASSUME NEW t \in SUBSET D, f[t] # count[t] PROVE FALSE
  <2> DEFINE Bad == {Cardinality(s) : s \in {u \in SUBSET D : f[u] # count[u]}}
  <2> HIDE DEF Chosen, count
  <2>1. \A s \in SUBSET D : IsFiniteSet(s) /\ Cardinality(s) \in Nat
    BY <1>2, FS_Subset, FS_CardinalityType
  <2>2. Bad \in SUBSET Nat /\ Bad # {}
    BY <1>9, <2>1
  <2>3. Min(Bad) \in Bad /\ \A n \in Bad : Min(Bad) <= n
    BY <2>2, MinOf
  <2>4. PICK s \in SUBSET D : f[s] # count[s] /\ Cardinality(s) = Min(Bad)
    BY <2>3
  <2>5. s # {}
    BY <1>4, <1>8, <2>4
  <2>6. Chosen(s) \in s /\ s \ {Chosen(s)} \in SUBSET D
    BY <1>3, <2>5
  <2>7. Cardinality(s \ {Chosen(s)}) = Cardinality(s) - 1
    BY <2>1, <2>6, FS_RemoveElement
  <2>8. Cardinality(s \ {Chosen(s)}) \notin Bad
    <3>1. PICK k \in Nat : k = Cardinality(s) /\ k = Min(Bad)
      BY <2>1, <2>4
    <3> HIDE DEF Bad
    <3>2. \A n \in Bad : n \in Nat /\ k <= n
      BY <2>2, <2>3, <3>1
    <3>3. ~ (k <= k - 1)
      OBVIOUS
    <3> QED BY <2>7, <3>1, <3>2, <3>3
  <2>9. f[s \ {Chosen(s)}] = count[s \ {Chosen(s)}]
    BY <2>6, <2>8
  <2> QED BY <1>4, <1>8, <2>4, <2>5, <2>9
<1>10. f[D] = Cardinality(PartOf(words, D))
  BY <1>9
<1>11. PartOf(words, D) = BitVecs!Members(words)
  <2>1. ASSUME NEW n \in Nat, Has(words, n) PROVE (n \div WordBits) + 1 \in D
    <3>1. PICK q \in Nat : q = n \div WordBits
      BY NumberParts
    <3>2. q < Len(words)
      BY <2>1, <3>1 DEF Has
    <3> QED BY <1>1, <3>1, <3>2
  <2>2. PartOf(words, D) = {n \in Nat : Has(words, n)}
    BY <2>1 DEF PartOf
  <2> QED BY <2>2, MembersAre
<1> QED BY <1>6, <1>10, <1>11

LEMMA BitVecCountStep ==
  ASSUME WholeWords, BitVecInv, NEW v \in Vectors, BitVecs!bitvec_count(v)
  PROVE  BitVecs!Sets!Count(v)
<1>1. answer' = <<"count", v, (CHOOSE f : SumsOf(vec[v], f))[DOMAIN vec[v]]>>
  BY BitVecsLibrary DEF BitVecs!bitvec_count, BitVecs!Answers, BitVecs!MapThenSumSet,
                        BitVecs!MapThenFoldSet, SumsOf
<1>2. (CHOOSE f : SumsOf(vec[v], f))[DOMAIN vec[v]] = Cardinality(BitVecs!Members(vec[v]))
  BY SumCounts DEF BitVecInv
<1>3. [u \in Vectors |-> BitVecs!Members(vec[u])][v] = BitVecs!Members(vec[v])
  OBVIOUS
<1> QED BY <1>1, <1>2, <1>3, BitVecsLibrary DEF BitVecs!Sets!Count

\* A query leaves the sets as they were.
LEMMA BitVecQueryStep ==
  ASSUME BitVecInv, UNCHANGED vec
  PROVE  /\ BitVecInv'
         /\ [v \in Vectors |-> BitVecs!Members(vec[v])]' = [v \in Vectors |-> BitVecs!Members(vec[v])]
BY DEF BitVecInv

LEMMA BitVecFailStep ==
  ASSUME BitVecInv, answer' = <<"OOM">>, UNCHANGED vec
  PROVE  BitVecInv' /\ BitVecs!Sets!Fail
BY BitVecQueryStep DEF BitVecs!Sets!Fail

LEMMA BitVecStep ==
  ASSUME WholeWords, BitVecInv, BitVecs!Next
  PROVE  BitVecInv' /\ (BitVecs!Sets!Next \/ BitVecs!FromClear)
<1> USE DEF BitVecs!Sets!Next
<1>1. ASSUME NEW v \in Vectors, NEW n \in BitVecs!Bits, BitVecs!bitvec_set(v, n)
      PROVE  BitVecInv' /\ BitVecs!Sets!Next
  <2>1. CASE answer' = <<"OOM">>
    <3>1. <<"OK">> # <<"OOM">>
      OBVIOUS
    <3>2. UNCHANGED vec
      BY <1>1, <2>1, <3>1 DEF BitVecs!bitvec_set, BitVecs!Changed, BitVecs!CanFail, BitVecs!NoMemory
    <3> QED BY <2>1, <3>2, BitVecFailStep
  <2>2. CASE answer' # <<"OOM">>
    BY <1>1, <2>2, BitVecSetStep DEF BitVecs!Sets!Change
  <2> QED BY <2>1, <2>2
<1>2. ASSUME NEW v \in Vectors, NEW n \in BitVecs!Bits, BitVecs!bitvec_toggle(v, n)
      PROVE  BitVecInv' /\ BitVecs!Sets!Next
  <2>1. CASE answer' = <<"OOM">>
    <3>1. <<"OK">> # <<"OOM">>
      OBVIOUS
    <3>2. UNCHANGED vec
      BY <1>2, <2>1, <3>1 DEF BitVecs!bitvec_toggle, BitVecs!Changed, BitVecs!CanFail, BitVecs!NoMemory
    <3> QED BY <2>1, <3>2, BitVecFailStep
  <2>2. CASE answer' # <<"OOM">>
    BY <1>2, <2>2, BitVecToggleStep DEF BitVecs!Sets!Change
  <2> QED BY <2>1, <2>2
<1>3. ASSUME NEW v \in Vectors, NEW n \in BitVecs!Bits, BitVecs!bitvec_clear(v, n)
      PROVE  BitVecInv' /\ BitVecs!Sets!Next
  BY <1>3, BitVecClearStep DEF BitVecs!Sets!Change
<1>4. ASSUME NEW v \in Vectors, BitVecs!bitvec_set_all(v)
      PROVE  BitVecInv' /\ BitVecs!Sets!Next
  BY <1>4, SetAllStep DEF BitVecs!Sets!Change
<1>5. ASSUME NEW v \in Vectors, BitVecs!bitvec_clear_all(v)
      PROVE  BitVecInv' /\ BitVecs!Sets!Next
  BY <1>5, ClearAllStep DEF BitVecs!Sets!Change
<1>6. \A v \in Vectors : [u \in Vectors |-> BitVecs!Members(vec[u])][v] = BitVecs!Members(vec[v])
  OBVIOUS
<1>7. ASSUME NEW a \in Vectors, NEW b \in Vectors, NEW c \in Vectors, BitVecs!bitvec_and(a, b, c)
      PROVE  BitVecInv' /\ BitVecs!Sets!Next
  <2>1. CASE answer' = <<"OOM">>
    <3>1. <<"OK">> # <<"OOM">>
      OBVIOUS
    <3>2. UNCHANGED vec
      BY <1>7, <2>1, <3>1 DEF BitVecs!bitvec_and, BitVecs!Created, BitVecs!NoMemory
    <3> QED BY <2>1, <3>2, BitVecFailStep
  <2>2. CASE answer' # <<"OOM">>
    <3>1. /\ BitVecInv' /\ answer' = <<"OK">>
          /\ BitVecs!Sets!Becomes(c, BitVecs!Members(vec[a]) \cap BitVecs!Members(vec[b]))
      BY <1>7, <2>2, AndStep
    <3>2. BitVecs!Sets!Combine
      BY <1>6, <3>1 DEF BitVecs!Sets!Combine
    <3> QED BY <3>1, <3>2
  <2> QED BY <2>1, <2>2
<1>8. ASSUME NEW a \in Vectors, NEW b \in Vectors, NEW c \in Vectors, BitVecs!bitvec_or(a, b, c)
      PROVE  BitVecInv' /\ BitVecs!Sets!Next
  <2>1. CASE answer' = <<"OOM">>
    <3>1. <<"OK">> # <<"OOM">>
      OBVIOUS
    <3>2. UNCHANGED vec
      BY <1>8, <2>1, <3>1 DEF BitVecs!bitvec_or, BitVecs!Created, BitVecs!NoMemory
    <3> QED BY <2>1, <3>2, BitVecFailStep
  <2>2. CASE answer' # <<"OOM">>
    <3>1. /\ BitVecInv' /\ answer' = <<"OK">>
          /\ BitVecs!Sets!Becomes(c, BitVecs!Members(vec[a]) \cup BitVecs!Members(vec[b]))
      BY <1>8, <2>2, OrStep
    <3>2. BitVecs!Sets!Combine
      BY <1>6, <3>1 DEF BitVecs!Sets!Combine
    <3> QED BY <3>1, <3>2
  <2> QED BY <2>1, <2>2
<1>9. ASSUME NEW v \in Vectors, NEW n \in BitVecs!Bits, BitVecs!bitvec_get(v, n)
       PROVE  BitVecInv' /\ BitVecs!Sets!Next
  <2>1. UNCHANGED vec
    BY <1>9 DEF BitVecs!bitvec_get, BitVecs!Answers
  <2> QED BY <1>9, <2>1, BitVecGetStep, BitVecQueryStep DEF BitVecs!Sets!Query
<1>10. ASSUME NEW v \in Vectors, BitVecs!bitvec_count(v)
       PROVE  BitVecInv' /\ BitVecs!Sets!Next
  <2>1. UNCHANGED vec
    BY <1>10 DEF BitVecs!bitvec_count, BitVecs!Answers
  <2> QED BY <1>10, <2>1, BitVecCountStep, BitVecQueryStep DEF BitVecs!Sets!Query
<1>11. ASSUME NEW v \in Vectors, NEW n \in BitVecs!Bits \cup {-1}, BitVecs!bitvec_next(v, n)
       PROVE  BitVecInv' /\ (BitVecs!Sets!Next \/ BitVecs!FromClear)
  <2>1. UNCHANGED vec
    BY <1>11 DEF BitVecs!bitvec_next, BitVecs!Answers
  <2>2. BitVecs!Sets!After(v, n) => BitVecs!Sets!Query
    BY <2>1, BitVecQueryStep DEF BitVecs!Sets!Query
  <2> QED BY <1>11, <2>1, <2>2, BitVecNextStep, BitVecQueryStep
<1>12. ASSUME NEW a \in Vectors, NEW b \in Vectors, BitVecs!bitvec_eq(a, b)
       PROVE  BitVecInv' /\ BitVecs!Sets!Next
  <2>1. UNCHANGED vec
    BY <1>12 DEF BitVecs!bitvec_eq, BitVecs!Answers
  <2> QED BY <1>12, <2>1, BitVecEqualStep, BitVecQueryStep DEF BitVecs!Sets!Query
<1> QED BY <1>1, <1>2, <1>3, <1>4, <1>5, <1>7, <1>8, <1>9, <1>10, <1>11, <1>12 DEF BitVecs!Next

LEMMA BitVecInit ==
  ASSUME WholeWords, BitVecs!Init PROVE BitVecInv /\ BitVecs!Sets!SetsInit
<1>1. \A v \in Vectors : vec[v] = <<>> /\ Len(vec[v]) * WordBits = 0 /\ vec[v] \in WordSeqs
  <2>1. Len(<<>>) * WordBits = 0 /\ <<>> \in WordSeqs
    BY EmptySeq DEF WordSeqs, WholeWords
  <2> QED BY <2>1 DEF BitVecs!Init
<1>2. 0 <= MaxBits
  BY DEF WholeWords
<1>3. BitVecInv
  BY <1>1, <1>2 DEF BitVecInv, BitVecs!Init
<1>4. \A v \in Vectors : BitVecs!Members(vec[v]) = {}
  BY <1>1 DEF BitVecs!Members
<1> QED BY <1>3, <1>4 DEF BitVecs!Init, BitVecs!Sets!SetsInit

\* No vector comes to have more words than the bits that clients use are in,
\* and each word has bits of its own (bitvec_ensure).
THEOREM BitVecsInductive == ASSUME WholeWords PROVE BitVecs!Spec => []BitVecInv
<1>1. BitVecs!Init => BitVecInv
  BY BitVecInit
<1>2. BitVecInv /\ [BitVecs!Next]_(BitVecs!vars) => BitVecInv'
  <2>1. BitVecInv /\ UNCHANGED BitVecs!vars => BitVecInv'
    BY DEF BitVecInv, BitVecs!vars
  <2> QED BY <2>1, BitVecStep
<1> QED BY <1>1, <1>2, PTL DEF BitVecs!Spec

\* Vectors are sets of numbers, whatever their words (datastruct/bitvec.h),
\* except for what bitvec_next answers from a word that is clear.
THEOREM BitVecsSets == ASSUME WholeWords PROVE BitVecs!Spec => BitVecs!AreSets
<1>1. BitVecs!Init => BitVecs!Sets!SetsInit
  BY BitVecInit
<1>2. BitVecInv /\ [BitVecs!Next]_(BitVecs!vars) =>
        [BitVecs!Sets!Next \/ BitVecs!FromClear]_(BitVecs!vars)
  BY BitVecStep
<1> QED BY <1>1, <1>2, BitVecsInductive, PTL DEF BitVecs!Spec, BitVecs!AreSets

-----------------------------------------------------------------------------
(* Vectors: where an element's bytes are, as width and length change. *)

\* Values and MayFail are those of the searches and the bit vectors above.
CONSTANTS Widths, MaxLength
VARIABLES width, used, allocated, base, block, result

Flex == INSTANCE Vector

\* An element has bytes, and what is stored in them are numbers.
ElementsFit == Widths \subseteq Nat \ {0} /\ MaxLength \in Nat /\ Values \subseteq Int

VectorInv ==
  /\ width \in Widths
  /\ used \in Nat /\ allocated \in Nat /\ used <= allocated
  /\ base \in [1 .. allocated * width -> Int]

LEMMA ByteIn ==
  ASSUME NEW n \in Nat, NEW q \in Nat, q < n, NEW w \in Nat \ {0}, NEW b \in 1 .. w
  PROVE  /\ q * w \in Nat /\ n * w \in Nat
         /\ q * w + b \in 1 .. n * w
         /\ ((q * w + b) - 1) \div w = q
         /\ ((q * w + b) - 1) % w = b - 1
<1>1. q * w \in Nat /\ n * w \in Nat
  OBVIOUS
<1>2. PICK r : r = b - 1
  OBVIOUS
<1>3. r \in 0 .. w - 1 /\ 0 \in 0 .. w - 1 /\ b = r + 1
  BY <1>2
<1>4. q * w + r < n * w + 0
  BY <1>3, LaterWord
<1>5. PICK x \in Nat, y \in Nat : x = q * w /\ y = n * w
  BY <1>1
<1>6. x + b \in 1 .. y /\ (x + b) - 1 = x + r
  BY <1>3, <1>4, <1>5
<1>7. (q * w + r) \div w = q /\ (q * w + r) % w = r
  BY <1>3, WordAndPlace
<1> QED BY <1>1, <1>2, <1>5, <1>6, <1>7

LEMMA ByteOf ==
  ASSUME NEW n \in Nat, NEW w \in Nat \ {0}, NEW c \in 1 .. n * w
  PROVE  \E q \in 0 .. n - 1, b \in 1 .. w : c = q * w + b
<1>1. n * w \in Nat /\ c - 1 \in Nat
  OBVIOUS
<1>2. PICK a \in Nat : a = c - 1
  BY <1>1
<1>3. PICK q, r : q = a \div w /\ r = a % w
  OBVIOUS
<1>4. q \in Nat /\ r \in 0 .. w - 1 /\ a = q * w + r
  BY <1>3, Division
<1>5. 0 \in 0 .. w - 1
  OBVIOUS
<1>6. ~ (n < q)
  <2>1. ASSUME n < q PROVE FALSE
    <3>1. n * w + 0 < q * w + r
      BY <1>4, <1>5, <2>1, LaterWord
    <3>2. PICK y \in Nat : y = n * w
      BY <1>1
    <3>3. y + 0 < a /\ a < y
      BY <1>2, <1>4, <3>1, <3>2
    <3> QED BY <3>3
  <2> QED BY <2>1
<1>7. q # n
  <2>1. ASSUME q = n PROVE FALSE
    <3>1. PICK y \in Nat : y = n * w
      BY <1>1
    <3>2. a = y + r /\ a < y
      BY <1>2, <1>4, <2>1, <3>1
    <3> QED BY <1>4, <3>2
  <2> QED BY <2>1
<1>8. q \in 0 .. n - 1
  BY <1>4, <1>6, <1>7
<1>9. PICK x \in Nat : x = q * w
  BY <1>4
<1>10. r + 1 \in 1 .. w /\ c = x + (r + 1)
  BY <1>2, <1>4, <1>9
<1> QED BY <1>8, <1>9, <1>10

IsByte(c, n, q, w, b) ==
  c \in 1 .. n * w /\ (c - 1) \div w = q /\ (c - 1) % w = b - 1

LEMMA ByteAt ==
  ASSUME NEW n \in Nat, NEW q \in Nat, q < n, NEW w \in Nat \ {0}, NEW b \in 1 .. w,
         NEW c, c = q * w + b
  PROVE  IsByte(c, n, q, w, b)
BY ByteIn DEF IsByte

LEMMA Below ==
  ASSUME NEW x \in Nat, NEW y \in Nat, x <= y, NEW b \in Nat \ {0}, NEW size \in Nat,
         y + b \in 1 .. size
  PROVE  x + b \in 1 .. size
OBVIOUS

LEMMA BytesApart ==
  ASSUME NEW p \in Nat, NEW q \in Nat, p # q, NEW w \in Nat \ {0}, NEW b \in 1 .. w
  PROVE  q * w + b \notin p * w + 1 .. p * w + w
<1>1. p * w \in Nat /\ q * w \in Nat
  OBVIOUS
<1>2. PICK x \in Nat, y \in Nat : x = p * w /\ y = q * w
  BY <1>1
<1>3. 0 \in 0 .. w - 1 /\ w - 1 \in 0 .. w - 1 /\ b - 1 \in 0 .. w - 1
  OBVIOUS
<1>4. CASE p < q
  <2>1. x + (w - 1) < y + 0
    BY <1>2, <1>3, <1>4, LaterWord
  <2> QED BY <1>2, <2>1
<1>5. CASE q < p
  <2>1. y + (b - 1) < x + 0
    BY <1>2, <1>3, <1>5, LaterWord
  <2> QED BY <1>2, <2>1
<1> QED BY <1>4, <1>5

\* An element's bytes, in the block.
ElemsIn(mem, n, w) == [i \in 1 .. n |-> [b \in 1 .. w |-> mem[(i - 1) * w + b]]]

SlicesOf(mem, n, w) == [i \in 1 .. n |-> SubSeq(mem, (i - 1) * w + 1, i * w)]

LEMMA ElementBytes ==
  ASSUME NEW n \in Nat, NEW w \in Nat \ {0}, NEW mem \in [1 .. n * w -> Int], NEW i \in 1 .. n
  PROVE  SubSeq(mem, (i - 1) * w + 1, i * w) = [b \in 1 .. w |-> mem[(i - 1) * w + b]]
<1>1. PICK q \in Nat : q = i - 1
  <2>1. i - 1 \in Nat
    OBVIOUS
  <2> QED BY <2>1
<1>2. q < n /\ i = q + 1
  BY <1>1
<1>3. (q + 1) * w = q * w + w
  OBVIOUS
<1>4. PICK x \in Nat : x = q * w
  BY <1>1
<1>5. i * w = x + w /\ (i - 1) * w = x
  BY <1>1, <1>2, <1>3, <1>4
<1>6. \A b \in 1 .. w : x + b \in 1 .. n * w
  BY <1>2, <1>4, ByteIn
<1>7. \A c \in x + 1 .. x + w : c - x \in 1 .. w /\ c = x + (c - x)
  OBVIOUS
<1>8. \A c \in x + 1 .. x + w : mem[c] \in Int
  BY <1>6, <1>7
<1>9. /\ SubSeq(mem, x + 1, x + w) \in Seq(Int)
      /\ Len(SubSeq(mem, x + 1, x + w)) = w
      /\ \A b \in 1 .. w : SubSeq(mem, x + 1, x + w)[b] = mem[x + b]
  <2>1. /\ SubSeq(mem, x + 1, x + w) \in Seq(Int)
        /\ Len(SubSeq(mem, x + 1, x + w))
             = IF x + 1 <= x + w THEN (x + w) - (x + 1) + 1 ELSE 0
        /\ \A b \in 1 .. (x + w) - (x + 1) + 1 :
             SubSeq(mem, x + 1, x + w)[b] = mem[(x + 1) + b - 1]
    <3>1. x + 1 \in Int /\ x + w \in Int
      OBVIOUS
    <3> QED BY <1>8, <3>1, SubSeqProperties
  <2>2. (x + w) - (x + 1) + 1 = w /\ x + 1 <= x + w
    OBVIOUS
  <2>3. \A b \in 1 .. w : (x + 1) + b - 1 = x + b
    OBVIOUS
  <2> QED BY <2>1, <2>2, <2>3
<1>10. DOMAIN SubSeq(mem, x + 1, x + w) = 1 .. w
  BY <1>9, LenProperties
<1>11. SubSeq(mem, x + 1, x + w)
         = [b \in DOMAIN SubSeq(mem, x + 1, x + w) |-> SubSeq(mem, x + 1, x + w)[b]]
  BY <1>9, ElementOfSeq, LenProperties
<1>12. SubSeq(mem, x + 1, x + w) = [b \in 1 .. w |-> mem[x + b]]
  BY <1>9, <1>10, <1>11
<1> QED BY <1>5, <1>12

LEMMA ElemsAre ==
  ASSUME NEW m \in Nat, NEW n \in Nat, n <= m, NEW w \in Nat \ {0},
         NEW mem \in [1 .. m * w -> Int]
  PROVE  SlicesOf(mem, n, w) = ElemsIn(mem, n, w)
<1>1. \A i \in 1 .. n : i \in 1 .. m
  OBVIOUS
<1> QED BY <1>1, ElementBytes DEF ElemsIn, SlicesOf

-----------------------------------------------------------------------------
(* What a run of moves makes of the bytes. *)

LEMMA FlexLibrary == \A S : Flex!Max(S) = Max(S)
BY DEF Flex!Max, Max

\* The bytes after the moves in each set of the turns of squeeze or stretch.
MovesOf(mem, seq, new, old, n, f) ==
  f = [s \in SUBSET DOMAIN seq |->
         IF s = {} THEN mem
         ELSE Flex!Moved(f[s \ {Flex!Max(s)}], seq[Flex!Max(s)] * new, seq[Flex!Max(s)] * old, n)]

Moves(mem, seq, new, old, n) ==
  (CHOOSE f : MovesOf(mem, seq, new, old, n, f))[DOMAIN seq]

LEMMA Latest ==
  ASSUME NEW k \in Nat, NEW s \in SUBSET (1 .. k), s # {}
  PROVE  /\ Flex!Max(s) \in s /\ \A x \in s : x <= Flex!Max(s)
         /\ s \ {Flex!Max(s)} \in SUBSET (1 .. k)
         /\ \A x \in s \ {Flex!Max(s)} : x < Flex!Max(s)
<1>1. s \in SUBSET (0 .. k) /\ \A y \in s : y \in Nat
  OBVIOUS
<1>2. Flex!Max(s) \in s /\ \A x \in s : x <= Flex!Max(s)
  BY <1>1, MaxOf, FlexLibrary
<1>3. PICK m \in Nat : m = Flex!Max(s)
  BY <1>1, <1>2
<1>4. m \in s /\ \A x \in s : x \in Nat /\ x <= m
  BY <1>1, <1>2, <1>3
<1>5. s \ {m} \in SUBSET (1 .. k) /\ \A x \in s \ {m} : x < m
  BY <1>4
<1> QED BY <1>2, <1>3, <1>5

\* Two functions on sets of turns agree on all of them if they agree on none,
\* and on one turn more where they do on those before it.
LEMMA TurnByTurn ==
  ASSUME NEW k \in Nat, NEW f, NEW g, f[{}] = g[{}],
         \A s \in SUBSET (1 .. k) :
           s # {} /\ f[s \ {Flex!Max(s)}] = g[s \ {Flex!Max(s)}] => f[s] = g[s]
  PROVE  f[1 .. k] = g[1 .. k]
<1> DEFINE Bad == {n \in 0 .. k : f[1 .. n] # g[1 .. n]}
<1>1. SUFFICES ASSUME Bad # {} PROVE FALSE
  <2>1. k \in 0 .. k
    OBVIOUS
  <2> QED BY <2>1
<1>2. PICK n \in Bad : \A m \in Bad : n <= m
  <2>1. Bad \in SUBSET Nat
    OBVIOUS
  <2> QED BY <1>1, <2>1, MinOf
<1>3. n \in 0 .. k /\ f[1 .. n] # g[1 .. n]
  BY <1>2
<1>4. n # 0
  <2>1. 1 .. 0 = {}
    OBVIOUS
  <2> QED BY <1>3, <2>1
<1>5. 1 .. n \in SUBSET (1 .. k) /\ 1 .. n # {} /\ n - 1 \in 0 .. k /\ n \in 1 .. n
  <2>1. n \in Nat /\ n <= k /\ 1 <= n
    BY <1>3, <1>4
  <2> HIDE DEF Bad
  <2>2. n \in 1 .. n /\ n - 1 \in 0 .. k
    BY <2>1
  <2>3. \A x \in 1 .. n : x \in 1 .. k
    BY <2>1
  <2> QED BY <2>2, <2>3
<1>6. Flex!Max(1 .. n) = n
  <2>1. Flex!Max(1 .. n) \in 1 .. n /\ n <= Flex!Max(1 .. n)
    BY <1>5, Latest
  <2> QED BY <1>3, <2>1
<1>7. (1 .. n) \ {n} = 1 .. n - 1
  <2>1. n \in Nat \ {0}
    BY <1>3, <1>4
  <2>2. \A x \in (1 .. n) \ {n} : x \in 1 .. n - 1
    BY <2>1
  <2>3. \A x \in 1 .. n - 1 : x \in (1 .. n) \ {n}
    BY <2>1
  <2> QED BY <2>2, <2>3
<1>8. n - 1 \notin Bad
  <2>1. ~ (n <= n - 1)
    BY <1>3
  <2> HIDE DEF Bad
  <2> QED BY <1>2, <2>1
<1>9. f[1 .. n - 1] = g[1 .. n - 1]
  BY <1>5, <1>8
<1> QED BY <1>3, <1>5, <1>6, <1>7, <1>9

BytesIn(k, seq, old, n, size) ==
  \A x \in 1 .. k : \A b \in 1 .. n : seq[x] * old + b \in 1 .. size

BytesUnmoved(k, seq, new, old, n) ==
  \A x, y \in 1 .. k : \A b \in 1 .. n :
    y < x => seq[x] * old + b \notin seq[y] * new + 1 .. seq[y] * new + n

PlacesApart(k, seq, new, n) ==
  \A x, y \in 1 .. k : \A b \in 1 .. n :
    x # y => seq[x] * new + b \notin seq[y] * new + 1 .. seq[y] * new + n

BytesMoved(k, seq, new, old, n, size, mem, moved) ==
  /\ moved \in [1 .. size -> Int]
  /\ \A x \in 1 .. k : \A b \in 1 .. n :
       seq[x] * new + b \in 1 .. size => moved[seq[x] * new + b] = mem[seq[x] * old + b]
  /\ \A c \in 1 .. size :
       (\A x \in 1 .. k : c \notin seq[x] * new + 1 .. seq[x] * new + n)
         => moved[c] = mem[c]

\* Moves that overwrite no byte still to be moved, and go to different places.
LEMMA MovesKeep ==
  ASSUME NEW k \in Nat, NEW size \in Nat, NEW mem \in [1 .. size -> Int],
         NEW seq \in [1 .. k -> Nat], NEW new \in Nat, NEW old \in Nat, NEW n \in Nat,
         BytesIn(k, seq, old, n, size), BytesUnmoved(k, seq, new, old, n),
         PlacesApart(k, seq, new, n),
         NEW moved, moved = Moves(mem, seq, new, old, n)
  PROVE  BytesMoved(k, seq, new, old, n, size, mem, moved)
<1>1. PICK to \in [1 .. k -> Nat], from \in [1 .. k -> Nat] :
         \A x \in 1 .. k : to[x] = seq[x] * new /\ from[x] = seq[x] * old
  <2>1. \A x \in 1 .. k : seq[x] * new \in Nat /\ seq[x] * old \in Nat
    OBVIOUS
  <2>2. /\ [x \in 1 .. k |-> seq[x] * new] \in [1 .. k -> Nat]
        /\ [x \in 1 .. k |-> seq[x] * old] \in [1 .. k -> Nat]
    BY <2>1
  <2> QED BY <2>2
<1> DEFINE In(x, c) == c \in to[x] + 1 .. to[x] + n
           Mover(c) == CHOOSE x \in 1 .. k : In(x, c)
           After(s) == [c \in 1 .. size |->
                          IF \E x \in s : In(x, c)
                          THEN mem[(c - to[Mover(c)]) + from[Mover(c)]] ELSE mem[c]]
           done == [s \in SUBSET (1 .. k) |-> After(s)]
<1>2. DOMAIN seq = 1 .. k
  OBVIOUS
<1>3. ASSUME NEW x \in 1 .. k, NEW c \in Int, In(x, c)
      PROVE  /\ Mover(c) = x
             /\ (c - to[x]) + from[x] \in 1 .. size
             /\ \A y \in 1 .. k : y < x => ~ In(y, (c - to[x]) + from[x])
  <2>1. PICK b \in 1 .. n : b = c - to[x]
    <3>1. PICK t \in Nat : t = to[x]
      BY <1>1
    <3>2. c \in t + 1 .. t + n
      BY <1>3, <3>1
    <3>3. c - t \in 1 .. n
      BY <3>2
    <3> QED BY <3>1, <3>3
  <2>2. to[x] \in Nat /\ from[x] \in Nat /\ c = to[x] + b /\ (c - to[x]) + from[x] = from[x] + b
    <3>1. PICK t \in Nat, u \in Nat : t = to[x] /\ u = from[x]
      BY <1>1
    <3>2. b = c - t
      BY <2>1, <3>1
    <3>3. c = t + b /\ (c - t) + u = u + b
      BY <3>2
    <3> QED BY <3>1, <3>3
  <2>3. \A y \in 1 .. k : y # x => ~ In(y, c)
    <3>1. TAKE y \in 1 .. k
    <3>2. HAVE y # x
    <3>3. to[x] + b \notin to[y] + 1 .. to[y] + n
      <4>1. seq[x] * new + b \notin seq[y] * new + 1 .. seq[y] * new + n
        BY <3>2 DEF PlacesApart
      <4> QED BY <1>1, <4>1
    <3> QED BY <2>2, <3>3
  <2>4. Mover(c) = x
    BY <1>3, <2>3
  <2>5. from[x] + b \in 1 .. size
    BY <1>1 DEF BytesIn
  <2>6. \A y \in 1 .. k : y < x => ~ In(y, from[x] + b)
    <3>1. TAKE y \in 1 .. k
    <3>2. HAVE y < x
    <3>3. seq[x] * old + b \notin seq[y] * new + 1 .. seq[y] * new + n
      BY <3>2 DEF BytesUnmoved
    <3> QED BY <1>1, <3>3
  <2> QED BY <2>2, <2>4, <2>5, <2>6
<1>4. \A s \in SUBSET (1 .. k) : done[s] \in [1 .. size -> Int]
  <2> HIDE DEF Mover, In
  <2>1. TAKE s \in SUBSET (1 .. k)
  <2>2. ASSUME NEW c \in 1 .. size, NEW x \in s, In(x, c)
        PROVE  mem[(c - to[Mover(c)]) + from[Mover(c)]] \in Int
    <3>1. x \in 1 .. k /\ c \in Int
      OBVIOUS
    <3>2. (c - to[x]) + from[x] \in 1 .. size /\ Mover(c) = x
      BY <1>3, <2>2, <3>1
    <3> QED BY <3>2
  <2>3. After(s) \in [1 .. size -> Int]
    BY <2>2
  <2> QED BY <2>3
<1>5. ASSUME NEW s \in SUBSET (1 .. k), s # {}
      PROVE  done[s] = Flex!Moved(done[s \ {Flex!Max(s)}], seq[Flex!Max(s)] * new, seq[Flex!Max(s)] * old, n)
  <2>1. PICK x : x = Flex!Max(s)
    OBVIOUS
  <2>2. PICK t \in SUBSET (1 .. k) : t = s \ {x}
    OBVIOUS
  <2>3. /\ x \in s /\ x \in 1 .. k /\ s = t \cup {x} /\ x \notin t
        /\ \A y \in t : y < x /\ y \in 1 .. k
    <3>1. x \in s /\ \A y \in s \ {x} : y < x
      BY <1>5, <2>1, Latest
    <3> QED BY <2>2, <3>1
  <2>4. DOMAIN done[t] = 1 .. size
    BY <1>4
  <2>5. Flex!Moved(done[t], to[x], from[x], n)
          = [c \in 1 .. size |-> IF In(x, c) THEN done[t][c - to[x] + from[x]] ELSE done[t][c]]
    BY <2>4 DEF Flex!Moved
  <2>6. ASSUME NEW c \in 1 .. size
        PROVE  After(s)[c] = IF In(x, c) THEN done[t][c - to[x] + from[x]] ELSE done[t][c]
    <3> HIDE DEF Mover, In
    <3>1. CASE In(x, c)
      <4>1. /\ Mover(c) = x /\ (c - to[x]) + from[x] \in 1 .. size
            /\ \A y \in 1 .. k : y < x => ~ In(y, (c - to[x]) + from[x])
        BY <1>3, <2>3, <3>1
      <4>2. PICK d \in 1 .. size : d = (c - to[x]) + from[x]
        BY <4>1
      <4>3. ~ \E y \in t : In(y, d)
        BY <2>3, <4>1, <4>2
      <4>4. done[t][d] = mem[d]
        BY <4>3
      <4>5. After(s)[c] = mem[d]
        BY <2>3, <3>1, <4>1, <4>2
      <4> QED BY <3>1, <4>2, <4>4, <4>5
    <3>2. CASE ~ In(x, c)
      <4>1. (\E y \in s : In(y, c)) <=> (\E y \in t : In(y, c))
        BY <2>3, <3>2
      <4> QED BY <3>2, <4>1
    <3> QED BY <3>1, <3>2
  <2> HIDE DEF In, Mover
  <2>7. After(s) = [c \in 1 .. size |-> IF In(x, c) THEN done[t][c - to[x] + from[x]]
                                       ELSE done[t][c]]
    BY <2>6
  <2>8. done[s] = Flex!Moved(done[t], to[x], from[x], n)
    BY <2>5, <2>7
  <2> QED BY <1>1, <2>1, <2>2, <2>3, <2>8
<1>6. done[{}] = mem
  <2>1. {} \in SUBSET (1 .. k) /\ mem = [c \in 1 .. size |-> mem[c]]
    OBVIOUS
  <2> QED BY <2>1
<1> HIDE DEF done
<1>7. MovesOf(mem, seq, new, old, n, done)
  <2>1. done = [s \in SUBSET (1 .. k) |-> done[s]]
    BY DEF done
  <2>2. done = [s \in SUBSET (1 .. k) |->
          IF s = {} THEN mem
          ELSE Flex!Moved(done[s \ {Flex!Max(s)}], seq[Flex!Max(s)] * new, seq[Flex!Max(s)] * old, n)]
    BY <1>5, <1>6, <2>1
  <2> QED BY <1>2, <2>2 DEF MovesOf
<1>8. PICK f : f = CHOOSE g : MovesOf(mem, seq, new, old, n, g)
  OBVIOUS
<1>9. MovesOf(mem, seq, new, old, n, f)
  BY <1>7, <1>8
<1>10. \A s \in SUBSET (1 .. k) : f[s] =
         IF s = {} THEN mem
         ELSE Flex!Moved(f[s \ {Flex!Max(s)}], seq[Flex!Max(s)] * new, seq[Flex!Max(s)] * old, n)
  BY <1>2, <1>9 DEF MovesOf
<1>11. f[{}] = done[{}]
  BY <1>6, <1>10
<1>12. \A s \in SUBSET (1 .. k) :
         s # {} /\ f[s \ {Flex!Max(s)}] = done[s \ {Flex!Max(s)}] => f[s] = done[s]
  BY <1>5, <1>10
<1>13. f[1 .. k] = done[1 .. k]
  BY <1>11, <1>12, TurnByTurn
<1>14. moved = After(1 .. k)
  BY <1>2, <1>8, <1>13 DEF done, Moves
<1>15. moved \in [1 .. size -> Int]
  BY <1>2, <1>4, <1>8, <1>13 DEF Moves
<1>16. ASSUME NEW x \in 1 .. k, NEW b \in 1 .. n, seq[x] * new + b \in 1 .. size
       PROVE  moved[seq[x] * new + b] = mem[seq[x] * old + b]
  <2>1. PICK c \in 1 .. size : c = seq[x] * new + b
    BY <1>16
  <2>2. to[x] \in Nat /\ from[x] \in Nat /\ c = to[x] + b
    BY <1>1, <2>1
  <2>3. In(x, c) /\ (c - to[x]) + from[x] = from[x] + b
    <3>1. PICK t \in Nat, u \in Nat : t = to[x] /\ u = from[x]
      BY <2>2
    <3>2. c = t + b
      BY <2>2, <3>1
    <3>4. t + b \in t + 1 .. t + n /\ ((t + b) - t) + u = u + b
      OBVIOUS
    <3>3. c \in to[x] + 1 .. to[x] + n /\ (c - to[x]) + from[x] = from[x] + b
      BY <3>1, <3>2, <3>4
    <3> QED BY <3>3
  <2>4. Mover(c) = x
    BY <1>3, <2>3
  <2> HIDE DEF In, Mover
  <2>5. After(1 .. k)[c] = mem[(c - to[x]) + from[x]]
    BY <2>3, <2>4
  <2> QED BY <1>1, <1>14, <2>1, <2>3, <2>5
<1>17. ASSUME NEW c \in 1 .. size,
              \A x \in 1 .. k : c \notin seq[x] * new + 1 .. seq[x] * new + n
       PROVE  moved[c] = mem[c]
  <2>1. ~ \E x \in 1 .. k : In(x, c)
    BY <1>1, <1>17
  <2> HIDE DEF In, Mover
  <2> QED BY <1>14, <2>1
<1> QED BY <1>15, <1>16, <1>17 DEF BytesMoved

LEMMA Wider ==
  ASSUME NEW x \in Nat, NEW a \in Nat, NEW b \in Nat, a <= b
  PROVE  x * a \in Nat /\ x * b \in Nat /\ x * a <= x * b
<1>1. PICK d \in Nat : b = a + d
  <2>1. b - a \in Nat /\ b = a + (b - a)
    OBVIOUS
  <2> QED BY <2>1
<1>2. x * (a + d) = x * a + x * d
  OBVIOUS
<1>3. x * a \in Nat /\ x * d \in Nat
  OBVIOUS
<1>4. PICK m \in Nat, n \in Nat : m = x * a /\ n = x * d
  BY <1>3
<1> QED BY <1>1, <1>2, <1>4

LEMMA NextElement ==
  ASSUME NEW p \in Nat, NEW q \in Nat, p < q, NEW w \in Nat
  PROVE  p * w \in Nat /\ q * w \in Nat /\ p * w + w <= q * w
<1>1. PICK d \in Nat : q = (p + 1) + d
  <2>1. q - (p + 1) \in Nat /\ q = (p + 1) + (q - (p + 1))
    OBVIOUS
  <2> QED BY <2>1
<1>2. ((p + 1) + d) * w = p * w + w + d * w
  OBVIOUS
<1>3. p * w \in Nat /\ d * w \in Nat
  OBVIOUS
<1>4. PICK x \in Nat, y \in Nat : x = p * w /\ y = d * w
  BY <1>3
<1>5. x + w <= x + w + y /\ x + w + y \in Nat
  BY <1>4
<1> QED BY <1>1, <1>2, <1>4, <1>5

LEMMA ElementsUpwards ==
  ASSUME NEW n \in Nat
  PROVE  \E k \in Nat :
           /\ \A q \in 0 .. n - 1 : q # 0 => q \in 1 .. k
           /\ \A x \in 1 .. k : x \in 1 .. n - 1
           /\ Flex!Upwards(n) \in [1 .. k -> Nat]
           /\ \A x \in 1 .. k : Flex!Upwards(n)[x] = x
           /\ Flex!Reverse(Flex!Upwards(n)) \in [1 .. k -> Nat]
           /\ \A x \in 1 .. k : Flex!Reverse(Flex!Upwards(n))[x] = k - x + 1
<1>1. PICK k \in Nat : k = IF n = 0 THEN 0 ELSE n - 1
  OBVIOUS
<1>2. /\ \A q \in 0 .. n - 1 : q # 0 => q \in 1 .. k
      /\ \A x \in 1 .. k : x \in 1 .. n - 1
  BY <1>1
<1>3. Flex!Upwards(n) = [x \in 1 .. k |-> x]
  <2>1. CASE n = 0
    <3>1. <<>> = [x \in 1 .. 0 |-> x]
      OBVIOUS
    <3> QED BY <1>1, <2>1, <3>1 DEF Flex!Upwards
  <2>2. CASE n # 0
    BY <1>1, <2>2 DEF Flex!Upwards
  <2> QED BY <2>1, <2>2
<1>4. [x \in 1 .. k |-> x] \in Seq(Nat) /\ Len([x \in 1 .. k |-> x]) = k
  OBVIOUS
<1>5. Flex!Reverse(Flex!Upwards(n)) = [x \in 1 .. k |-> k - x + 1]
  <2>1. \A x \in 1 .. k : (k - x) + 1 \in 1 .. k /\ (k - x) + 1 = k - x + 1
    OBVIOUS
  <2>2. \A x \in 1 .. k : [y \in 1 .. k |-> y][(k - x) + 1] = k - x + 1
    BY <2>1
  <2> QED BY <1>3, <1>4, <2>2 DEF Flex!Reverse
<1>6. \A x \in 1 .. k : k - x + 1 \in Nat
  OBVIOUS
<1>7. /\ Flex!Upwards(n) \in [1 .. k -> Nat]
      /\ \A x \in 1 .. k : Flex!Upwards(n)[x] = x
  BY <1>3
<1>8. /\ Flex!Reverse(Flex!Upwards(n)) \in [1 .. k -> Nat]
      /\ \A x \in 1 .. k : Flex!Reverse(Flex!Upwards(n))[x] = k - x + 1
  BY <1>5, <1>6
<1> QED BY <1>2, <1>7, <1>8

\* Of n elements in room for m the first bytes stand next to each other.
Squashed(mem, now, m, n, old, new) ==
  /\ now \in [1 .. m * old -> Int]
  /\ \A q \in 0 .. n - 1 : \A b \in 1 .. new : now[q * new + b] = mem[q * old + b]

LEMMA SqueezedBytes ==
  ASSUME NEW m \in Nat, NEW n \in Nat, n <= m, NEW old \in Nat \ {0}, NEW new \in Nat \ {0},
         new < old, NEW mem \in [1 .. m * old -> Int],
         NEW moved, moved = Flex!array_squeeze(mem, n, old, new)
  PROVE  Squashed(mem, moved, m, n, old, new)
<1>1. PICK k \in Nat :
         /\ \A q \in 0 .. n - 1 : q # 0 => q \in 1 .. k
         /\ \A x \in 1 .. k : x \in 1 .. n - 1
         /\ Flex!Upwards(n) \in [1 .. k -> Nat]
         /\ \A x \in 1 .. k : Flex!Upwards(n)[x] = x
  BY ElementsUpwards
<1>2. PICK seq \in [1 .. k -> Nat] : seq = Flex!Upwards(n) /\ \A x \in 1 .. k : seq[x] = x
  BY <1>1
<1>3. moved = Moves(mem, seq, new, old, new)
  BY <1>2 DEF Flex!array_squeeze, Flex!FoldLeft, Flex!MapThenFoldSet, MovesOf, Moves
<1>4. PICK size \in Nat : size = m * old
  <2>1. m * old \in Nat
    OBVIOUS
  <2> QED BY <2>1
<1>5. ASSUME NEW q \in Nat, q < n, NEW b \in 1 .. new
      PROVE  q * old + b \in 1 .. size /\ q * new + b \in 1 .. size
  <2>1. q < m /\ b \in 1 .. old
    BY <1>5
  <2>2. q * old + b \in 1 .. size
    BY <1>4, <2>1, ByteIn
  <2>3. q * new \in Nat /\ q * old \in Nat /\ q * new <= q * old
    BY Wider
  <2>4. PICK x \in Nat, y \in Nat : x = q * new /\ y = q * old /\ x <= y /\ y + b \in 1 .. size
    BY <2>2, <2>3
  <2>6. b \in Nat \ {0}
    OBVIOUS
  <2>5. x + b \in 1 .. size
    BY <2>4, <2>6, Below
  <2> QED BY <2>2, <2>4, <2>5
<1>6. BytesIn(k, seq, old, new, size)
  <2>1. ASSUME NEW x \in 1 .. k, NEW b \in 1 .. new PROVE seq[x] * old + b \in 1 .. size
    <3>1. x \in 1 .. n - 1
      BY <1>1
    <3>2. x \in Nat /\ x < n
      BY <3>1
    <3> QED BY <1>2, <1>5, <3>2
  <2> QED BY <2>1 DEF BytesIn
<1>7. BytesUnmoved(k, seq, new, old, new)
  <2> SUFFICES ASSUME NEW x \in 1 .. k, NEW y \in 1 .. k, NEW b \in 1 .. new, y < x
               PROVE  seq[x] * old + b \notin seq[y] * new + 1 .. seq[y] * new + new
    BY DEF BytesUnmoved
  <2>3. y < x /\ y \in Nat /\ x \in Nat
    OBVIOUS
  <2>4. y * new \in Nat /\ x * new \in Nat /\ y * new + new <= x * new
    BY <2>3, NextElement
  <2>5. x * old \in Nat /\ x * new <= x * old
    BY Wider
  <2>6. PICK p \in Nat, q \in Nat, r \in Nat : p = y * new /\ q = x * new /\ r = x * old
    BY <2>4, <2>5
  <2>8. p + new <= q /\ q <= r
    BY <2>4, <2>5, <2>6
  <2>7. r + b \notin p + 1 .. p + new
    BY <2>8
  <2> QED BY <1>2, <2>6, <2>7
<1>8. PlacesApart(k, seq, new, new)
  <2>1. ASSUME NEW x \in 1 .. k, NEW y \in 1 .. k, NEW b \in 1 .. new, x # y
        PROVE  seq[x] * new + b \notin seq[y] * new + 1 .. seq[y] * new + new
    <3>1. x \in Nat /\ y \in Nat
      OBVIOUS
    <3> QED BY <1>2, <2>1, <3>1, BytesApart
  <2> QED BY <2>1 DEF PlacesApart
<1>9. /\ moved \in [1 .. size -> Int]
      /\ \A x \in 1 .. k : \A b \in 1 .. new :
           seq[x] * new + b \in 1 .. size => moved[seq[x] * new + b] = mem[seq[x] * old + b]
      /\ \A c \in 1 .. size :
           (\A x \in 1 .. k : c \notin seq[x] * new + 1 .. seq[x] * new + new)
             => moved[c] = mem[c]
  <2>1. mem \in [1 .. size -> Int] /\ new \in Nat /\ old \in Nat
    BY <1>4
  <2>2. BytesMoved(k, seq, new, old, new, size, mem, moved)
    BY <1>3, <1>6, <1>7, <1>8, <2>1, MovesKeep
  <2> QED BY <2>2 DEF BytesMoved
<1>10. ASSUME NEW q \in 0 .. n - 1, NEW b \in 1 .. new
       PROVE  moved[q * new + b] = mem[q * old + b]
  <2>1. q \in Nat /\ q < n
    OBVIOUS
  <2>2. CASE q # 0
    <3>1. q \in 1 .. k /\ q * new + b \in 1 .. size
      BY <1>1, <1>5, <2>1, <2>2
    <3> QED BY <1>2, <1>9, <3>1
  <2>3. CASE q = 0
    <3>1. 0 * new = 0 /\ 0 * old = 0 /\ 0 + b = b
      OBVIOUS
    <3>2. b \in 1 .. size
      BY <1>5, <2>1, <2>3, <3>1
    <3>3. ASSUME NEW x \in 1 .. k PROVE 0 * new + b \notin x * new + 1 .. x * new + new
      <4>1. x \in Nat /\ x # 0 /\ 0 \in Nat
        OBVIOUS
      <4> QED BY <4>1, BytesApart
    <3>4. \A x \in 1 .. k : b \notin seq[x] * new + 1 .. seq[x] * new + new
      BY <1>2, <3>1, <3>3
    <3> QED BY <1>9, <2>3, <3>1, <3>2, <3>4
  <2> QED BY <2>2, <2>3
<1> QED BY <1>4, <1>9, <1>10 DEF Squashed

\* n elements of "old" bytes have become elements of "new" bytes.
Rewidened(mem, now, n, old, new) ==
  /\ now \in [1 .. n * new -> Int]
  /\ \A q \in 0 .. n - 1 : \A b \in 1 .. new :
       now[q * new + b] = IF b <= old THEN mem[q * old + b] ELSE 0

LEMMA StretchedBytes ==
  ASSUME NEW n \in Nat, NEW old \in Nat \ {0}, NEW new \in Nat \ {0}, old < new,
         NEW mem \in [1 .. n * new -> Int],
         NEW moved, moved = Flex!array_stretch(mem, n, old, new)
  PROVE  Rewidened(mem, moved, n, old, new)
<1>1. PICK k \in Nat :
         /\ \A q \in 0 .. n - 1 : q # 0 => q \in 1 .. k
         /\ \A x \in 1 .. k : x \in 1 .. n - 1
         /\ Flex!Reverse(Flex!Upwards(n)) \in [1 .. k -> Nat]
         /\ \A x \in 1 .. k : Flex!Reverse(Flex!Upwards(n))[x] = k - x + 1
  BY ElementsUpwards
<1>2. PICK seq \in [1 .. k -> Nat] :
         seq = Flex!Reverse(Flex!Upwards(n)) /\ \A x \in 1 .. k : seq[x] = k - x + 1
  BY <1>1
<1>3. PICK apart : apart = Moves(mem, seq, new, old, old)
  OBVIOUS
<1>4. PICK size \in Nat : size = n * new
  <2>1. n * new \in Nat
    OBVIOUS
  <2> QED BY <2>1
<1>5. moved = [c \in 1 .. size |-> IF (c - 1) % new >= old THEN 0 ELSE apart[c]]
  BY <1>2, <1>3, <1>4
     DEF Flex!array_stretch, Flex!FoldLeft, Flex!MapThenFoldSet, MovesOf, Moves
<1>6. ASSUME NEW x \in 1 .. k
      PROVE  seq[x] \in Nat /\ seq[x] < n /\ seq[x] # 0
             /\ \A y \in 1 .. k : (y < x => seq[x] < seq[y]) /\ (y # x => seq[x] # seq[y])
  <2>1. k - x + 1 \in 1 .. k
    OBVIOUS
  <2>2. k - x + 1 \in 1 .. n - 1
    BY <1>1, <2>1
  <2>3. k - x + 1 < n /\ k - x + 1 # 0 /\ k - x + 1 \in Nat
    BY <2>2
  <2>4. \A y \in 1 .. k : (y < x => k - x + 1 < k - y + 1) /\ (y # x => k - x + 1 # k - y + 1)
    OBVIOUS
  <2> QED BY <1>2, <2>3, <2>4
<1>7. ASSUME NEW q \in Nat, q < n, NEW b \in 1 .. old
      PROVE  q * old + b \in 1 .. size /\ q * new + b \in 1 .. size
  <2>1. b \in 1 .. new
    OBVIOUS
  <2>2. q * new + b \in 1 .. size
    BY <1>4, <1>7, <2>1, ByteIn
  <2>3. q * new \in Nat /\ q * old \in Nat /\ q * old <= q * new
    BY Wider
  <2>4. PICK x \in Nat, y \in Nat : x = q * new /\ y = q * old /\ y <= x /\ x + b \in 1 .. size
    BY <2>2, <2>3
  <2>5. y + b \in 1 .. size
    BY <2>4
  <2> QED BY <2>2, <2>4, <2>5
<1>8. BytesIn(k, seq, old, old, size)
  BY <1>6, <1>7 DEF BytesIn
<1>9. BytesUnmoved(k, seq, new, old, old)
  <2> SUFFICES ASSUME NEW x \in 1 .. k, NEW y \in 1 .. k, NEW b \in 1 .. old, y < x
               PROVE  seq[x] * old + b \notin seq[y] * new + 1 .. seq[y] * new + old
    BY DEF BytesUnmoved
  <2>3. y < x
    OBVIOUS
  <2>4. PICK p \in Nat, q \in Nat : p = seq[x] /\ q = seq[y] /\ p < q
    BY <1>6, <2>3
  <2>5. p * old \in Nat /\ q * old \in Nat /\ p * old + old <= q * old
    BY <2>4, NextElement
  <2>6. q * new \in Nat /\ q * old <= q * new
    BY Wider
  <2>7. PICK r \in Nat, t \in Nat, u \in Nat : r = p * old /\ t = q * old /\ u = q * new
    BY <2>5, <2>6
  <2>9. r + old <= t /\ t <= u
    BY <2>5, <2>6, <2>7
  <2>8. r + b \notin u + 1 .. u + old
    BY <2>9
  <2> QED BY <2>4, <2>7, <2>8
<1>10. ASSUME NEW p \in Nat, NEW q \in Nat, p # q, NEW b \in 1 .. new
       PROVE  p * new + b \notin q * new + 1 .. q * new + old
  <2>1. p * new + b \notin q * new + 1 .. q * new + new
    BY <1>10, BytesApart
  <2>2. p * new \in Nat /\ q * new \in Nat
    OBVIOUS
  <2>3. PICK x \in Nat, y \in Nat : x = p * new /\ y = q * new
    BY <2>2
  <2> QED BY <2>1, <2>3
<1>11. PlacesApart(k, seq, new, old)
  <2>1. \A b \in 1 .. old : b \in 1 .. new
    OBVIOUS
  <2> QED BY <1>6, <1>10, <2>1 DEF PlacesApart
<1>12. /\ apart \in [1 .. size -> Int]
       /\ \A x \in 1 .. k : \A b \in 1 .. old :
            seq[x] * new + b \in 1 .. size => apart[seq[x] * new + b] = mem[seq[x] * old + b]
       /\ \A c \in 1 .. size :
            (\A x \in 1 .. k : c \notin seq[x] * new + 1 .. seq[x] * new + old)
              => apart[c] = mem[c]
  <2>1. mem \in [1 .. size -> Int] /\ new \in Nat /\ old \in Nat
    BY <1>4
  <2>2. BytesMoved(k, seq, new, old, old, size, mem, apart)
    BY <1>3, <1>8, <1>9, <1>11, <2>1, MovesKeep
  <2> QED BY <2>2 DEF BytesMoved
<1>13. ASSUME NEW q \in Nat, q < n, NEW b \in 1 .. old
       PROVE  apart[q * new + b] = mem[q * old + b]
  <2>1. q * new + b \in 1 .. size /\ q * old + b \in 1 .. size
    BY <1>7, <1>13
  <2>2. CASE q # 0
    <3>1. q \in 1 .. k /\ q \in 0 .. n - 1
      BY <1>1, <1>13, <2>2
    <3>2. k - q + 1 \in 1 .. k /\ k - (k - q + 1) + 1 = q
      BY <3>1
    <3>3. PICK x \in 1 .. k : seq[x] = q
      BY <1>2, <3>2
    <3> QED BY <1>12, <2>1, <3>3
  <2>3. CASE q = 0
    <3>1. 0 * new = 0 /\ 0 * old = 0 /\ 0 + b = b /\ b \in 1 .. new
      OBVIOUS
    <3>2. \A x \in 1 .. k : 0 * new + b \notin seq[x] * new + 1 .. seq[x] * new + old
      BY <1>6, <1>10, <3>1
    <3> QED BY <1>12, <2>1, <2>3, <3>1, <3>2
  <2> QED BY <2>2, <2>3
<1>14. moved \in [1 .. size -> Int]
  BY <1>5, <1>12
<1>15. ASSUME NEW q \in 0 .. n - 1, NEW b \in 1 .. new
       PROVE  moved[q * new + b] = IF b <= old THEN mem[q * old + b] ELSE 0
  <2>1. q \in Nat /\ q < n
    OBVIOUS
  <2>6. PICK c : c = q * new + b
    OBVIOUS
  <2>2. c \in 1 .. size /\ (c - 1) % new = b - 1
    <3>1. IsByte(c, n, q, new, b)
      BY <2>1, <2>6, ByteAt
    <3> QED BY <1>4, <3>1 DEF IsByte
  <2>3. moved[c] = IF b - 1 >= old THEN 0 ELSE apart[c]
    BY <1>5, <2>2
  <2>4. b - 1 >= old <=> ~ (b <= old)
    OBVIOUS
  <2>5. b <= old => b \in 1 .. old
    OBVIOUS
  <2> QED BY <1>13, <2>1, <2>2, <2>3, <2>4, <2>5, <2>6
<1> QED BY <1>4, <1>14, <1>15 DEF Rewidened

-----------------------------------------------------------------------------
(* What is stored, and what a block becomes when it is reallocated. *)

Sized(mem, m) == mem \in [1 .. m * width -> Int]

\* Only the bytes of element "index" change, to those of v.
OneWritten(mem, now, m, index, v) ==
  /\ Sized(now, m)
  /\ \A q \in 0 .. m - 1 : \A b \in 1 .. width :
       now[q * width + b] = IF q = index THEN 10 * v + b ELSE mem[q * width + b]

LEMMA StoredBytes ==
  ASSUME width \in Nat \ {0}, NEW m \in Nat, NEW mem, Sized(mem, m),
         NEW index \in Nat, index < m, NEW v \in Int
  PROVE  OneWritten(mem, Flex!Stored(mem, index, Flex!Element(v)), m, index, v)
<1> DEFINE now == Flex!Stored(mem, index, Flex!Element(v))
           size == m * width
<1>1. size \in Nat /\ DOMAIN mem = 1 .. size /\ mem \in [1 .. size -> Int]
  BY DEF Sized
<1>2. Len(Flex!Element(v)) = width
  BY DEF Flex!Element
<1>3. PICK x \in Nat : x = index * width
  <2>1. index * width \in Nat
    OBVIOUS
  <2> QED BY <2>1
<1>4. now = [c \in 1 .. size |-> IF c \in x + 1 .. x + width
                                 THEN Flex!Element(v)[c - x] ELSE mem[c]]
  BY <1>1, <1>2, <1>3 DEF Flex!Stored
<1>5. ASSUME NEW c \in x + 1 .. x + width
      PROVE  Flex!Element(v)[c - x] = 10 * v + (c - x) /\ 10 * v + (c - x) \in Int
  <2>1. c - x \in 1 .. width
    OBVIOUS
  <2>2. 10 * v + (c - x) \in Int
    OBVIOUS
  <2> QED BY <2>1, <2>2 DEF Flex!Element
<1>6. now \in [1 .. size -> Int]
  <2>1. \A c \in 1 .. size : mem[c] \in Int
    BY <1>1
  <2> HIDE DEF now, size
  <2> QED BY <1>4, <1>5, <2>1
<1>7. ASSUME NEW q \in 0 .. m - 1, NEW b \in 1 .. width
      PROVE  now[q * width + b] = IF q = index THEN 10 * v + b ELSE mem[q * width + b]
  <2>1. q \in Nat /\ q < m
    OBVIOUS
  <2>2. PICK c : c = q * width + b
    OBVIOUS
  <2>3. IsByte(c, m, q, width, b)
    BY <2>1, <2>2, ByteAt
  <2>4. c \in 1 .. size
    BY <2>3 DEF IsByte
  <2> HIDE DEF now, size
  <2>5. CASE q = index
    <3>1. c = x + b
      BY <1>3, <2>2, <2>5
    <3>2. x + b \in x + 1 .. x + width /\ (x + b) - x = b
      OBVIOUS
    <3> QED BY <1>4, <1>5, <2>2, <2>4, <2>5, <3>1, <3>2
  <2>6. CASE q # index
    <3>1. c \notin x + 1 .. x + width
      BY <1>3, <2>1, <2>2, <2>6, BytesApart
    <3> QED BY <1>4, <2>2, <2>4, <2>6, <3>1
  <2> QED BY <2>5, <2>6
<1> QED BY <1>6, <1>7 DEF OneWritten, Sized

\* The bytes after the elements in each set of vs have been stored.
StoringsOf(mem, vs, seq, f) ==
  f = [s \in SUBSET DOMAIN seq |->
         IF s = {} THEN mem
         ELSE Flex!Stored(f[s \ {Flex!Max(s)}], used + seq[Flex!Max(s)] - 1,
                          Flex!Element(vs[seq[Flex!Max(s)]]))]

Storings(mem, vs, seq) == (CHOOSE f : StoringsOf(mem, vs, seq, f))[DOMAIN seq]

\* The k elements from the "used" one on become those of vs.
ManyWritten(mem, now, m, k, vs) ==
  /\ Sized(now, m)
  /\ \A q \in 0 .. m - 1 : \A b \in 1 .. width :
       now[q * width + b] = IF used <= q /\ q < used + k
                            THEN 10 * vs[q - used + 1] + b ELSE mem[q * width + b]

LEMMA WrittenBytes ==
  ASSUME width \in Nat \ {0}, used \in Nat, NEW k \in Nat, NEW m \in Nat, used + k <= m,
         NEW mem, Sized(mem, m), NEW vs \in [1 .. k -> Int], NEW seq,
         seq = [i \in 1 .. k |-> i]
  PROVE  ManyWritten(mem, Storings(mem, vs, seq), m, k, vs)
<1>1. PICK size \in Nat : size = m * width /\ mem \in [1 .. size -> Int]
  <2>1. m * width \in Nat
    OBVIOUS
  <2> QED BY <2>1 DEF Sized
<1>2. DOMAIN seq = 1 .. k /\ \A x \in 1 .. k : seq[x] = x
  OBVIOUS
<1>3. PICK slot, place :
         /\ slot = [c \in 1 .. size |-> (c - 1) \div width]
         /\ place = [c \in 1 .. size |-> ((c - 1) % width) + 1]
  OBVIOUS
<1>4. ASSUME NEW q \in 0 .. m - 1, NEW b \in 1 .. width
      PROVE  /\ q * width + b \in 1 .. size
             /\ slot[q * width + b] = q /\ place[q * width + b] = b
  <2>1. PICK c : c = q * width + b
    OBVIOUS
  <2>2. q \in Nat /\ q < m /\ (b - 1) + 1 = b
    OBVIOUS
  <2>3. IsByte(c, m, q, width, b)
    BY <2>1, <2>2, ByteAt
  <2> QED BY <1>1, <1>3, <2>1, <2>2, <2>3 DEF IsByte
<1>5. \A c \in 1 .. size : \E q \in 0 .. m - 1, b \in 1 .. width : c = q * width + b
  BY <1>1, ByteOf
<1>6. \A c \in 1 .. size : /\ slot[c] \in 0 .. m - 1 /\ place[c] \in 1 .. width
                           /\ c = slot[c] * width + place[c]
  <2>1. TAKE c \in 1 .. size
  <2>2. PICK q \in 0 .. m - 1, b \in 1 .. width : c = q * width + b
    BY <1>5
  <2>3. slot[c] = q /\ place[c] = b
    BY <1>4, <2>2
  <2> QED BY <2>2, <2>3
<1> DEFINE After(s) == [c \in 1 .. size |->
                          IF (slot[c] - used) + 1 \in s
                          THEN 10 * vs[(slot[c] - used) + 1] + place[c] ELSE mem[c]]
           done == [s \in SUBSET (1 .. k) |-> After(s)]
<1>7. ASSUME NEW s \in SUBSET (1 .. k) PROVE After(s) \in [1 .. size -> Int]
  <2>1. ASSUME NEW c \in 1 .. size, (slot[c] - used) + 1 \in s
        PROVE  10 * vs[(slot[c] - used) + 1] + place[c] \in Int
    <3>1. vs[(slot[c] - used) + 1] \in Int /\ place[c] \in Int
      BY <1>6, <2>1
    <3> QED BY <3>1
  <2>2. \A c \in 1 .. size : mem[c] \in Int
    BY <1>1
  <2> QED BY <2>1, <2>2
<1>8. ASSUME NEW s \in SUBSET (1 .. k), s # {}
      PROVE  done[s] = Flex!Stored(done[s \ {Flex!Max(s)}], used + seq[Flex!Max(s)] - 1,
                                   Flex!Element(vs[seq[Flex!Max(s)]]))
  <2>1. PICK x \in 1 .. k : x = Flex!Max(s) /\ x \in s
    BY <1>8, Latest
  <2>2. PICK t \in SUBSET (1 .. k) : t = s \ {x}
    OBVIOUS
  <2>3. PICK index \in Nat : index = used + x - 1 /\ index < m
    <3>1. used + x - 1 \in Nat /\ used + x - 1 < m
      OBVIOUS
    <3> QED BY <3>1
  <2>4. Sized(done[t], m)
    BY <1>1, <1>7 DEF Sized
  <2>5. PICK now : now = Flex!Stored(done[t], index, Flex!Element(vs[x]))
    OBVIOUS
  <2>6. OneWritten(done[t], now, m, index, vs[x])
    <3>1. vs[x] \in Int
      OBVIOUS
    <3> HIDE DEF done
    <3> QED BY <2>3, <2>4, <2>5, <3>1, StoredBytes
  <2>7. now \in [1 .. size -> Int]
    BY <1>1, <2>6 DEF OneWritten, Sized
  <2>8. ASSUME NEW c \in 1 .. size PROVE After(s)[c] = now[c]
    <3>1. PICK q \in 0 .. m - 1, b \in 1 .. width :
             c = q * width + b /\ slot[c] = q /\ place[c] = b
      BY <1>6
    <3>2. now[c] = IF q = index THEN 10 * vs[x] + b ELSE done[t][c]
      BY <2>6, <3>1 DEF OneWritten
    <3>3. PICK y \in Int : y = (q - used) + 1
      OBVIOUS
    <3>4. q = index <=> y = x
      BY <2>3, <3>3
    <3>5. After(s)[c] = IF y \in s THEN 10 * vs[y] + b ELSE mem[c]
      BY <3>1, <3>3
    <3>6. done[t][c] = IF y \in t THEN 10 * vs[y] + b ELSE mem[c]
      BY <3>1, <3>3
    <3>7. y \in s <=> y = x \/ y \in t
      BY <2>1, <2>2
    <3>8. x \notin t
      BY <2>2
    <3> HIDE DEF After, done
    <3> QED BY <3>2, <3>4, <3>5, <3>6, <3>7, <3>8
  <2>9. After(s) = now
    <3>1. After(s) \in [1 .. size -> Int]
      BY <1>7
    <3> HIDE DEF After
    <3> QED BY <2>7, <2>8, <3>1
  <2>10. done[s] = now
    BY <2>9
  <2> HIDE DEF done
  <2> QED BY <1>2, <2>1, <2>2, <2>3, <2>5, <2>10
<1>9. done[{}] = mem
  <2>1. {} \in SUBSET (1 .. k) /\ mem = [c \in 1 .. size |-> mem[c]]
    BY <1>1
  <2> QED BY <2>1
<1> HIDE DEF done
<1>10. StoringsOf(mem, vs, seq, done)
  <2>1. done = [s \in SUBSET (1 .. k) |-> done[s]]
    BY DEF done
  <2>2. done = [s \in SUBSET (1 .. k) |->
          IF s = {} THEN mem
          ELSE Flex!Stored(done[s \ {Flex!Max(s)}], used + seq[Flex!Max(s)] - 1,
                           Flex!Element(vs[seq[Flex!Max(s)]]))]
    BY <1>8, <1>9, <2>1
  <2> QED BY <1>2, <2>2 DEF StoringsOf
<1>11. PICK f : f = CHOOSE g : StoringsOf(mem, vs, seq, g)
  OBVIOUS
<1>12. StoringsOf(mem, vs, seq, f)
  BY <1>10, <1>11
<1>13. \A s \in SUBSET (1 .. k) : f[s] =
         IF s = {} THEN mem
         ELSE Flex!Stored(f[s \ {Flex!Max(s)}], used + seq[Flex!Max(s)] - 1,
                          Flex!Element(vs[seq[Flex!Max(s)]]))
  BY <1>2, <1>12 DEF StoringsOf
<1>14. f[{}] = done[{}]
  BY <1>9, <1>13
<1>15. \A s \in SUBSET (1 .. k) :
         s # {} /\ f[s \ {Flex!Max(s)}] = done[s \ {Flex!Max(s)}] => f[s] = done[s]
  <2> DEFINE Stores(g, s) == Flex!Stored(g, used + seq[Flex!Max(s)] - 1,
                                       Flex!Element(vs[seq[Flex!Max(s)]]))
  <2>1. \A s \in SUBSET (1 .. k) : s # {} => f[s] = Stores(f[s \ {Flex!Max(s)}], s)
    BY <1>13
  <2>2. \A s \in SUBSET (1 .. k) : s # {} => done[s] = Stores(done[s \ {Flex!Max(s)}], s)
    BY <1>8
  <2> HIDE DEF Stores
  <2> QED BY <2>1, <2>2
<1>16. f[1 .. k] = done[1 .. k]
  BY <1>14, <1>15, TurnByTurn
<1>17. PICK now : now = Storings(mem, vs, seq)
  OBVIOUS
<1>18. now = After(1 .. k)
  BY <1>2, <1>11, <1>16, <1>17 DEF done, Storings
<1>19. Sized(now, m)
  <2>1. After(1 .. k) \in [1 .. size -> Int]
    BY <1>7
  <2> QED BY <1>1, <1>18, <2>1 DEF Sized
<1>20. ASSUME NEW q \in 0 .. m - 1, NEW b \in 1 .. width
       PROVE  now[q * width + b] = IF used <= q /\ q < used + k
                                   THEN 10 * vs[q - used + 1] + b ELSE mem[q * width + b]
  <2>1. PICK c \in 1 .. size : c = q * width + b /\ slot[c] = q /\ place[c] = b
    BY <1>4
  <2>2. (q - used) + 1 \in 1 .. k <=> used <= q /\ q < used + k
    OBVIOUS
  <2>3. now[c] = IF (q - used) + 1 \in 1 .. k THEN 10 * vs[(q - used) + 1] + b ELSE mem[c]
    BY <1>18, <2>1
  <2> QED BY <2>1, <2>2, <2>3
<1> QED BY <1>17, <1>19, <1>20 DEF ManyWritten

LEMMA ResizedBytes ==
  ASSUME NEW k \in Nat, NEW size \in Nat, NEW mem \in [1 .. k -> Int]
  PROVE  /\ Flex!Resized(mem, size) \in [1 .. size -> Int]
         /\ \A c \in 1 .. size : c <= k => Flex!Resized(mem, size)[c] = mem[c]
<1>1. Len(mem) = k
  OBVIOUS
<1>2. Flex!Resized(mem, size) = [c \in 1 .. size |-> IF c <= k THEN mem[c] ELSE -1]
  BY <1>1 DEF Flex!Resized, Flex!Unwritten
<1>3. \A c \in 1 .. size : c <= k => mem[c] \in Int
  OBVIOUS
<1> QED BY <1>2, <1>3

-----------------------------------------------------------------------------
(* Each call, in the elements. *)

LEMMA VectorFits ==
  ASSUME ElementsFit, VectorInv
  PROVE  /\ width \in Nat \ {0} /\ Sized(base, allocated)
         /\ used \in Nat /\ allocated \in Nat /\ used <= allocated
BY DEF ElementsFit, VectorInv, Sized

LEMMA ElemsNow ==
  ASSUME ElementsFit, VectorInv
  PROVE  SlicesOf(base, used, width) = ElemsIn(base, used, width)
BY VectorFits, ElemsAre DEF Sized

LEMMA ElemsNext ==
  ASSUME ElementsFit, VectorInv'
  PROVE  SlicesOf(base', used', width') = ElemsIn(base', used', width')
<1>1. /\ width' \in Nat \ {0} /\ base' \in [1 .. allocated' * width' -> Int]
      /\ used' \in Nat /\ allocated' \in Nat /\ used' <= allocated'
  BY DEF ElementsFit, VectorInv
<1> QED BY <1>1, ElemsAre

LEMMA ElemsLen ==
  ASSUME NEW mem, NEW n \in Nat, NEW w
  PROVE  Len(ElemsIn(mem, n, w)) = n /\ DOMAIN ElemsIn(mem, n, w) = 1 .. n
BY DEF ElemsIn

\* Element q has the bytes it had.
SameBytes(q) == \A b \in 1 .. width : base'[q * width + b] = base[q * width + b]

LEMMA SameElement ==
  ASSUME width' = width, NEW i \in 1 .. used, i \in 1 .. used', SameBytes(i - 1)
  PROVE  ElemsIn(base', used', width')[i] = ElemsIn(base, used, width)[i]
BY DEF SameBytes, ElemsIn

LEMMA OldPlace ==
  ASSUME NEW n \in Nat, NEW m \in Nat, NEW k \in Nat, n + k <= m, NEW i \in 1 .. n
  PROVE  /\ i \in 1 .. n + k /\ i - 1 \in 0 .. m - 1 /\ i - 1 \in 0 .. n - 1
         /\ ~ (n <= i - 1)
OBVIOUS

LEMMA NewPlace ==
  ASSUME NEW n \in Nat, NEW m \in Nat, NEW k \in Nat, n + k <= m,
         NEW i \in 1 .. n + k, i \notin 1 .. n
  PROVE  /\ i - 1 \in 0 .. m - 1 /\ n <= i - 1 /\ i - 1 < n + k
         /\ (i - 1) - n + 1 \in 1 .. k
OBVIOUS

LEMMA FlexLengthStep ==
  ASSUME ElementsFit, VectorInv, VectorInv', width' = width, result' = "OK",
         \A i \in 1 .. used : i \in 1 .. used' => SameBytes(i - 1)
  PROVE  Flex!Array!SetLength
<1>1. PICK e, f : e = ElemsIn(base, used, width) /\ f = ElemsIn(base', used', width')
  OBVIOUS
<1>2. DOMAIN e = 1 .. used /\ DOMAIN f = 1 .. used'
  BY <1>1 DEF ElemsIn
<1>3. \A i \in DOMAIN e \cap DOMAIN f : f[i] = e[i]
  BY <1>1, <1>2, SameElement
<1> QED BY <1>1, <1>3, ElemsNow, ElemsNext
        DEF SlicesOf, Flex!Array!SetLength, Flex!Array!Kept, Flex!Array!Both

Storable == {[b \in 1 .. w |-> 10 * v + b] : w \in Widths, v \in Values}

LEMMA AssignedHere ==
  ASSUME NEW e, NEW f, e = SlicesOf(base, used, width), f = SlicesOf(base', used', width'),
         NEW i \in DOMAIN f, f[i] \in Storable, Len(f[i]) = width,
         \A j \in (DOMAIN e \cap DOMAIN f) \ {i} : f[j] = e[j]
  PROVE  Flex!Array!Assigned(i)
<1>1. Flex!Array!Kept(Flex!Array!Both \ {i})
  BY DEF SlicesOf, Flex!Array!Kept, Flex!Array!Both
<1> DEFINE elems == [j \in 1 .. used |-> SubSeq(base, (j - 1) * width + 1, j * width)]
<1>2. f = elems'
  BY DEF SlicesOf
<1> HIDE DEF elems
<1>3. i \in DOMAIN elems' /\ elems'[i] \in Storable /\ Len(elems'[i]) = width
  BY <1>2
<1>4. Flex!Array!Assigned(i) <=>
        /\ i \in DOMAIN elems' /\ elems'[i] \in Storable /\ Len(elems'[i]) = width
        /\ Flex!Array!Kept(Flex!Array!Both \ {i})
  BY DEF elems, Storable, Flex!Array!Assigned
<1> QED BY <1>1, <1>3, <1>4

LEMMA FlexSetStep ==
  ASSUME ElementsFit, VectorInv, VectorInv', width' = width, UNCHANGED result,
         NEW index \in Nat, NEW v \in Values,
         used' = IF index < used THEN used ELSE index + 1,
         index < allocated, OneWritten(base, base', allocated, index, v)
  PROVE  Flex!Array!Set
<1>1. PICK e, f : e = ElemsIn(base, used, width) /\ f = ElemsIn(base', used', width')
  OBVIOUS
<1>2. used \in Nat /\ used' \in Nat /\ width \in Nat \ {0} /\ width \in Widths
      /\ used <= allocated /\ allocated \in Nat /\ used' <= allocated
  BY VectorFits DEF VectorInv
<1>3. DOMAIN e = 1 .. used /\ DOMAIN f = 1 .. used' /\ Len(e) = used /\ Len(f) = used'
  BY <1>1, <1>2, ElemsLen
<1>4. PICK n \in 1 .. used' : n = index + 1 /\ n - 1 = index
  <2>1. index + 1 \in 1 .. used' /\ (index + 1) - 1 = index
    BY <1>2
  <2> QED BY <2>1
<1>5. ASSUME NEW i \in (DOMAIN e \cap DOMAIN f) \ {n} PROVE f[i] = e[i]
  <2>1. i \in 1 .. used /\ i \in 1 .. used' /\ i - 1 \in 0 .. allocated - 1 /\ i - 1 # index
    BY <1>2, <1>3, <1>4, <1>5
  <2>2. SameBytes(i - 1)
    BY <2>1 DEF SameBytes, OneWritten
  <2> QED BY <1>1, <2>1, <2>2, SameElement
<1>6. f[n] = [b \in 1 .. width |-> 10 * v + b]
  <2>1. index \in 0 .. allocated - 1
    BY <1>2
  <2>2. \A b \in 1 .. width : base'[index * width + b] = 10 * v + b
    BY <2>1 DEF OneWritten
  <2> QED BY <1>1, <1>4, <2>2 DEF ElemsIn
<1>7. Len([b \in 1 .. width |-> 10 * v + b]) = width
  BY <1>2
<1>8. f[n] \in Storable /\ Len(f[n]) = width
  BY <1>2, <1>6, <1>7 DEF Storable
<1>9. Len(f) = IF n > Len(e) THEN n ELSE Len(e)
  BY <1>2, <1>3, <1>4
<1>10. e = SlicesOf(base, used, width) /\ f = SlicesOf(base', used', width')
  BY <1>1, ElemsNow, ElemsNext
<1>11. Flex!Array!Assigned(n) /\ n \in DOMAIN f
  BY <1>3, <1>4, <1>5, <1>8, <1>10, AssignedHere
<1> QED BY <1>9, <1>10, <1>11 DEF SlicesOf, Flex!Array!Set

LEMMA FlexInsertStep ==
  ASSUME ElementsFit, VectorInv, VectorInv', width' = width, result' = "OK",
         NEW k \in Nat \ {0}, NEW vs \in [1 .. k -> Values], used' = used + k,
         NEW mem, ManyWritten(mem, base', allocated', k, vs),
         \A q \in 0 .. used - 1 : \A b \in 1 .. width :
           mem[q * width + b] = base[q * width + b]
  PROVE  Flex!Array!Insert
<1>1. PICK e, f : e = ElemsIn(base, used, width) /\ f = ElemsIn(base', used', width')
  OBVIOUS
<1>2. used \in Nat /\ used' \in Nat /\ width \in Nat \ {0} /\ width \in Widths
      /\ allocated' \in Nat /\ used' <= allocated'
  BY VectorFits DEF VectorInv
<1>3. DOMAIN e = 1 .. used /\ DOMAIN f = 1 .. used' /\ Len(e) = used /\ Len(f) = used'
  BY <1>1, <1>2, ElemsLen
<1>4. ASSUME NEW i \in 1 .. used PROVE f[i] = e[i] /\ i \in 1 .. used'
  <2>1. i \in 1 .. used' /\ i - 1 \in 0 .. allocated' - 1 /\ i - 1 \in 0 .. used - 1
        /\ ~ (used <= i - 1)
    BY <1>2, OldPlace
  <2>2. SameBytes(i - 1)
    BY <2>1 DEF SameBytes, ManyWritten
  <2> QED BY <1>1, <2>1, <2>2, SameElement
<1>5. ASSUME NEW i \in 1 .. used', i \notin 1 .. used
      PROVE  f[i] \in Storable /\ Len(f[i]) = width
  <2>1. i - 1 \in 0 .. allocated' - 1 /\ used <= i - 1 /\ i - 1 < used + k
        /\ (i - 1) - used + 1 \in 1 .. k
    BY <1>2, <1>5, NewPlace
  <2>2. PICK v \in Values : v = vs[(i - 1) - used + 1]
    BY <2>1
  <2>3. \A b \in 1 .. width : base'[(i - 1) * width + b] = 10 * v + b
    BY <2>1, <2>2 DEF ManyWritten
  <2>4. f[i] = [b \in 1 .. width |-> 10 * v + b]
    BY <1>1, <2>3 DEF ElemsIn
  <2>5. Len([b \in 1 .. width |-> 10 * v + b]) = width
    BY <1>2
  <2> QED BY <1>2, <2>4, <2>5 DEF Storable
<1>6. Len(f) > Len(e)
  BY <1>2, <1>3
<1>7. e = SlicesOf(base, used, width) /\ f = SlicesOf(base', used', width')
  BY <1>1, ElemsNow, ElemsNext
<1>8. ASSUME NEW i \in DOMAIN f \ DOMAIN e PROVE Flex!Array!Assigned(i)
  BY <1>3, <1>4, <1>5, <1>7, AssignedHere
<1>9. \A i \in DOMAIN e : f[i] = e[i]
  BY <1>3, <1>4
<1> QED BY <1>6, <1>7, <1>8, <1>9 DEF SlicesOf, Flex!Array!Insert, Flex!Array!Kept

LEMMA FlexWidthStep ==
  ASSUME ElementsFit, VectorInv, VectorInv', used' = used, result' = "OK",
         \A q \in 0 .. used - 1 : \A b \in 1 .. width' :
           base'[q * width' + b] = IF b <= width THEN base[q * width + b] ELSE 0
  PROVE  Flex!Array!SetWidth
<1>1. PICK e, f : e = ElemsIn(base, used, width) /\ f = ElemsIn(base', used', width')
  OBVIOUS
<1>2. used \in Nat /\ width \in Nat \ {0}
  BY VectorFits
<1>3. ASSUME NEW i \in 1 .. used
      PROVE  f[i] = [b \in 1 .. width' |-> IF b <= width THEN e[i][b] ELSE 0]
  <2>1. i - 1 \in 0 .. used - 1 /\ i \in 1 .. used'
    BY <1>2
  <2>2. \A b \in 1 .. width' : b <= width => e[i][b] = base[(i - 1) * width + b]
    BY <1>1, <1>2 DEF ElemsIn
  <2>3. f[i] = [b \in 1 .. width' |-> base'[(i - 1) * width' + b]]
    BY <1>1, <2>1 DEF ElemsIn
  <2> QED BY <2>1, <2>2, <2>3
<1>4. f = [i \in 1 .. used |-> f[i]] /\ DOMAIN e = 1 .. used
  BY <1>1 DEF ElemsIn
<1>5. f = [i \in DOMAIN e |-> [b \in 1 .. width' |-> IF b <= width THEN e[i][b] ELSE 0]]
  BY <1>3, <1>4
<1> QED BY <1>1, <1>5, ElemsNow, ElemsNext DEF SlicesOf, Flex!Array!SetWidth

LEMMA VectorFailStep ==
  ASSUME VectorInv, result' \in {"OOM", "BAD_ARG"}, UNCHANGED <<width, used, allocated, base>>
  PROVE  VectorInv' /\ Flex!Array!Fail
BY DEF VectorInv, Flex!Array!Fail

LEMMA VectorKeptStep ==
  ASSUME VectorInv, UNCHANGED <<width, used, allocated, base>>
  PROVE  VectorInv'
BY DEF VectorInv

\* A step that does what FlexArray says is one that keeps the elements.
LEMMA KeptByArray == ASSUME Flex!Array!Next PROVE Flex!ElementsKept
BY DEF Flex!ElementsKept

LEMMA VectorRefusedStep ==
  ASSUME VectorInv, NEW size, Flex!Refused(size), UNCHANGED base
  PROVE  VectorInv' /\ Flex!ElementsKept
<1>1. VectorInv' /\ Flex!Array!Fail
  BY VectorFailStep DEF Flex!Refused
<1> QED BY <1>1, KeptByArray DEF Flex!Array!Next

LEMMA VectorClearStep ==
  ASSUME ElementsFit, VectorInv, Flex!vector_clear
  PROVE  VectorInv' /\ Flex!ElementsKept
<1>1. used' = 0 /\ UNCHANGED <<width, allocated, base, result>>
  BY DEF Flex!vector_clear
<1>2. VectorInv'
  BY <1>1 DEF VectorInv
<1>3. [i \in 1 .. 0 |-> SubSeq(base, (i - 1) * width + 1, i * width)] = <<>>
  OBVIOUS
<1>4. Flex!Array!Clear
  BY <1>1, <1>3 DEF Flex!Array!Clear
<1> QED BY <1>2, <1>4, KeptByArray DEF Flex!Array!Next

\* A block that is reallocated, or not, keeps the bytes it has room for.
LEMMA RoomBytes ==
  ASSUME ElementsFit, VectorInv, NEW need \in Nat, NEW m,
         m = IF need > allocated THEN need ELSE allocated
  PROVE  /\ m \in Nat /\ allocated <= m /\ need <= m
         /\ Sized(Flex!Room(need), m)
         /\ \A q \in 0 .. allocated - 1 : \A b \in 1 .. width :
              Flex!Room(need)[q * width + b] = base[q * width + b]
<1>1. m \in Nat /\ allocated <= m /\ need <= m /\ width \in Nat \ {0} /\ allocated \in Nat
  BY VectorFits
<1>2. PICK k \in Nat, size \in Nat :
         k = allocated * width /\ size = need * width /\ base \in [1 .. k -> Int]
  <2>1. allocated * width \in Nat /\ need * width \in Nat
    BY <1>1
  <2> QED BY <2>1 DEF VectorInv
<1>3. CASE need > allocated
  <2>1. Flex!Room(need) = Flex!Resized(base, size) /\ m = need
    BY <1>2, <1>3 DEF Flex!Room
  <2>2. Flex!Resized(base, size) \in [1 .. size -> Int]
    BY <1>2, ResizedBytes
  <2>3. ASSUME NEW q \in 0 .. allocated - 1, NEW b \in 1 .. width
        PROVE  Flex!Resized(base, size)[q * width + b] = base[q * width + b]
    <3>1. PICK c : c = q * width + b
      OBVIOUS
    <3>2. q \in Nat /\ q < allocated /\ q < need
      BY <1>1, <1>3
    <3>3. c \in 1 .. k /\ c \in 1 .. size
      BY <1>1, <1>2, <3>1, <3>2, ByteAt DEF IsByte
    <3>4. c <= k
      BY <3>3
    <3> QED BY <1>2, <3>1, <3>3, <3>4, ResizedBytes
  <2> QED BY <1>1, <1>2, <2>1, <2>2, <2>3 DEF Sized
<1>4. CASE ~ (need > allocated)
  BY <1>1, <1>2, <1>4 DEF Flex!Room, Sized
<1> QED BY <1>3, <1>4

LEMMA VectorEnsureStep ==
  ASSUME ElementsFit, VectorInv, NEW need \in Nat, Flex!vector_ensure(need)
  PROVE  VectorInv' /\ Flex!ElementsKept
<1>1. CASE Flex!Ensured(need) /\ UNCHANGED <<width, used>>
  <2>1. /\ base' = Flex!Room(need) /\ result' = "OK"
        /\ allocated' = IF need > allocated THEN need ELSE allocated
    BY <1>1 DEF Flex!Ensured
  <2>2. PICK m \in Nat : /\ m = allocated' /\ allocated <= m /\ Sized(base', m)
                         /\ \A q \in 0 .. allocated - 1 : \A b \in 1 .. width :
                              base'[q * width + b] = base[q * width + b]
    BY <2>1, RoomBytes
  <2>3. VectorInv'
    BY <1>1, <2>2 DEF VectorInv, Sized
  <2>4. ASSUME NEW i \in 1 .. used PROVE SameBytes(i - 1)
    <3>1. i - 1 \in 0 .. allocated - 1
      BY VectorFits
    <3> QED BY <2>2, <3>1 DEF SameBytes
  <2>5. Flex!Array!SetLength
    BY <1>1, <2>1, <2>3, <2>4, FlexLengthStep
  <2> QED BY <2>3, <2>5, KeptByArray DEF Flex!Array!Next
<1>2. CASE Flex!Refused(need * width) /\ UNCHANGED base
  BY <1>2, VectorRefusedStep
<1> QED BY <1>1, <1>2 DEF Flex!vector_ensure

LEMMA VectorLengthStep ==
  ASSUME ElementsFit, VectorInv, NEW length \in Nat, Flex!vector_set_length(length)
  PROVE  VectorInv' /\ Flex!ElementsKept
<1>1. CASE /\ used' = length /\ allocated' = length
           /\ base' = Flex!Resized(base, length * width)
           /\ result' = "OK" /\ UNCHANGED width
  <2>1. PICK k \in Nat, size \in Nat :
           k = allocated * width /\ size = length * width /\ base \in [1 .. k -> Int]
    <3>1. allocated * width \in Nat /\ length * width \in Nat
      BY VectorFits
    <3> QED BY <3>1 DEF VectorInv
  <2>2. /\ base' \in [1 .. size -> Int]
        /\ \A c \in 1 .. size : c <= k => base'[c] = base[c]
    BY <1>1, <2>1, ResizedBytes
  <2>3. VectorInv'
    BY <1>1, <2>1, <2>2 DEF VectorInv
  <2>4. ASSUME NEW i \in 1 .. used, i \in 1 .. used', NEW b \in 1 .. width
        PROVE  base'[(i - 1) * width + b] = base[(i - 1) * width + b]
    <3>1. PICK q \in Nat : q = i - 1 /\ q < allocated /\ q < length
      <4>1. i - 1 \in Nat /\ i - 1 < allocated /\ i - 1 < length
        BY <1>1, <2>4, VectorFits
      <4> QED BY <4>1
    <3>2. PICK c : c = q * width + b
      OBVIOUS
    <3>3. c \in 1 .. k /\ c \in 1 .. size
      BY <2>1, <3>1, <3>2, VectorFits, ByteAt DEF IsByte
    <3>4. c <= k
      BY <3>3
    <3> QED BY <2>2, <3>1, <3>2, <3>3, <3>4
  <2>5. Flex!Array!SetLength
    BY <1>1, <2>3, <2>4, FlexLengthStep DEF SameBytes
  <2> QED BY <2>3, <2>5, KeptByArray DEF Flex!Array!Next
<1>2. CASE Flex!Refused(length * width) /\ UNCHANGED base
  BY <1>2, VectorRefusedStep
<1> QED BY <1>1, <1>2 DEF Flex!vector_set_length

LEMMA VectorSetStep ==
  ASSUME ElementsFit, VectorInv, NEW index \in Nat, NEW v \in Values, Flex!vector_set(index, v)
  PROVE  VectorInv' /\ Flex!ElementsKept
<1>1. /\ index < allocated /\ base' = Flex!Stored(base, index, Flex!Element(v))
      /\ used' = IF index < used THEN used ELSE index + 1
      /\ UNCHANGED <<width, allocated, result>>
  BY DEF Flex!vector_set
<1>2. OneWritten(base, base', allocated, index, v)
  <2>1. v \in Int
    BY DEF ElementsFit
  <2> QED BY <1>1, <2>1, VectorFits, StoredBytes
<1>3. VectorInv'
  <2>1. base' \in [1 .. allocated' * width' -> Int]
    BY <1>1, <1>2 DEF OneWritten, Sized
  <2>2. used' \in Nat /\ used' <= allocated'
    BY <1>1, VectorFits
  <2> QED BY <1>1, <2>1, <2>2 DEF VectorInv
<1>4. Flex!Array!Set
  BY <1>1, <1>2, <1>3, FlexSetStep
<1> QED BY <1>3, <1>4, KeptByArray DEF Flex!Array!Next

LEMMA VectorInsertStep ==
  ASSUME ElementsFit, VectorInv, NEW k \in Nat \ {0}, NEW vs \in [1 .. k -> Values],
         Flex!vector_insert_many(vs)
  PROVE  VectorInv' /\ Flex!ElementsKept
<1>1. Len(vs) = k /\ DOMAIN vs = 1 .. k
  OBVIOUS
<1>2. CASE Flex!Refused((used + Len(vs)) * width) /\ UNCHANGED base
  BY <1>2, VectorRefusedStep
<1>3. CASE ~ (Flex!Refused((used + Len(vs)) * width) /\ UNCHANGED base)
  <2> DEFINE seq == [i \in 1 .. k |-> i]
             mem == Flex!Room(used + k)
  <2>1. /\ allocated' = IF used + k > allocated THEN used + k ELSE allocated
        /\ result' = "OK" /\ used' = used + k /\ UNCHANGED width
    BY <1>1, <1>3 DEF Flex!vector_insert_many, Flex!FoldLeft, Flex!MapThenFoldSet
  <2>2. base' = Storings(mem, vs, seq)
    BY <1>1, <1>3 DEF Flex!vector_insert_many, Flex!FoldLeft, Flex!MapThenFoldSet,
                      StoringsOf, Storings
  <2>3. used + k \in Nat
    BY VectorFits
  <2>4. /\ allocated' \in Nat /\ allocated <= allocated' /\ used + k <= allocated'
        /\ Sized(mem, allocated')
        /\ \A q \in 0 .. allocated - 1 : \A b \in 1 .. width :
             mem[q * width + b] = base[q * width + b]
    BY <2>1, <2>3, RoomBytes
  <2>5. vs \in [1 .. k -> Int]
    BY DEF ElementsFit
  <2>6. ManyWritten(mem, base', allocated', k, vs)
    <3> HIDE DEF mem
    <3> QED BY <2>2, <2>4, <2>5, VectorFits, WrittenBytes
  <2>7. VectorInv'
    <3>1. base' \in [1 .. allocated' * width' -> Int]
      BY <2>1, <2>6 DEF ManyWritten, Sized
    <3> QED BY <2>1, <2>3, <2>4, <3>1 DEF VectorInv
  <2>8. ASSUME NEW q \in 0 .. used - 1, NEW b \in 1 .. width
        PROVE  mem[q * width + b] = base[q * width + b]
    <3>1. q \in 0 .. allocated - 1
      BY VectorFits
    <3> HIDE DEF mem
    <3> QED BY <2>4, <3>1
  <2>9. Flex!Array!Insert
    <3> HIDE DEF mem
    <3> QED BY <2>1, <2>6, <2>7, <2>8, FlexInsertStep
  <2> QED BY <2>7, <2>9, KeptByArray DEF Flex!Array!Next
<1> QED BY <1>2, <1>3

\* What set_width makes of the bytes, whichever way the width changes.
LEMMA WidthBytes ==
  ASSUME ElementsFit, VectorInv, NEW w \in Widths, w # width, NEW now,
         now = IF w > width
               THEN Flex!array_stretch(Flex!Resized(Flex!Squeezed(w), used * w), used, width, w)
               ELSE Flex!Resized(Flex!Squeezed(w), used * w)
  PROVE  Rewidened(base, now, used, width, w)
<1>1. /\ w \in Nat \ {0} /\ width \in Nat \ {0} /\ used \in Nat /\ allocated \in Nat
      /\ used <= allocated /\ base \in [1 .. allocated * width -> Int]
  BY VectorFits DEF ElementsFit, Sized
<1>2. PICK k \in Nat, size \in Nat, old \in Nat :
         k = allocated * width /\ size = used * w /\ old = used * width
  <2>1. allocated * width \in Nat /\ used * w \in Nat /\ used * width \in Nat
    BY <1>1
  <2> QED BY <2>1
<1>3. base \in [1 .. k -> Int]
  BY <1>1, <1>2
<1>4. CASE w > width
  <2>1. PICK mem : mem = Flex!Resized(base, size)
    OBVIOUS
  <2>2. mem \in [1 .. size -> Int] /\ \A c \in 1 .. size : c <= k => mem[c] = base[c]
    BY <1>3, <2>1, ResizedBytes
  <2>3. now = Flex!array_stretch(mem, used, width, w)
    <3>1. ~ (w < width)
      BY <1>1, <1>4
    <3> QED BY <1>2, <1>4, <2>1, <3>1 DEF Flex!Squeezed
  <2>4. mem \in [1 .. used * w -> Int] /\ width < w
    BY <1>1, <1>2, <1>4, <2>2
  <2>5. Rewidened(mem, now, used, width, w)
    BY <1>1, <2>3, <2>4, StretchedBytes
  <2>6. ASSUME NEW q \in 0 .. used - 1, NEW b \in 1 .. w, b <= width
        PROVE  mem[q * width + b] = base[q * width + b]
    <3>1. PICK c : c = q * width + b
      OBVIOUS
    <3>2. q \in Nat /\ q < used /\ q < allocated /\ b \in 1 .. width
      BY <1>1, <2>6
    <3>3. c \in 1 .. k /\ c \in 1 .. old
      BY <1>1, <1>2, <3>1, <3>2, ByteAt DEF IsByte
    <3>4. old <= size
      BY <1>1, <1>2, <2>4, Wider
    <3>5. c \in 1 .. size /\ c <= k
      BY <3>3, <3>4
    <3> QED BY <2>2, <3>1, <3>5
  <2> QED BY <2>5, <2>6 DEF Rewidened
<1>5. CASE w < width
  <2>1. PICK mem : mem = Flex!array_squeeze(base, used, width, w)
    OBVIOUS
  <2>2. Squashed(base, mem, allocated, used, width, w)
    BY <1>1, <1>5, <2>1, SqueezedBytes
  <2>3. now = Flex!Resized(mem, size)
    <3>1. ~ (w > width)
      BY <1>1, <1>5
    <3> QED BY <1>2, <1>5, <2>1, <3>1 DEF Flex!Squeezed
  <2>4. now \in [1 .. size -> Int] /\ \A c \in 1 .. size : c <= k => now[c] = mem[c]
    <3>1. mem \in [1 .. k -> Int]
      BY <1>2, <2>2 DEF Squashed
    <3> QED BY <2>3, <3>1, ResizedBytes
  <2>5. ASSUME NEW q \in 0 .. used - 1, NEW b \in 1 .. w
        PROVE  now[q * w + b] = mem[q * w + b] /\ b <= width
    <3>1. PICK c : c = q * w + b
      OBVIOUS
    <3>2. q \in Nat /\ q < used /\ b <= width
      BY <1>1, <1>5
    <3>3. c \in 1 .. size
      BY <1>1, <1>2, <3>1, <3>2, ByteAt DEF IsByte
    <3>4. size <= old
      BY <1>1, <1>2, <1>5, Wider
    <3>5. old <= k
      <4>1. width * used <= width * allocated
        BY <1>1, Wider
      <4>2. width * used = used * width /\ width * allocated = allocated * width
        BY <1>1
      <4> QED BY <1>2, <4>1, <4>2
    <3>6. c <= k
      BY <3>3, <3>4, <3>5
    <3> QED BY <2>4, <3>1, <3>2, <3>3, <3>6
  <2> QED BY <1>2, <2>2, <2>4, <2>5 DEF Squashed, Rewidened
<1>6. w > width \/ w < width
  BY <1>1
<1> QED BY <1>4, <1>5, <1>6

LEMMA SqueezedSize ==
  ASSUME ElementsFit, VectorInv, NEW w \in Widths
  PROVE  Flex!Squeezed(w) \in [1 .. allocated * width -> Int]
<1>1. /\ w \in Nat \ {0} /\ width \in Nat \ {0} /\ used \in Nat /\ allocated \in Nat
      /\ used <= allocated /\ base \in [1 .. allocated * width -> Int]
  BY VectorFits DEF ElementsFit, Sized
<1>2. CASE w < width
  <2>1. Squashed(base, Flex!array_squeeze(base, used, width, w), allocated, used, width, w)
    BY <1>1, <1>2, SqueezedBytes
  <2> QED BY <1>2, <2>1 DEF Flex!Squeezed, Squashed
<1>3. CASE ~ (w < width)
  BY <1>1, <1>3 DEF Flex!Squeezed
<1> QED BY <1>2, <1>3

LEMMA NewWidthStep ==
  ASSUME ElementsFit, VectorInv, NEW w \in Widths, Flex!NewWidth(w)
  PROVE  VectorInv' /\ Flex!ElementsKept
<1>1. /\ w # width /\ width' = w /\ allocated' = used /\ used' = used /\ result' = "OK"
      /\ base' = IF w > width
                 THEN Flex!array_stretch(Flex!Resized(Flex!Squeezed(w), used * w), used, width, w)
                 ELSE Flex!Resized(Flex!Squeezed(w), used * w)
  BY DEF Flex!NewWidth
<1>2. Rewidened(base, base', used, width, w)
  BY <1>1, WidthBytes
<1>3. VectorInv'
  <2>1. used \in Nat /\ used <= used
    BY VectorFits
  <2> QED BY <1>1, <1>2, <2>1 DEF VectorInv, Rewidened
<1>4. Flex!Array!SetWidth
  BY <1>1, <1>2, <1>3, FlexWidthStep DEF Rewidened
<1> QED BY <1>3, <1>4, KeptByArray DEF Flex!Array!Next

LEMMA NoNewWidthStep ==
  ASSUME ElementsFit, VectorInv, NEW w \in Widths, Flex!NoNewWidth(w)
  PROVE  VectorInv' /\ Flex!ElementsKept
<1>1. /\ w # width /\ base' = Flex!Squeezed(w) /\ result' = "OOM"
      /\ UNCHANGED <<width, used, allocated>>
  BY DEF Flex!NoNewWidth, Flex!Refused
<1>2. VectorInv'
  BY <1>1, SqueezedSize DEF VectorInv
<1>3. CASE w < width
  <2>1. Len(SlicesOf(base, used, width)) = used
    BY VectorFits DEF SlicesOf
  <2>2. Len(SlicesOf(base', used', width')) = used
    BY <1>1, VectorFits DEF SlicesOf
  <2>3. Flex!Array!FailNarrowing
    BY <1>1, <2>1, <2>2 DEF SlicesOf, Flex!Array!FailNarrowing
  <2> QED BY <1>1, <1>2, <1>3, <2>3 DEF Flex!ElementsKept
<1>4. CASE ~ (w < width)
  <2>1. UNCHANGED base
    BY <1>1, <1>4 DEF Flex!Squeezed
  <2>2. Flex!Array!Fail
    BY <1>1, <2>1, VectorFailStep
  <2> QED BY <1>2, <2>2, KeptByArray DEF Flex!Array!Next
<1> QED BY <1>3, <1>4

LEMMA SameWidthStep ==
  ASSUME ElementsFit, VectorInv, NEW w, Flex!SameWidth(w)
  PROVE  VectorInv' /\ Flex!ElementsKept
<1>1. result' \in {"OK", "BAD_ARG"} /\ UNCHANGED <<width, used, allocated, base>>
  BY DEF Flex!SameWidth
<1>2. VectorInv'
  BY <1>1, VectorKeptStep
<1>3. CASE result' = "OK"
  <2>1. ASSUME NEW q \in 0 .. used - 1, NEW b \in 1 .. width'
        PROVE  base'[q * width' + b] = IF b <= width THEN base[q * width + b] ELSE 0
    <3>1. b <= width
      BY <1>1, VectorFits
    <3> QED BY <1>1, <3>1
  <2>2. Flex!Array!SetWidth
    BY <1>1, <1>2, <1>3, <2>1, FlexWidthStep
  <2> QED BY <1>2, <2>2, KeptByArray DEF Flex!Array!Next
<1>4. CASE result' = "BAD_ARG"
  <2>1. Flex!Array!Fail
    BY <1>1, <1>4, VectorFailStep
  <2> QED BY <1>2, <2>1, KeptByArray DEF Flex!Array!Next
<1> QED BY <1>1, <1>3, <1>4

LEMMA VectorWidthStep ==
  ASSUME ElementsFit, VectorInv, NEW w \in Widths \cup {0}, Flex!vector_set_width(w)
  PROVE  VectorInv' /\ Flex!ElementsKept
<1>1. CASE Flex!SameWidth(w)
  BY <1>1, SameWidthStep
<1>2. CASE Flex!WidenNothing(w)
  <2>1. VectorInv'
    BY <1>2, VectorKeptStep DEF Flex!WidenNothing
  <2> QED BY <1>2, <2>1 DEF Flex!WidenNothing, Flex!ElementsKept
<1>3. CASE Flex!NewWidth(w)
  <2>1. w \in Widths
    BY <1>3 DEF Flex!NewWidth
  <2> QED BY <1>3, <2>1, NewWidthStep
<1>4. CASE Flex!NoNewWidth(w)
  <2>1. w \in Widths
    BY <1>4 DEF Flex!NoNewWidth
  <2> QED BY <1>4, <2>1, NoNewWidthStep
<1> QED BY <1>1, <1>2, <1>3, <1>4 DEF Flex!vector_set_width

LEMMA VectorStep ==
  ASSUME ElementsFit, VectorInv, Flex!Next
  PROVE  VectorInv' /\ Flex!ElementsKept
<1>1. CASE Flex!vector_clear
  BY <1>1, VectorClearStep
<1>2. ASSUME NEW n \in 0 .. MaxLength, Flex!vector_ensure(n) \/ Flex!vector_set_length(n)
      PROVE  VectorInv' /\ Flex!ElementsKept
  <2>1. n \in Nat
    BY DEF ElementsFit
  <2> QED BY <1>2, <2>1, VectorEnsureStep, VectorLengthStep
<1>3. ASSUME NEW i \in 0 .. MaxLength - 1, NEW v \in Values, Flex!vector_set(i, v)
      PROVE  VectorInv' /\ Flex!ElementsKept
  <2>1. i \in Nat
    BY DEF ElementsFit
  <2> QED BY <1>3, <2>1, VectorSetStep
<1>4. ASSUME NEW vs \in [1 .. 1 -> Values] \cup [1 .. 2 -> Values], Flex!vector_insert_many(vs)
      PROVE  VectorInv' /\ Flex!ElementsKept
  <2>1. 1 \in Nat \ {0} /\ 2 \in Nat \ {0}
    OBVIOUS
  <2>2. PICK k \in Nat \ {0} : vs \in [1 .. k -> Values]
    BY <2>1
  <2> QED BY <1>4, <2>2, VectorInsertStep
<1>5. ASSUME NEW w \in Widths \cup {0}, Flex!vector_set_width(w)
      PROVE  VectorInv' /\ Flex!ElementsKept
  BY <1>5, VectorWidthStep
<1> QED BY <1>1, <1>2, <1>3, <1>4, <1>5 DEF Flex!Next

LEMMA VectorInit == ASSUME ElementsFit, Flex!Init PROVE VectorInv /\ Flex!Array!Init
<1>1. width \in Widths /\ used = 0 /\ allocated = 0 /\ base = <<>> /\ result = "OK"
  BY DEF Flex!Init
<1>2. width \in Nat \ {0}
  BY <1>1 DEF ElementsFit
<1>3. 0 * width = 0 /\ <<>> \in [1 .. 0 -> Int]
  BY <1>2
<1>4. VectorInv
  BY <1>1, <1>3 DEF VectorInv
<1>5. [i \in 1 .. 0 |-> SubSeq(base, (i - 1) * width + 1, i * width)] = <<>>
  OBVIOUS
<1> QED BY <1>1, <1>4, <1>5 DEF Flex!Array!Init

\* A vector's block has the bytes of the elements allocated, among them those in
\* use, through changes of length and width and reallocations that fail.
THEOREM VectorsInductive == ASSUME ElementsFit PROVE Flex!Spec => []VectorInv
<1>1. Flex!Init => VectorInv
  BY VectorInit
<1>2. VectorInv /\ [Flex!Next]_(Flex!vars) => VectorInv'
  <2>1. VectorInv /\ UNCHANGED Flex!vars => VectorInv'
    BY VectorKeptStep DEF Flex!vars
  <2> QED BY <2>1, VectorStep
<1> QED BY <1>1, <1>2, PTL DEF Flex!Spec

\* Elements keep their bytes through every call, cut off or filled up where the
\* width changes, except where set-width.c and set-length.c do not keep them.
THEOREM VectorsKeepElements == ASSUME ElementsFit PROVE Flex!Spec => Flex!KeepsElements
<1>1. Flex!Init => Flex!Array!Init
  BY VectorInit
<1>2. VectorInv /\ [Flex!Next]_(Flex!vars) => [Flex!ElementsKept]_(Flex!vars)
  BY VectorStep
<1> QED BY <1>1, <1>2, VectorsInductive, PTL DEF Flex!Spec, Flex!KeepsElements

=============================================================================
