-------------------------------- MODULE Pack --------------------------------
(***************************************************************************)
(* utils/pack: values are packed into a buffer and unpacked from it as the *)
(* items of a format say.  A value is the sequence of its bytes, the least *)
(* significant first.                                                      *)
(***************************************************************************)
EXTENDS Integers, Sequences, SequencesExt

CONSTANTS
  Formats   \* the sequences of items used

\* An item is [array, count, src, dst, signed]: whether it was given as an
\* array, how many values, the bytes of each in the buffer ("bhwd", 0 if not
\* said), the bytes of each in memory ("csiq"), and whether in lower case.

VARIABLES
  format, values,   \* the items, and the values for each
  endian,           \* of the data to be unpacked: "<" or ">"
  pc,               \* "pack", "unpack", or "done"
  item,             \* the item the loop has come to
  buf,              \* the bytes packed
  bp,               \* how many have been unpacked
  out,              \* the values unpacked for each item
  answer            \* what unpack answered

vars == <<format, values, endian, pc, item, buf, bp, out, answer>>

Unknown == -1   \* a byte from beyond the buffer

\* "allow lone C/S/I/Q/c/s/i/q specifiers to mean bC/hS/wI/dQ/bc/hs/wi/dq"
Source(i) == IF i.src = 0 THEN i.dst ELSE i.src

\* Two values of each size: one that is negative if signed, one that is not.
Sample(size, negative) == [b \in 1 .. size |-> IF negative THEN 200 + b ELSE b]

Samples(f, negative) ==
  [i \in DOMAIN f |->
     [v \in 1 .. f[i].count |-> Sample(Source(f[i]), (v % 2 = 0) = negative)]]

Init ==
  /\ format \in Formats
  /\ \E negative \in BOOLEAN : values = Samples(format, negative)
  /\ endian \in {"<", ">"}
  /\ pc = "pack" /\ item = 1 /\ buf = <<>> /\ bp = 0 /\ out = <<>> /\ answer = 0

\* pack writes the least byte first.  Data the other way about comes from
\* elsewhere.
Written(value) == IF endian = "<" THEN value ELSE Reverse(value)

PackItem ==
  /\ pc = "pack" /\ item <= Len(format)
  /\ buf' = buf \o FlattenSeq([v \in DOMAIN values[item] |-> Written(values[item][v])])
  /\ item' = item + 1
  /\ UNCHANGED <<format, values, endian, pc, bp, out, answer>>

Packed ==
  /\ pc = "pack" /\ item > Len(format)
  /\ pc' = "unpack" /\ item' = 1
  /\ UNCHANGED <<format, values, endian, buf, bp, out, answer>>

\* Mutant: a halfword is read from the wrong end.
Offset_Swapped(size, b) == IF endian = "<" /\ size # 2 THEN b ELSE size + 1 - b

\* Where byte b of a value is.  The unpacker for big endian data counts from
\* the end of eight bytes, however many the value has.
Offset(size, b) == IF size = 1 \/ endian = "<" THEN b ELSE 9 - b

Byte(at) == IF at <= Len(buf) THEN buf[at] ELSE Unknown
ReadAt(at, size) == [b \in 1 .. size |-> Byte(at + Offset(size, b))]

\* Mutant: signed bytes are read as unsigned.
Extends_NoBytes(i) == i.signed /\ Source(i) # 1

\* Whether a value that is negative stays so in more bytes: an array's
\* halfwords are cast to the wider type, all others to their own first.
Extends(i) == i.signed /\ ~ (i.array /\ Source(i) = 2)

\* The value in n bytes, the missing ones filled with its sign if need be.
Widened(value, n, sign) ==
  [b \in 1 .. n |-> IF b <= Len(value) THEN value[b]
                    ELSE IF sign /\ Last(value) >= 128 THEN 255 ELSE 0]

Truncates(i) == Source(i) > i.dst

UnpackItem ==
  /\ pc = "unpack" /\ item <= Len(format)
  /\ LET i == format[item]
         size == Source(i)
     IN  /\ ~ Truncates(i)
         /\ out' = Append(out, [v \in 1 .. i.count |->
                     Widened(ReadAt(bp + size * (v - 1), size), i.dst, Extends(i))])
         /\ bp' = bp + size * i.count
  /\ item' = item + 1
  /\ UNCHANGED <<format, values, endian, pc, buf, answer>>

\* An assertion says so too, where there are assertions.
WouldTruncate ==
  /\ pc = "unpack" /\ item <= Len(format) /\ Truncates(format[item])
  /\ pc' = "done" /\ answer' = 0
  /\ UNCHANGED <<format, values, endian, item, buf, bp, out>>

Unpacked ==
  /\ pc = "unpack" /\ item > Len(format)
  /\ pc' = "done" /\ answer' = bp
  /\ UNCHANGED <<format, values, endian, item, buf, bp, out>>

Next == PackItem \/ Packed \/ UnpackItem \/ WouldTruncate \/ Unpacked

Spec == Init /\ [][Next]_vars

-----------------------------------------------------------------------------

\* What is unpacked for item i, if all is well: the values packed, with the
\* sign they had, in the size asked for.
AsPacked(i) ==
  out[i] = [v \in DOMAIN values[i] |->
              Widened(values[i][v], format[i].dst, format[i].signed)]

\* unpack has used all that pack wrote, or refused to truncate.
CountsBytes ==
  answer = IF \E i \in DOMAIN format : Truncates(format[i]) THEN 0 ELSE Len(buf)

\* What has been packed is unpacked the same, in whatever mode and size, and
\* both count the same bytes.  Not so big endian values, unless of eight
\* bytes, nor negative halfwords of an array read into anything wider
\* (unpack.c:206 and 232).
UnpacksWhatWasPacked ==
  (pc = "done" /\ endian = "<") =>
     /\ CountsBytes
     /\ \A i \in DOMAIN out :
          \/ format[i].array /\ Source(format[i]) = 2 /\ format[i].dst > 2
          \/ AsPacked(i)

\* utils/pack.h: "'>' to unpack big endian data".
UnpacksBigEndian ==
  (pc = "done" /\ endian = ">") =>
     \A i \in DOMAIN out : format[i].array \/ AsPacked(i)

=============================================================================
