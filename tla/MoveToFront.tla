---------------------------- MODULE MoveToFront ----------------------------
(***************************************************************************)
(* io/stream: the move-to-front compressor and decompressor, the second    *)
(* reading the first, each with a buffer and a table of the bytes last     *)
(* seen.  A byte in the table is written as its place in it, in half a     *)
(* byte; another as an escape and the byte itself.  A call of get fills a  *)
(* whole buffer; a step writes one byte to it.                             *)
(*                                                                         *)
(* TabSize stands for 15 and half a byte is a number up to it, so a byte   *)
(* is a pair of halves, the lower first, and bits held over a sequence of  *)
(* halves.                                                                 *)
(***************************************************************************)
EXTENDS Integers, Sequences, SequencesExt

CONSTANTS
  Inputs,       \* the sequences of bytes to compress
  TabSize,      \* TABSZ
  FirstTable,   \* DFLTTAB
  CompSizes,    \* the buffer sizes of the compressor
  DecompSizes   \* the buffer sizes of the decompressor

VARIABLES
  source, input,                \* all the input, and what is not read of it
  csize, ctab, cheld, cbuf,     \* the compressor: buffer size, table, bits
                                \* held, and bytes written and not yet read
  cbits,                        \* compress's copy of the bits held
  dsize, dtab, dheld, dbuf,     \* the decompressor
  pc,                           \* who runs
  cend,                         \* the compressor has met the end
  out                           \* what the client has got

comp == <<input, csize, ctab, cheld, cbits, cbuf, cend>>
decomp == <<dsize, dtab, dheld, dbuf>>
vars == <<source, comp, decomp, pc, out>>

ESCAPE == TabSize

Halves(c) == <<c % (TabSize + 1), c \div (TabSize + 1)>>
Whole(h) == h[1] + (TabSize + 1) * h[2]

Init ==
  /\ source \in Inputs /\ input = source
  /\ csize \in CompSizes /\ ctab = FirstTable /\ cheld = <<>> /\ cbits = <<>> /\ cbuf = <<>>
  /\ dsize \in DecompSizes /\ dtab = FirstTable /\ dheld = <<>> /\ dbuf = <<>>
  /\ pc = "client" /\ cend = FALSE
  /\ out = <<>>

\* The place of c in the table, or 0.
index_of(tab, c) == IF c \in ToSet(tab) THEN CHOOSE i \in DOMAIN tab : tab[i] = c ELSE 0

\* c moves to the front, and a byte that is new pushes out the last.
update_current(tab, c) ==
  LET pos == IF index_of(tab, c) = 0 THEN TabSize ELSE index_of(tab, c)
  IN <<c>> \o RemoveAt(tab, pos)

\* Mutant: a byte not in the table is written without its escape.
Encoded_NoEscape(tab, c) ==
  IF index_of(tab, c) # 0 THEN <<index_of(tab, c) - 1>> ELSE Halves(c)

\* What is written for c.
Encoded(tab, c) ==
  IF index_of(tab, c) # 0 THEN <<index_of(tab, c) - 1>> ELSE <<ESCAPE>> \o Halves(c)

-----------------------------------------------------------------------------
(* compress.  It works on a copy of the bits held: what was read since the *)
(* last byte was written is dropped at the end of the input.               *)

InComp == pc = "comp" /\ Len(cbuf) < csize /\ ~ cend

CompReads ==
  /\ InComp /\ Len(cbits) < 2 /\ input # <<>>
  /\ cbits' = cbits \o Encoded(ctab, input[1])
  /\ ctab' = update_current(ctab, input[1])
  /\ input' = Tail(input)
  /\ UNCHANGED <<source, csize, cheld, cbuf, cend, decomp, pc, out>>

CompWrites ==
  /\ InComp /\ Len(cbits) >= 2
  /\ cbuf' = Append(cbuf, Whole(SubSeq(cbits, 1, 2)))
  /\ cbits' = SubSeq(cbits, 3, Len(cbits))
  /\ cheld' = cbits'
  /\ UNCHANGED <<source, input, csize, ctab, cend, decomp, pc, out>>

CompEnds ==
  /\ InComp /\ Len(cbits) < 2 /\ input = <<>>
  /\ cend' = TRUE
  /\ cbits' = cheld
  /\ UNCHANGED <<source, input, csize, ctab, cheld, cbuf, decomp, pc, out>>

\* The compressor's get returns to the decompressor.
CompReturns ==
  /\ pc = "comp" /\ (Len(cbuf) = csize \/ cend)
  /\ pc' = IF cbuf = <<>> THEN "ends" ELSE "decomp"
  /\ UNCHANGED <<source, comp, decomp, out>>

-----------------------------------------------------------------------------
(* decompress. *)

\* Mutant: an escape waits for two whole bytes.
Needed_Whole == IF dheld # <<>> /\ dheld[1] = ESCAPE THEN 4 ELSE 1

\* The halves a byte is read from, that begin with those held.
Needed == IF dheld # <<>> /\ dheld[1] = ESCAPE THEN 3 ELSE 1

\* The compressor is read when what is held is too short.
Short == Len(dheld) < Needed

DecompCalls ==
  /\ pc = "decomp" /\ Len(dbuf) < dsize /\ Short /\ cbuf = <<>>
  /\ pc' = "comp" /\ cend' = FALSE
  /\ UNCHANGED <<source, input, csize, ctab, cheld, cbits, cbuf, decomp, out>>

DecompReads ==
  /\ pc = "decomp" /\ Len(dbuf) < dsize /\ Short /\ cbuf # <<>>
  /\ dheld' = dheld \o Halves(cbuf[1])
  /\ cbuf' = Tail(cbuf)
  /\ UNCHANGED <<source, input, csize, ctab, cheld, cbits, cend, dsize, dtab, dbuf, pc, out>>

DecompByte ==
  /\ pc = "decomp" /\ Len(dbuf) < dsize /\ ~ Short
  /\ LET n == Needed
         c == IF n = 1 THEN dtab[dheld[1] + 1] ELSE Whole(SubSeq(dheld, 2, 3))
     IN /\ dbuf' = Append(dbuf, c)
        /\ dheld' = SubSeq(dheld, n + 1, Len(dheld))
        /\ dtab' = update_current(dtab, c)
  /\ UNCHANGED <<source, comp, dsize, pc, out>>

\* The compressor has ended: a byte read for an escape is dropped with it.
DecompEnds ==
  /\ pc = "ends"
  /\ pc' = "filled"
  /\ dheld' = IF Len(dheld) = 2 THEN <<>> ELSE dheld
  /\ UNCHANGED <<source, comp, dsize, dtab, dbuf, out>>

DecompFull ==
  /\ pc = "decomp" /\ Len(dbuf) = dsize
  /\ pc' = "filled"
  /\ UNCHANGED <<source, comp, decomp, out>>

-----------------------------------------------------------------------------
(* The client, by stream_getc. *)

Get ==
  /\ pc \in {"client", "filled"} /\ dbuf # <<>>
  /\ out' = Append(out, dbuf[1])
  /\ dbuf' = Tail(dbuf)
  /\ pc' = "client"
  /\ UNCHANGED <<source, comp, dsize, dtab, dheld>>

GetFills ==
  /\ pc = "client" /\ dbuf = <<>>
  /\ pc' = "decomp"
  /\ UNCHANGED <<source, comp, decomp, out>>

GetEnds ==
  /\ pc = "filled" /\ dbuf = <<>>
  /\ pc' = "end"
  /\ UNCHANGED <<source, comp, decomp, out>>

Next ==
  \/ CompReads \/ CompWrites \/ CompEnds \/ CompReturns
  \/ DecompCalls \/ DecompReads \/ DecompByte \/ DecompEnds \/ DecompFull
  \/ Get \/ GetFills \/ GetEnds

Spec == Init /\ [][Next]_vars /\ WF_vars(Next)

-----------------------------------------------------------------------------
(* Properties. *)

\* What the client has is the beginning of the input: the two tables keep in
\* step however the buffers cut what is written (stream-mtfcomp.c:51).
TablesInStep == IsPrefix(out, source)

\* At the end the client has all the input but its last byte at most, which
\* the compressor may hold half of (stream-mtfcomp.c:90, "fix termination
\* case").
LosesLastAtMost == pc = "end" => Len(out) >= Len(source) - 1

\* The client comes to the end of the stream.
Ends == <>(pc = "end")

=============================================================================
