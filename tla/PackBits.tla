------------------------------ MODULE PackBits ------------------------------
(***************************************************************************)
(* io/stream: a PackBits compressor that reads a stream of bytes, and a    *)
(* decompressor that reads the compressor, both with a buffer of their     *)
(* own.  A client takes bytes from the decompressor one at a time; a call  *)
(* of fill goes down the chain and is taken in steps, one for each run or  *)
(* token.                                                                  *)
(*                                                                         *)
(* MaxRun stands for 128 and a byte is a number below 2 * MaxRun.  A       *)
(* buffer's contents are the sequence written to it so far, which neither  *)
(* stage ever takes up again from the start.                               *)
(***************************************************************************)
EXTENDS Integers, Sequences, SequencesExt

CONSTANTS
  Inputs,          \* the sequences of bytes to compress
  MaxRun,          \* the longest run, and the longest literal
  CompSizes,       \* the buffer sizes of the compressor
  DecompSizes      \* the buffer sizes of the decompressor

VARIABLES
  source,                  \* all the input, as the client gave it
  input,                   \* what the compressor has not read
  csize, cbuf, cread,      \* its buffer: size, bytes written, bytes read
  cstate, lastliteral,     \* its state; where its last literal begins
  pending,                 \* the run saved to resume with, or NoRun
  dsize, dbuf, dread,      \* the decompressor's buffer
  token,                   \* the decompressor's N, once read
  pc,                      \* which function runs, and at which point
  then,                    \* where the compressor returns to
  out                      \* what the client has got

comp == <<input, csize, cbuf, cread, cstate, lastliteral, pending>>
decomp == <<dsize, dbuf, dread, token>>
vars == <<source, comp, decomp, pc, then, out>>

NoRun == [n |-> 0, first |-> 0]
NoToken == -1

\* (unsigned char) (-n + 1), the byte that begins a run of n.
RunByte(n) == (1 - n) % (2 * MaxRun)

Lesser(a, b) == IF a < b THEN a ELSE b

Init ==
  /\ source \in Inputs /\ input = source
  /\ csize \in CompSizes /\ cbuf = <<>> /\ cread = 0
  /\ cstate = "Initial" /\ lastliteral = 0 /\ pending = NoRun
  /\ dsize \in DecompSizes /\ dbuf = <<>> /\ dread = 0
  /\ token = NoToken
  /\ pc = "client" /\ then = "client"
  /\ out = <<>>

-----------------------------------------------------------------------------
(* The compressor. *)

\* The length of the run of identical bytes that s begins with.
RunLength(s) ==
  CHOOSE n \in 1 .. Len(s) :
    /\ \A i \in 1 .. n : s[i] = s[1]
    /\ n < Len(s) => s[n + 1] # s[1]

\* What fill begins with: the run put off when its buffer was full.
Resumed == [run |-> pending, state |-> IF pending = NoRun THEN cstate ELSE "Initial"]

\* fill is called with its buffer empty; when nothing can be added it
\* returns 0.
CompBegin ==
  /\ pc = "comp"
  /\ IF Len(cbuf) = csize
     THEN pc' = then /\ UNCHANGED <<cstate, pending>>
     ELSE /\ cstate' = Resumed.state
          /\ pending' = Resumed.run
          /\ pc' = IF Resumed.run = NoRun THEN "comp_read" ELSE "comp_pack"
  /\ UNCHANGED <<source, input, csize, cbuf, cread, lastliteral, decomp, then, out>>

\* The next run of the input, one byte too many having been put back.
CompRead ==
  /\ pc = "comp_read"
  /\ IF input = <<>>
     THEN pc' = then /\ UNCHANGED <<input, pending>>
     ELSE LET n == RunLength(input)
          IN /\ pending' = [n |-> n, first |-> input[1]]
             /\ input' = SubSeq(input, n + 1, Len(input))
             /\ pc' = "comp_pack"
  /\ UNCHANGED <<source, csize, cbuf, cread, cstate, lastliteral, decomp, then, out>>

\* A run of up to MaxRun is written; what is left of it is packed next.
PackRun(newstate) ==
  /\ cbuf' = cbuf \o <<RunByte(Lesser(pending.n, MaxRun)), pending.first>>
  /\ cstate' = newstate
  /\ pending' = IF pending.n > MaxRun THEN [pending EXCEPT !.n = @ - MaxRun] ELSE NoRun
  /\ pc' = IF pending.n > MaxRun THEN "comp_pack" ELSE "comp_read"
  /\ UNCHANGED lastliteral

\* A literal of one byte.
PackLiteral ==
  /\ lastliteral' = Len(cbuf) + 1
  /\ cbuf' = cbuf \o <<0, pending.first>>
  /\ cstate' = "Literal"
  /\ pending' = NoRun /\ pc' = "comp_read"

\* Mutant: a full literal is extended.
Longest_Over(count) == count = MaxRun

\* A literal of MaxRun bytes takes no more.
Longest(count) == count = MaxRun - 1

ExtendLiteral ==
  LET count == cbuf[lastliteral] + 1
  IN /\ cbuf' = Append([cbuf EXCEPT ![lastliteral] = count], pending.first)
     /\ cstate' = IF Longest(count) THEN "Initial" ELSE "Literal"
     /\ pending' = NoRun /\ pc' = "comp_read"
     /\ UNCHANGED lastliteral

\* A literal, a run of two and one more byte make a single literal.
Mergeable ==
  /\ pending.n = 1
  /\ cbuf[Len(cbuf) - 1] = RunByte(2)
  /\ cbuf[lastliteral] <= MaxRun - 3

\* Mutant: a run that is not merged leaves the state as it was.
MergeRun_Stays ==
  /\ Mergeable
  /\ cbuf' = [cbuf EXCEPT ![lastliteral] = @ + 2,
                          ![Len(cbuf) - 1] = cbuf[Len(cbuf)]]
  /\ cstate' = IF Longest(cbuf[lastliteral] + 2) THEN "Initial" ELSE "Literal"
  /\ UNCHANGED <<lastliteral, pending, pc>>

MergeRun ==
  /\ IF Mergeable
     THEN LET count == cbuf[lastliteral] + 2
          IN /\ cbuf' = [cbuf EXCEPT ![lastliteral] = count,
                                     ![Len(cbuf) - 1] = cbuf[Len(cbuf)]]
             /\ cstate' = IF Longest(count) THEN "Initial" ELSE "Literal"
     ELSE cstate' = "Run" /\ UNCHANGED cbuf
  /\ UNCHANGED <<lastliteral, pending, pc>>

\* At the label again: with less than two bytes spare the run is put off.
CompPack ==
  /\ pc = "comp_pack"
  /\ IF csize - Len(cbuf) < 2
     THEN pc' = then /\ UNCHANGED <<cbuf, cstate, lastliteral, pending>>
     ELSE CASE cstate = "LiteralRun" -> MergeRun
            [] cstate = "Literal" /\ pending.n > 1 -> PackRun("LiteralRun")
            [] cstate = "Literal" /\ pending.n = 1 -> ExtendLiteral
            [] cstate \in {"Initial", "Run"} /\ pending.n > 1 -> PackRun("Run")
            [] cstate \in {"Initial", "Run"} /\ pending.n = 1 -> PackLiteral
  /\ UNCHANGED <<source, input, csize, cread, decomp, then, out>>

-----------------------------------------------------------------------------
(* The decompressor. *)

\* At the point p: go on if the compressor has a byte, or fill it, or take
\* its answer of 0 for the end.
NeedByte(p, filled, end) ==
  /\ cread = Len(cbuf)
  /\ \/ pc = p /\ pc' = "comp" /\ then' = filled
     \/ pc = filled /\ pc' = end /\ UNCHANGED then
  /\ UNCHANGED <<source, comp, decomp, out>>

HasByte(p, filled) == pc \in {p, filled} /\ cread < Len(cbuf)

\* fill returns to the client's stream_get.
DecompFill == NeedByte("token", "token_filled", "filled")

\* Mutant: a run of n is n bytes after the first.
RunOf_Long(byte) == 2 * MaxRun + 2 - byte

\* The length of the run that byte begins.
RunOf(byte) == 2 * MaxRun + 1 - byte

\* The next token: a run or literal too long for the rest of the buffer is
\* put back and fill returns.
DecompToken ==
  /\ HasByte("token", "token_filled")
  /\ LET N == cbuf[cread + 1]
         length == IF N > MaxRun THEN RunOf(N) ELSE N + 1
     IN \/ /\ N = MaxRun
           /\ cread' = cread + 1 /\ pc' = "token"
           /\ UNCHANGED token
        \/ /\ N # MaxRun /\ Len(dbuf) + length > dsize
           /\ pc' = "filled"
           /\ UNCHANGED <<cread, token>>
        \/ /\ N # MaxRun /\ Len(dbuf) + length <= dsize
           /\ cread' = cread + 1
           /\ token' = length
           /\ pc' = IF N > MaxRun THEN "run" ELSE "literal"
  /\ UNCHANGED <<source, input, csize, cbuf, cstate, lastliteral, pending,
                 dsize, dbuf, dread, then, out>>

RunEnds == NeedByte("run", "run_filled", "filled")

DecompRun ==
  /\ HasByte("run", "run_filled")
  /\ dbuf' = dbuf \o [i \in 1 .. token |-> cbuf[cread + 1]]
  /\ cread' = cread + 1 /\ token' = NoToken
  /\ pc' = "token"
  /\ UNCHANGED <<source, input, csize, cbuf, cstate, lastliteral, pending,
                 dsize, dread, then, out>>

LiteralEnds == NeedByte("literal", "literal_filled", "filled")

\* As much of the literal as the compressor's buffer holds is copied.
DecompLiteral ==
  /\ HasByte("literal", "literal_filled")
  /\ LET avail == Lesser(Len(cbuf) - cread, token)
     IN /\ dbuf' = dbuf \o SubSeq(cbuf, cread + 1, cread + avail)
        /\ cread' = cread + avail
        /\ token' = IF avail = token THEN NoToken ELSE token - avail
        /\ pc' = IF avail = token THEN "token" ELSE "literal"
  /\ UNCHANGED <<source, input, csize, cbuf, cstate, lastliteral, pending,
                 dsize, dread, then, out>>

-----------------------------------------------------------------------------
(* The client, by stream_getc. *)

\* A byte from the buffer, or from the buffer after fill.
Get ==
  /\ pc \in {"client", "filled"} /\ dread < Len(dbuf)
  /\ out' = Append(out, dbuf[dread + 1])
  /\ dread' = dread + 1
  /\ pc' = "client"
  /\ UNCHANGED <<source, comp, dsize, dbuf, token, then>>

GetFills ==
  /\ pc = "client" /\ dread = Len(dbuf)
  /\ pc' = "token"
  /\ UNCHANGED <<source, comp, decomp, then, out>>

GetEnds ==
  /\ pc = "filled" /\ dread = Len(dbuf)
  /\ pc' = "end"
  /\ UNCHANGED <<source, comp, decomp, then, out>>

Next ==
  \/ CompBegin \/ CompRead \/ CompPack
  \/ DecompFill \/ DecompToken \/ RunEnds \/ DecompRun
  \/ LiteralEnds \/ DecompLiteral
  \/ Get \/ GetFills \/ GetEnds

\* The stages run when called; the client reads to the end.
Spec == Init /\ [][Next]_vars /\ WF_vars(Next)

-----------------------------------------------------------------------------
(* Properties. *)

\* What the client has is the beginning of the input, whatever the buffers
\* and wherever they cut runs and literals.
GivesInput == IsPrefix(out, source)

\* The end is answered when all has been given, if the buffers had room for
\* all that was written to them (two bytes must be spare in the first).
EndsWhenRead ==
  pc = "end" /\ Len(cbuf) + 2 <= csize /\ Len(source) <= dsize => out = source

\* The compressor ends only when it has packed all of its input, for a buffer
\* of any size ("The buffer size needs to be at least 2 bytes long",
\* stream-packbitscomp.c:262), the decompressor's having room for all of it.
CompressorLosesNone == pc = "end" /\ Len(source) <= dsize => out = source

\* The decompressor ends only when it has given all that was packed, for a
\* buffer as long as the longest run (stream-packbitsdecomp.c:33), the
\* compressor's having room for all that it writes.
DecompressorLosesNone == pc = "end" /\ Len(cbuf) + 2 <= csize => out = source

\* The client comes to the end of the stream.
Ends == <>(pc = "end")

=============================================================================
