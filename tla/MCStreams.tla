------------------------------ MODULE MCStreams ------------------------------
(***************************************************************************)
(* Small instances of the bit FIFO, the byte streams and the reader of     *)
(* pickles, side by side: a behaviour is one of the machine that "machine" *)
(* names, and leaves the others' variables alone.                          *)
(***************************************************************************)
EXTENDS BitFifo

CONSTANTS Machines, TabSize, MaxRun, EarlyFill

VARIABLES
  machine,
  \* shared by PackBits, MoveToFront and Unpickle
  source, input, csize, cbuf, dsize, dbuf, pc, out,
  \* of PackBits, and two of them of Unpickle
  cread, cstate, lastliteral, pending, dread, token, then,
  \* of MoveToFront
  ctab, cheld, cbits, cend, dtab, dheld,
  \* of ByteStream
  kind, data, filepos, bufsz, bytes, buf, got, answer

codec == <<source, input, csize, cbuf, dsize, dbuf, pc, out>>
packbits == <<cread, cstate, lastliteral, pending, dread, token, then>>
movetofront == <<ctab, cheld, cbits, cend, dtab, dheld>>
bytestream == <<kind, data, filepos, bufsz, bytes, buf, got, answer>>
mcvars == <<machine, vars, codec, packbits, movetofront, bytestream>>

UpTo(n, S) == UNION {[1 .. k -> S] : k \in 0 .. n}

PB == INSTANCE PackBits WITH
  Inputs <- UpTo(7, {1, 2}), CompSizes <- {2, 3, 5, 16}, DecompSizes <- {4, 7, 12}

MTF == INSTANCE MoveToFront WITH
  Inputs <- UpTo(4, {0, 1, 5, 7}), FirstTable <- <<0, 1>>,
  CompSizes <- {1, 2, 9}, DecompSizes <- {1, 3}

BS == INSTANCE ByteStream WITH
  Datas <- {<<>>, <<1, 2, 3>>, <<1, 2, 3, 4, 5>>}, BufferSizes <- {1, 2, 3, 8},
  buffer <- bytes

\* A signature, a comment before it or not, and up to five characters.
Pickles ==
  {<<"#", "x", "nl", "1", "nl">> \o f : f \in UpTo(4, {"nl", "sp", "x", "#"})}
    \cup UpTo(5, {"nl", "1", "sp", "#"})

UP == INSTANCE Unpickle WITH
  Files <- Pickles, BufSizes <- {3, 4, 7}, Signature <- <<"1">>,
  file <- input, at <- source, feof <- dbuf, bufsz <- csize, buffer <- cbuf,
  used <- dsize, entries <- out, parse <- cstate, err <- token

NoCodec ==
  /\ source = 0 /\ input = 0 /\ csize = 0 /\ cbuf = 0
  /\ dsize = 0 /\ dbuf = 0 /\ pc = "none" /\ out = 0
NoPackbits ==
  /\ cread = 0 /\ cstate = 0 /\ lastliteral = 0 /\ pending = 0
  /\ dread = 0 /\ token = 0 /\ then = 0
NoMovetofront ==
  /\ ctab = 0 /\ cheld = 0 /\ cbits = 0 /\ cend = 0
  /\ dtab = 0 /\ dheld = 0
NoBytestream ==
  /\ kind = "mem" /\ data = <<>> /\ filepos = 0 /\ bufsz = 0
  /\ bytes = <<>> /\ buf = 0 /\ got = FALSE /\ answer = <<>>

MCInit ==
  /\ machine \in Machines
  /\ Init
  /\ IF machine = "packbits" THEN PB!Init /\ NoMovetofront
     ELSE IF machine = "movetofront" THEN MTF!Init /\ NoPackbits
     ELSE IF machine = "unpickle"
       THEN /\ UP!Init /\ NoMovetofront
            /\ cread = 0 /\ lastliteral = 0 /\ pending = 0 /\ dread = 0 /\ then = 0
     ELSE NoCodec /\ NoPackbits /\ NoMovetofront
  /\ IF machine = "bytestream" THEN BS!Init ELSE NoBytestream

MCNext ==
  \/ /\ machine = "bitfifo" /\ SoundNext
     /\ UNCHANGED <<machine, codec, packbits, movetofront, bytestream>>
  \/ /\ machine = "packbits" /\ PB!Next
     /\ UNCHANGED <<machine, vars, movetofront, bytestream>>
  \/ /\ machine = "unpickle" /\ UP!Next
     /\ UNCHANGED <<machine, vars, movetofront, bytestream>>
     /\ UNCHANGED <<cread, lastliteral, pending, dread, then>>
  \/ /\ machine = "movetofront" /\ MTF!Next
     /\ UNCHANGED <<machine, vars, packbits, bytestream>>
  \/ /\ machine = "bytestream" /\ BS!Next
     /\ UNCHANGED <<machine, vars, codec, packbits, movetofront>>

\* A stage runs when it is called, and the client, or pickle_unpickle, reads to
\* the end.
MCSpec ==
  /\ MCInit /\ [][MCNext]_mcvars
  /\ WF_mcvars(machine \in {"packbits", "movetofront", "unpickle"} /\ MCNext)

-----------------------------------------------------------------------------
(* The properties of each machine, in its own behaviours. *)

\* PackBits!GivesInput: what comes out is the beginning of what went in.
PackBitsGivesInput == machine = "packbits" => PB!GivesInput

\* PackBits!EndsWhenRead: and all of it at the end, if the buffers have room
\* for it.
PackBitsEndsWhenRead == machine = "packbits" => PB!EndsWhenRead

\* PackBits!CompressorLosesNone: and all of it at the end, whatever the
\* compressor's buffer.
CompressorLosesNone == machine = "packbits" => PB!CompressorLosesNone

\* PackBits!DecompressorLosesNone: and all of it at the end, whatever the
\* decompressor's buffer.
DecompressorLosesNone == machine = "packbits" => PB!DecompressorLosesNone

\* MoveToFront!TablesInStep and LosesLastAtMost: the tables of the two stages
\* agree however the buffers cut what is written, and what comes out is what
\* went in, less its last byte at most.
MtfKeepsInput == machine = "movetofront" => MTF!TablesInStep /\ MTF!LosesLastAtMost

\* PackBits!Ends, MoveToFront!Ends, Unpickle!ReaderEnds: the client of the
\* codecs comes to the end, and so does the reader of a pickle.
ReadersEnd ==
  /\ machine \in {"packbits", "movetofront"} => <>(pc = "end")
  /\ machine = "unpickle" => <>(pc = "done")

\* Unpickle!ReadsWhatIsThere: the lines of a pickle that end in a newline are
\* read whole and in order, wherever the buffer cuts them, or it is refused for
\* a line that is wrong.
PickleReadWhole == machine = "unpickle" => UP!ReadsWhatIsThere

\* Unpickle!NothingLeft: and no entry is left of a pickle that is not refused.
PickleNothingLeft == machine = "unpickle" => UP!NothingLeft

\* ByteStream!ReadsInOrder: memory and file streams give their bytes in order
\* through any mix of calls.
StreamsReadInOrder == BS!ReadsInOrder

=============================================================================
