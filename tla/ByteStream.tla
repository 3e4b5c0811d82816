----------------------------- MODULE ByteStream -----------------------------
(***************************************************************************)
(* io/stream: the streams over a block of memory and over a file.  A       *)
(* stream has a buffer that its client reads directly, by stream_getc, and *)
(* a get and a fill to be called when nothing is left in it.               *)
(*                                                                         *)
(* The buffer of a memory stream is the block itself, and its get and fill *)
(* never add to it.  A file's position is that of its FILE, which a read   *)
(* error does not stop.                                                    *)
(***************************************************************************)
EXTENDS Integers, Sequences, SequencesExt

CONSTANTS
  Datas,         \* the contents of blocks and files
  BufferSizes,   \* the values of bufsz
  EarlyFill      \* whether clients call fill with bytes left in the buffer

VARIABLES
  kind,          \* "mem" or "stdio"
  data,          \* the block or file
  filepos,       \* the position of the FILE
  bufsz,
  buffer,        \* the bytes in the buffer
  buf,           \* how many of them are before base.buf
  got,           \* the last call got a byte, which can be put back
  answer         \* the answer to the last call

vars == <<kind, data, filepos, bufsz, buffer, buf, got, answer>>

EOF == <<>>

Lesser(a, b) == IF a < b THEN a ELSE b

Init ==
  /\ data \in Datas /\ bufsz \in BufferSizes
  /\ buf = 0 /\ got = FALSE /\ answer = EOF
  /\ \/ kind = "mem" /\ buffer = data /\ filepos = Len(data)
     \/ kind = "stdio" /\ buffer = <<>> /\ filepos = 0

stream_remaining == Len(buffer) - buf

\* fread of at most n bytes at the position of the FILE.
Read(n) == SubSeq(data, filepos + 1, Lesser(filepos + n, Len(data)))

\* stream_getc with a byte in the buffer.
GetBuffered ==
  /\ stream_remaining > 0
  /\ answer' = <<buffer[buf + 1]>> /\ buf' = buf + 1 /\ got' = TRUE
  /\ UNCHANGED <<kind, data, filepos, bufsz, buffer>>

stream_mem_get ==
  /\ kind = "mem" /\ stream_remaining = 0
  /\ answer' = EOF /\ got' = FALSE
  /\ UNCHANGED <<kind, data, filepos, bufsz, buffer, buf>>

stream_stdio_get ==
  /\ kind = "stdio" /\ stream_remaining = 0
  /\ LET read == Read(bufsz)
     IN IF read = <<>>
        THEN answer' = EOF /\ got' = FALSE /\ UNCHANGED <<filepos, buffer, buf>>
        ELSE /\ buffer' = read /\ buf' = 1
             /\ filepos' = filepos + Len(read)
             /\ answer' = <<read[1]>> /\ got' = TRUE
  /\ UNCHANGED <<kind, data, bufsz>>

stream_ungetc ==
  /\ got
  /\ buf' = buf - 1 /\ got' = FALSE
  /\ UNCHANGED <<kind, data, filepos, bufsz, buffer, answer>>

\* stream_remaining_and_fill, or stream_fill where clients call it early.
MayFill == EarlyFill \/ stream_remaining = 0

\* A memory stream's fill, or a file's when its buffer is full, adds nothing.
FillNothing ==
  /\ kind = "mem" \/ stream_remaining >= bufsz
  /\ answer' = IF stream_remaining = 0 THEN EOF ELSE <<stream_remaining>>
  /\ UNCHANGED <<kind, data, filepos, bufsz, buffer, buf>>

\* The bytes left are moved to the front of the buffer: what was behind them
\* stays as it was.
Shifted ==
  LET left == SubSeq(buffer, buf + 1, Len(buffer))
  IN left \o SubSeq(buffer, Len(left) + 1, Len(buffer))

FillFile ==
  /\ kind = "stdio" /\ stream_remaining < bufsz
  /\ LET read == Read(bufsz - stream_remaining)
     IN IF read = <<>>
        THEN /\ buffer' = IF stream_remaining > 0 THEN Shifted ELSE buffer
             /\ answer' = EOF
             /\ UNCHANGED <<filepos, buf>>
        ELSE /\ buffer' = SubSeq(Shifted, 1, stream_remaining) \o read
             /\ buf' = 0
             /\ filepos' = filepos + Len(read)
             /\ answer' = <<stream_remaining + Len(read)>>
  /\ UNCHANGED <<kind, data, bufsz>>

stream_fill ==
  /\ MayFill
  /\ FillNothing \/ FillFile
  /\ got' = FALSE

\* Mutant: the buffer is kept after a seek.
Seeked_Kept(pos) == filepos' = pos /\ UNCHANGED <<buffer, buf>>

\* A file's buffer is dropped; seeking to its end is allowed, as it is in
\* memory.
Seeked(pos) ==
  IF kind = "mem" THEN buf' = pos /\ UNCHANGED <<filepos, buffer>>
                  ELSE filepos' = pos /\ buf' = Len(buffer) /\ UNCHANGED buffer

stream_seek ==
  /\ \E pos \in 0 .. Len(data) : Seeked(pos)
  /\ got' = FALSE
  /\ UNCHANGED <<kind, data, bufsz, answer>>

\* A memory stream refuses to seek past its end.
SeekFails ==
  /\ kind = "mem"
  /\ got' = FALSE
  /\ UNCHANGED <<kind, data, filepos, bufsz, buffer, buf, answer>>

Next ==
  \/ GetBuffered \/ stream_mem_get \/ stream_stdio_get \/ stream_ungetc
  \/ stream_fill \/ stream_seek \/ SeekFails

Spec == Init /\ [][Next]_vars

-----------------------------------------------------------------------------
(* Properties. *)

\* The client's position: what is left in the buffer is still to be read.
Source == INSTANCE ByteSource WITH pos <- filepos - stream_remaining

\* Whatever calls are mixed, with a buffer of any size, the client gets the
\* bytes from its position on, and the end only behind the last.
ReadsInOrder == Source!Spec

=============================================================================
