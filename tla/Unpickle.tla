------------------------------ MODULE Unpickle ------------------------------
(***************************************************************************)
(* databases/pickle/unpickle.c: a file of lines is read through a buffer,  *)
(* comments are skipped, the first line is a signature and every other is  *)
(* a key and a value.  A character is one of NL, "#", SP (the split        *)
(* string) and others; a step is a call of fread or a line.                *)
(***************************************************************************)
EXTENDS Integers, Sequences, SequencesExt, FiniteSetsExt

CONSTANTS
  Files,       \* the contents of files
  BufSizes,    \* READBUFSZ
  Signature    \* PICKLE_SIGNATURE

VARIABLES
  file,
  at,        \* how much of it has been read
  feof,      \* a read came to its end
  bufsz, buffer, used,
  parse,     \* the line parser: "first_line" or "line"
  entries,   \* what the writer was given
  pc,        \* "read", "lines" or "done"
  err

vars == <<file, at, feof, bufsz, buffer, used, parse, entries, pc, err>>

NL == "nl"
SP == "sp"

Init ==
  /\ file \in Files /\ at = 0 /\ feof = FALSE
  /\ bufsz \in BufSizes /\ buffer = <<>> /\ used = 0
  /\ parse = "first_line" /\ entries = <<>>
  /\ pc = "read" /\ err = "OK"

\* The place of the first c in s, or 0.
First(s, c) == IF c \in ToSet(s) THEN Min({i \in DOMAIN s : s[i] = c}) ELSE 0

-----------------------------------------------------------------------------
(* The line parsers: what a line gives, and the error if any. *)

unpickle__parse_first_line(line) ==
  [err |-> IF line = Signature THEN "OK" ELSE "INCOMPATIBLE", entry |-> <<>>]

unpickle__parse_line(line) ==
  LET split == First(line, SP)
  IN IF split \in {0, Len(line)} THEN [err |-> "SYNTAX_ERROR", entry |-> <<>>]
     ELSE [err |-> "OK",
           entry |-> <<[key |-> SubSeq(line, 1, split - 1), value |-> SubSeq(line, split + 1, Len(line))]>>]

Parsed(parser, line) ==
  IF parser = "first_line" THEN unpickle__parse_first_line(line) ELSE unpickle__parse_line(line)

-----------------------------------------------------------------------------
(* pickle_unpickle. *)

ReadFile ==
  /\ pc = "read"
  /\ LET room == bufsz - Len(buffer)
         read == SubSeq(file, at + 1, Min({at + room, Len(file)}))
     IN /\ feof' = (feof \/ at + room > Len(file))
        /\ at' = at + Len(read)
        /\ buffer' = buffer \o read
        /\ pc' = IF read = <<>> /\ feof' THEN "done" ELSE "lines"
  /\ UNCHANGED <<file, bufsz, used, parse, entries, err>>

\* The length of the next line, or 0.
NextNewline == First(SubSeq(buffer, used + 1, Len(buffer)), NL)

\* Mutant: what is left is taken for a whole line when the buffer starts with it.
LineTooLong_Always == NextNewline = 0

\* There is no newline in the buffer though it begins with the line.
LineTooLong == NextNewline = 0 /\ used = 0

TooLong ==
  /\ pc = "lines" /\ LineTooLong
  /\ err' = "SYNTAX_ERROR" /\ pc' = "done"
  /\ UNCHANGED <<file, at, feof, bufsz, buffer, used, parse, entries>>

\* The bytes not used are moved to the front of the buffer.
MakeSpace ==
  /\ pc = "lines" /\ NextNewline = 0 /\ ~ LineTooLong
  /\ buffer' = SubSeq(buffer, used + 1, Len(buffer)) /\ used' = 0
  /\ pc' = "read"
  /\ UNCHANGED <<file, at, feof, bufsz, parse, entries, err>>

ParseLine ==
  /\ pc = "lines" /\ NextNewline # 0
  /\ LET line == SubSeq(buffer, used + 1, used + NextNewline - 1)
         comment == buffer[used + 1] = "#"
         parsed == IF comment THEN [err |-> "OK", entry |-> <<>>] ELSE Parsed(parse, line)
     IN /\ err' = parsed.err
        /\ entries' = entries \o parsed.entry
        /\ parse' = IF comment \/ parsed.err # "OK" THEN parse ELSE "line"
        /\ IF parsed.err # "OK" THEN pc' = "done" /\ UNCHANGED used
           ELSE /\ used' = used + NextNewline
                /\ pc' = IF used' = Len(buffer) THEN "read" ELSE "lines"
  /\ UNCHANGED <<file, at, feof, bufsz, buffer>>

Next == ReadFile \/ TooLong \/ MakeSpace \/ ParseLine

Spec == Init /\ [][Next]_vars /\ WF_vars(Next)

-----------------------------------------------------------------------------
(* Properties. *)

\* The lines of s that end in a newline, without it.
Lines[s \in Seq({NL, SP, "#", "1", "x"})] ==
  IF First(s, NL) = 0 THEN <<>>
  ELSE <<SubSeq(s, 1, First(s, NL) - 1)>> \o Lines[SubSeq(s, First(s, NL) + 1, Len(s))]

IsComment(line) == line # <<>> /\ line[1] = "#"

\* What the file says: the lines that count, the first being the signature.
Meant == SelectSeq(Lines[file], LAMBDA line : ~ IsComment(line))

EntriesOf(lines) ==
  FlattenSeq([i \in DOMAIN lines |-> IF i = 1 THEN <<>> ELSE unpickle__parse_line(lines[i]).entry])

WellFormed(lines) ==
  \A i \in DOMAIN lines :
    Parsed(IF i = 1 THEN "first_line" ELSE "line", lines[i]).err = "OK"

\* The lines that end in a newline are all read, in order, wherever the buffer
\* cuts them, and a file is refused only for a line that is wrong, one with no
\* newline at its end that the buffer begins with, or one longer than the
\* buffer (unpickle.c:182).  Of a last line with no newline that is not refused
\* this says nothing.
ReadsWhatIsThere ==
  pc = "done" =>
    \/ err = "OK" /\ WellFormed(Meant) /\ entries = EntriesOf(Meant)
    \/ err = "INCOMPATIBLE" /\ Meant # <<>> /\ Meant[1] # Signature
    \/ /\ err = "SYNTAX_ERROR"
       /\ \/ ~ WellFormed(Meant)
          \/ file[Len(file)] # NL
          \/ \E line \in ToSet(Lines[file]) : Len(line) >= bufsz

\* Where the reader stops at "nothing left" (unpickle.c:169) and answers OK no
\* key and value is left in the buffer.
NothingLeft ==
  LET left == SubSeq(buffer, used + 1, Len(buffer))
  IN pc = "done" /\ err = "OK" /\ parse = "line" /\ ~ IsComment(left)
       => unpickle__parse_line(left).err # "OK"

\* The reader stops, also when a read adds nothing.
ReaderEnds == <>(pc = "done")

=============================================================================
