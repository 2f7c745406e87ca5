------------------------------- MODULE LineReader ------------------------------
(***************************************************************************)
(* Chunks of bytes to lines: _BufferedLineReader.lines_from,               *)
(* src/ld_eventsource/reader.py:6-51, and its copy over async iterators,   *)
(* src/ld_eventsource/async_reader.py:6-37.                                *)
(*                                                                         *)
(* Text is a sequence of tokens.  A token is a byte, or a word like "data" *)
(* that the tests of the event reader compare as a whole; both readers     *)
(* look inside a line only when it is complete, so that where a word is    *)
(* split makes no difference to them.                                      *)
(***************************************************************************)
EXTENDS Integers, SequencesExt

CONSTANT Byte    \* the tokens

CR == "cr"
LF == "lf"
LeadByte == "lead"    \* the two bytes of an encoded character
NextByte == "next"

Strip(byte) == IF byte \in {CR, LF} THEN <<>> ELSE <<byte>>

(* The lines of the first i bytes of a chunk, of those of the first i - 1. *)
WrongLinesUpTo(chunk, i, lines) ==             \* CR ends no line
  LET text == IF chunk[i] = LF THEN <<>> ELSE <<chunk[i]>>
  IN  IF i = 1 \/ chunk[i - 1] = LF THEN Append(lines, text)
      ELSE [lines EXCEPT ![Len(lines)] = @ \o text]

LinesUpTo(chunk, i, lines) ==
  IF i > 1 /\ chunk[i - 1] = CR /\ chunk[i] = LF THEN lines
  ELSE IF i = 1 \/ chunk[i - 1] \in {CR, LF} THEN Append(lines, Strip(chunk[i]))
  ELSE [lines EXCEPT ![Len(lines)] = @ \o Strip(chunk[i])]

(* bytes.splitlines(): a line ends at LF, CR, or CR LF; there is no empty  *)
(* line after the last terminator.                                         *)
SplitLines(chunk) ==
  LET split[i \in 0..Len(chunk)] ==
        IF i = 0 THEN <<>> ELSE LinesUpTo(chunk, i, split[i - 1])
  IN  split[Len(chunk)]

(* bytes.decode() raises unless every character is whole. *)
Decodable(line) ==
  /\ \A i \in DOMAIN line :
       line[i] = LeadByte => i < Len(line) /\ line[i + 1] = NextByte
  /\ \A i \in DOMAIN line :
       line[i] = NextByte => i > 1 /\ line[i - 1] = LeadByte

--------------------------------------------------------------------------------
(* The locals of the generator: the unfinished line, <<>> for None (an     *)
(* unfinished line is never empty), and whether the last byte was CR.      *)
NoLine == [partial |-> <<>>, lastWasCR |-> FALSE]

WrongAfterCR(r, chunk) == SplitLines(chunk)   \* CR LF over two chunks is two ends

(* The lines of a chunk, without the one its LF makes if it only completes *)
(* the terminator CR LF.                                                   *)
LinesAfterCR(r, chunk) ==
  IF r.lastWasCR /\ Head(chunk) = LF THEN Tail(SplitLines(chunk))
                                     ELSE SplitLines(chunk)

(* What one pass of the loop leaves in them, and the lines it yields. *)
ReadChunk(r, chunk) ==
  LET split == LinesAfterCR(r, chunk)
      joined == IF split = <<>> THEN <<>>
                ELSE <<r.partial \o Head(split)>> \o Tail(split)
  IN  IF chunk = <<>>
      THEN [partial |-> r.partial, lastWasCR |-> r.lastWasCR, lines |-> <<>>]
      ELSE IF split = <<>>
      THEN [partial |-> r.partial, lastWasCR |-> FALSE, lines |-> <<>>]
      ELSE IF Last(chunk) \in {CR, LF}
      THEN [partial |-> <<>>, lastWasCR |-> Last(chunk) = CR, lines |-> joined]
      ELSE [partial |-> Last(joined), lastWasCR |-> FALSE, lines |-> Front(joined)]
================================================================================
