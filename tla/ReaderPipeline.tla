----------------------------- MODULE ReaderPipeline ----------------------------
(***************************************************************************)
(* One session after the other of the two readers, as the client drives    *)
(* them in src/ld_eventsource/sse_client.py:216-226: bytes arrive in       *)
(* chunks that end anywhere, and the generators run only when the          *)
(* application asks for an item.                                           *)
(*                                                                         *)
(* Next to the code runs a reference that takes the same bytes one by one  *)
(* and an event as a block of lines, the way the format is defined.        *)
(***************************************************************************)
EXTENDS LineReader, EventReader

CONSTANTS
  Lines,        \* what the server sends as a line
  Terminators,  \* and how it ends one
  MaxChunk,     \* bound: the longest chunk
  MaxAhead,     \* bound: it sends only while fewer bytes are unread
  MaxBlock      \* bound: and while the block being read has fewer lines

ASSUME TextIsOfBytes ==
  /\ {"\n", ":", " ", "data", "event", "id"} \subseteq Byte
  /\ Lines \cup Terminators \subseteq Seq(Byte)
  /\ None \notin Seq(Byte)
ASSUME BoundsAreNatural == {MaxChunk, MaxAhead, MaxBlock} \subseteq Nat

VARIABLES
  wire,      \* bytes sent and not yet read, with the server and the network
  st,        \* where the generators are, see TypeOK
  splitter,  \* locals of lines_from
  lines,     \* the rest of its list "lines"
  reader,    \* locals of events_and_comments, and _last_event_id
  got,       \* history: items yielded since the last chunk was read
  seenId,    \* history: the id of the last one ever that had one
  ref,       \* the reference, after the last chunk
  due        \* the items it makes of that chunk

codeVars == <<splitter, lines, reader>>
vars == <<wire, st, codeVars, got, seenId, ref, due>>

--------------------------------------------------------------------------------
(* The reference. *)

DecodeError == [kind |-> "error"]

(* A field line is a name, then possibly a colon, a space and a value. *)
IsField(line, name, value) ==
  \/ line = <<name>> /\ value = <<>>
  \/ line = <<name, ":", " ">> \o value
  \/ line = <<name, ":">> \o value /\ (value = <<>> \/ Head(value) # " ")

(* The values of a block's data, event and id fields, after one more line. *)
WithValue(values, line, name) ==
  LET valueOf == {v \in Suffixes(line) : IsField(line, name, v)}
  IN  IF valueOf = {} THEN values ELSE Append(values, CHOOSE v \in valueOf : TRUE)

IsNul(id) == "nul" \in Range(id)

(* Several data lines make one text of as many lines. *)
Joined(values) ==
  LET text[i \in 1..Len(values)] ==
        IF i = 1 THEN values[1] ELSE text[i - 1] \o <<"\n">> \o values[i]
  IN  text[Len(values)]

(* A block that ends is an event if it has data. *)
IdAfterBlock(r) == IF r.data = <<>> \/ r.ids = <<>> THEN r.lastId ELSE Last(r.ids)

BlockEvents(r) ==
  IF r.data = <<>> THEN <<>>
  ELSE <<Event(IF r.types = <<>> \/ Last(r.types) = <<>> THEN <<"message">>
                                                         ELSE Last(r.types),
               Joined(r.data),
               IF r.ids = <<>> THEN None ELSE Last(r.ids),
               IdAfterBlock(r))>>

NewReference(lastId) ==
  [line |-> <<>>, afterCR |-> FALSE, data |-> <<>>, types |-> <<>>, ids |-> <<>>,
   lastId |-> lastId, items |-> <<>>, ok |-> TRUE]

(* What a line of a block does to it. *)
TakeField(r, line) ==
  LET ids == WithValue(<<>>, line, "id")
  IN  [r EXCEPT !.data = WithValue(@, line, "data"),
                !.types = WithValue(@, line, "event"),
                !.ids = IF ids = <<>> \/ IsNul(ids[1]) THEN @ ELSE @ \o ids]

(* What a complete line does: the first that cannot be decoded is the last.*)
EndLine(r, line) ==
  IF ~r.ok THEN r
  ELSE IF ~Decodable(line)
  THEN [r EXCEPT !.ok = FALSE, !.items = Append(@, DecodeError)]
  ELSE IF line = <<>>
  THEN [r EXCEPT !.items = @ \o BlockEvents(r), !.lastId = IdAfterBlock(r),
                 !.data = <<>>, !.types = <<>>, !.ids = <<>>]
  ELSE IF Head(line) = ":" THEN [r EXCEPT !.items = Append(@, Comment(Tail(line)))]
  ELSE TakeField(r, line)

TakeByte(r, byte) ==
  IF byte = LF /\ r.afterCR THEN [r EXCEPT !.afterCR = FALSE]
  ELSE IF byte \in {CR, LF}
  THEN [EndLine(r, r.line) EXCEPT !.line = <<>>, !.afterCR = byte = CR]
  ELSE [r EXCEPT !.line = Append(@, byte), !.afterCR = FALSE]

TakeBytes(r, bytes) ==
  LET after[i \in 0..Len(bytes)] ==
        IF i = 0 THEN r ELSE TakeByte(after[i - 1], bytes[i])
  IN  after[Len(bytes)]

--------------------------------------------------------------------------------
TypeOK ==
  /\ wire \in Seq(Byte)
  \* waiting for a chunk; given one; at a yield; out with an exception
  /\ st \in {"blocked", "running", "suspended", "failed"}
  /\ splitter.partial \in Seq(Byte) /\ splitter.lastWasCR \in BOOLEAN
  /\ {CR, LF} \cap Range(splitter.partial) = {}
  /\ lines \in Seq(Seq(Byte)) /\ Len(lines) <= MaxChunk
  /\ st \in {"blocked", "failed"} => lines = <<>>
  /\ reader.type \in Seq(Byte)
  /\ \A v \in {reader.data, reader.id, reader.lastId} :
       v = None \/ v \in Seq(Byte)
  /\ Len(got) <= MaxChunk /\ Len(due) <= MaxChunk

Init ==
  /\ wire = <<>>
  /\ st = "blocked"
  /\ splitter = NoLine /\ lines = <<>> /\ reader = NewReader(None)
  /\ got = <<>> /\ seenId = None
  /\ ref = NewReference(None) /\ due = <<>>

(* The server sends a line. *)
SendLine ==
  /\ Len(wire) < MaxAhead /\ Len(ref.data \o ref.types \o ref.ids) < MaxBlock
  /\ \E line \in Lines, end \in Terminators : wire' = wire \o line \o end
  /\ UNCHANGED <<st, codeVars, got, seenId, ref, due>>

(* lines_from is given the next chunk, which may be empty (reader.py:21). *)
ReceiveChunk ==
  /\ st = "blocked"
  /\ \E n \in 0..MaxChunk :
       /\ n <= Len(wire)
       /\ LET chunk == SubSeq(wire, 1, n)
              read == ReadChunk(splitter, chunk)
              taken == TakeBytes(ref, chunk)
          IN  /\ splitter' = [partial |-> read.partial, lastWasCR |-> read.lastWasCR]
              /\ lines' = read.lines
              /\ due' = taken.items
              /\ ref' = [taken EXCEPT !.items = <<>>]
       /\ wire' = SubSeq(wire, n + 1, Len(wire))
  /\ st' = "running"
  /\ got' = <<>>
  /\ UNCHANGED <<reader, seenId>>

(* The id the application has seen last, after at most one item more. *)
LastIdAfter(id, items) ==
  IF items # <<>> /\ items[1].kind = "event" /\ items[1].id # None
  THEN items[1].id ELSE id

(* The application asks for an item, and the reader takes the next line,   *)
(* which may make one.                                                     *)
ReadLine ==
  /\ st \in {"running", "suspended"}
  /\ lines # <<>> /\ Decodable(Head(lines))
  /\ LET items == Yielded(reader, Head(lines)) IN
       /\ st' = IF items = <<>> THEN "running" ELSE "suspended"
       /\ got' = got \o items
       /\ seenId' = LastIdAfter(seenId, items)
  /\ reader' = TakeLine(reader, Head(lines))
  /\ lines' = Tail(lines)
  /\ UNCHANGED <<wire, splitter, ref, due>>

(* A line that cannot be decoded ends the generators. *)
RaiseDecodeError ==
  /\ st \in {"running", "suspended"}
  /\ lines # <<>> /\ ~Decodable(Head(lines))
  /\ got' = Append(got, DecodeError)
  /\ lines' = <<>>
  /\ st' = "failed"
  /\ UNCHANGED <<wire, splitter, reader, ref, due, seenId>>

(* No line is left, and the next chunk is asked for. *)
AskForChunk ==
  /\ st \in {"running", "suspended"}
  /\ lines = <<>>
  /\ st' = "blocked"
  /\ UNCHANGED <<wire, codeVars, got, ref, due, seenId>>

(* The session is over, because the stream ended or broke, because of the  *)
(* error, or because the client was interrupted at an item.  The next one  *)
(* starts with new generators and the last id of this one                  *)
(* (sse_client.py:216-217 and 235).                                        *)
NewSession ==
  /\ st \in {"blocked", "suspended", "failed"}
  /\ wire' = <<>>
  /\ st' = "blocked"
  /\ splitter' = NoLine /\ lines' = <<>> /\ reader' = NewReader(reader.lastId)
  /\ got' = <<>> /\ due' = <<>> /\ ref' = NewReference(seenId)
  /\ UNCHANGED seenId

Next ==
  \/ SendLine
  \/ ReceiveChunk
  \/ ReadLine
  \/ RaiseDecodeError
  \/ AskForChunk
  \/ NewSession

Spec == Init /\ [][Next]_vars

--------------------------------------------------------------------------------
(* However the bytes are cut into chunks, wherever a terminator, a         *)
(* character or a field is cut, and whatever an earlier session left       *)
(* unfinished: the items of reader.py are those of the reference, in its   *)
(* order, none of them later than the chunk that holds the end of its last *)
(* line, and a line that cannot be decoded fails in its turn.              *)
SameItems ==
  /\ IsPrefix(got, due)
  /\ st \in {"blocked", "failed"} => got = due

(* The id that is sent with the next connection (sse_client.py:221, 235)   *)
(* is that of the last event with an id that the application was given:    *)
(* neither the id of an event that is still in the buffer, nor one of a    *)
(* block that has not ended or had no data.                                *)
LastIdIsOfYielded == reader.lastId = seenId
================================================================================
