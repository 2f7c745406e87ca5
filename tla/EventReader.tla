------------------------------- MODULE EventReader -----------------------------
(***************************************************************************)
(* Lines to events and comments: _SSEReader.events_and_comments,           *)
(* src/ld_eventsource/reader.py:54-116, and its copy over async iterators, *)
(* src/ld_eventsource/async_reader.py:40-101.                              *)
(*                                                                         *)
(* A retry field changes nothing, because the client gives the reader no   *)
(* set_retry (sse_client.py:217).                                          *)
(***************************************************************************)
EXTENDS Integers, SequencesExt

CONSTANT None

Event(type, data, id, lastId) ==
  [kind |-> "event", type |-> type, data |-> data, id |-> id, lastId |-> lastId]
Comment(text) == [kind |-> "comment", text |-> text]

(* The locals of the generator, and _last_event_id. *)
NewReader(lastId) ==
  [type |-> <<>>, data |-> None, id |-> None, lastId |-> lastId]

--------------------------------------------------------------------------------
(* line.find(':'), from 1, and 0 if there is none. *)
ColonPos(line) == SelectInSeq(line, LAMBDA b : b = ":")

FieldName(line) ==
  IF ColonPos(line) = 0 THEN line ELSE SubSeq(line, 1, ColonPos(line) - 1)

(* What follows the colon, less one space. *)
FieldValue(line) ==
  LET rest == SubSeq(line, ColonPos(line) + 1, Len(line))
  IN  IF ColonPos(line) = 0 THEN <<>>
      ELSE IF rest # <<>> /\ Head(rest) = " " THEN Tail(rest) ELSE rest

(* One field line, reader.py:100-116. *)
SetField(r, name, value) ==
  CASE name = <<"event">> -> [r EXCEPT !.type = value]
    [] name = <<"data">> ->
         [r EXCEPT !.data = IF @ = None THEN value ELSE @ \o <<"\n">> \o value]
    [] name = <<"id">> /\ "nul" \notin Range(value) -> [r EXCEPT !.id = value]
    [] OTHER -> r

WrongDispatch(r) ==                            \* the id of no event is kept
  NewReader(IF r.id # None THEN r.id ELSE r.lastId)

(* The reader after a blank line: the id counts only if there was an event. *)
Dispatch(r) ==
  NewReader(IF r.data # None /\ r.id # None THEN r.id ELSE r.lastId)

(* The reader after any line, and what the line makes it yield, if anything. *)
TakeLine(r, line) ==
  IF line = <<>> THEN Dispatch(r)
  ELSE IF Head(line) = ":" THEN r
  ELSE SetField(r, FieldName(line), FieldValue(line))

Yielded(r, line) ==
  IF line = <<>> /\ r.data # None
  THEN <<Event(IF r.type = <<>> THEN <<"message">> ELSE r.type, r.data, r.id,
               Dispatch(r).lastId)>>
  ELSE IF line # <<>> /\ Head(line) = ":" THEN <<Comment(Tail(line))>>
  ELSE <<>>
================================================================================
