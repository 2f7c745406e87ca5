---------------------------- MODULE ResumableStream ----------------------------
(***************************************************************************)
(* What an SSE client promises the application that reads it: a feed of    *)
(* items 1, 2, 3, ... read in order from a point that everything before    *)
(* has already been seen, and never from before the last id seen.          *)
(*                                                                         *)
(* It is the abstract specification of sse_client.py's generator           *)
(* (src/ld_eventsource/sse_client.py:206-251) without connections, threads *)
(* or buffers: only the reading head and what the application knows.       *)
(***************************************************************************)
EXTENDS Integers

CONSTANTS MaxEvents, WithId

VARIABLES
  seen,   \* the items the application was given
  mark,   \* the last of them that carried an id
  head    \* the last item read on the current stream, -1 when there is none

vars == <<seen, mark, head>>

Init == seen = {} /\ mark = 0 /\ head = -1

(* Start reading at p, everything up to which has been seen. *)
Open ==
  /\ head = -1
  /\ \E p \in mark..MaxEvents : 1..p \subseteq seen /\ head' = p
  /\ UNCHANGED <<seen, mark>>

Read ==
  /\ head # -1
  /\ head' = head + 1
  /\ head' <= MaxEvents
  /\ seen' = seen \cup {head'}
  /\ mark' = IF head' \in WithId THEN head' ELSE mark

Close ==
  /\ head # -1
  /\ head' = -1
  /\ UNCHANGED <<seen, mark>>

Next == Open \/ Read \/ Close

Spec == Init /\ [][Next]_vars
================================================================================
