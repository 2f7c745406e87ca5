----------------------------- MODULE MCReaderPipeline --------------------------
(* ReaderPipeline on a small instance, see MCReaderPipeline.cfg. *)
EXTENDS ReaderPipeline

SomeLines == {
  <<>>,
  <<"data">>,
  <<"data", ":", " ", LeadByte, NextByte>>,
  <<"id", ":", "x">>,
  <<"id", ":", "nul">>,
  <<"event", ":", "x">>,
  <<":", LeadByte>>,
  <<":">>,
  <<"x">>}

AllBytes == {"data", "id", "event", "x", "nul", ":", " ", "\n", CR, LF, LeadByte, NextByte}
AllTerminators == {<<CR>>, <<LF>>, <<CR, LF>>}
================================================================================
