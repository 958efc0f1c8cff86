-------------------------- MODULE MCTranscriptScan --------------------------
(* Two files: the header of one has no id, that of the other names another  *)
(* session than its path does.                                              *)
EXTENDS TranscriptScan

MCSessionIn == <<"a", "b">>
MCHeaderOf == <<"", "c">>

Line(kind, id) == [kind |-> kind, id |-> id]
MCTexts ==
  << <<Line("header", 0), Line("call", 1), Line("result", 1)>>,
     <<Line("header", 0), Line("wake", 0)>> >>
=============================================================================
