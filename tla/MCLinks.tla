------------------------------- MODULE MCLinks -------------------------------
(* Messages of three and two bytes, so that a read of up to four can end   *)
(* inside a message, at its end, and behind a whole one.                   *)
EXTENDS Links

MCSize == <<3, 2, 3>>
=============================================================================
