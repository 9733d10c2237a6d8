------------------------------ MODULE MCProCon ------------------------------
(* ProCon for TLC: two producers and two consumers over a two-slot buffer *)
(* and two chars, so the buffer fills, wraps, and has threads of both      *)
(* kinds asleep and woken at once.                                         *)
EXTENDS ProCon

MCChars == {"x", "y"}
=============================================================================
