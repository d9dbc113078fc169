------------------------------- MODULE MCLink -------------------------------
(* Bounds of the line, and the end of what is promised.                    *)
EXTENDS Link

ShortLine == Len(tx) =< 2 /\ Len(rx) =< 5

\* Stop exploring where the host has lost its stack.
OnTrack == phase # "astray"
=============================================================================
