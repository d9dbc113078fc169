------------------------------ MODULE MCBoard ------------------------------
(* A board with two processors, its port B, a port and the timer of its    *)
(* CIO, and one software interrupt.                                        *)
EXTENDS Board

MCSoftLine == {"SWI"}
MCSource   == {"c_porta_com", "c_ctim1_com"}
MCPort     == {1}
MCIenMenu  == {{}, Line}
MCImrMenu  == {{}, Event}

(* The bound: while the CIO is out of its reset the DUART only transmits.  *)
MCBound ==
  cio_state # "cio_reset" =>
    receiving = {} /\ unseen = {} /\ "NMI" \notin ist
=============================================================================
