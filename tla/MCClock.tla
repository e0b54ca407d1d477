------------------------------- MODULE MCClock --------------------------------
(***************************************************************************)
(* RTPClock with ints of 6 bits: streams that begin anywhere, also just    *)
(* before the int wraps, steps within and beyond the gap (6 ticks).        *)
(***************************************************************************)
EXTENDS RTPClock

MCStarts == {-32, -3, 1, 27}
MCSteps == {-4, -1, 0, 1, 3, 6, 7, 30}
===============================================================================
