---------------------------- MODULE MCPlayRequests ----------------------------
(* PlayRequests with two workers, one row of a link and two entries of a    *)
(* stored playlist.                                                         *)
EXTENDS PlayRequests

CONSTANTS a, e, f, w1, w2
=============================================================================
