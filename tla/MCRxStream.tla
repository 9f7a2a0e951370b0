----------------------------- MODULE MCRxStream -----------------------------
(* A small instance of RxStream.  Three samples of the largest variation     *)
(* overflow a sum, one overflows ten times it, and the small ones do neither. *)
EXTENDS RxStream

MCDeltas == {-3, 2, 47}   \* the sender's clock is ahead
TwoRtts == {-1, 3}        \* the echoed clock may seem to be, too
=============================================================================
