--------------------------- MODULE MCHttpTransfers ---------------------------
(***************************************************************************)
(* Instances of HttpTransfers.  Units are scaled down: K is five bytes.    *)
(***************************************************************************)
EXTENDS HttpTransfers

CONSTANTS t1, t2
TwoTransfers == {t1, t2}
Units == [none |-> 1, K |-> 5]

Get(kind, n, unit) == [kind |-> kind, n |-> n, unit |-> unit, head |-> FALSE]
HeadOf(r) == [r EXCEPT !.head = TRUE]

\* A size that is no multiple of the block, to which 103K overflows; one that
\* overflows to a negative one; one request of each kind over the limits.
MixedRequests ==
    {Get("sized", 103, "K"), Get("sized", 2, "K"), Get("sized", 26, "K"),
     Get("timed", 1, "none"), Get("timed", 5, "none"), Get("upload", 0, "none"),
     HeadOf(Get("sized", 3, "none"))}
ShortRequests == {Get("sized", 1, "none")}
==============================================================================
