------------------------------ MODULE MCServer ------------------------------
(* A small instance of Server for TLC. *)
EXTENDS Server, TLC

CONSTANTS i1, i2, t1, t2, t3

\* Three requests for one running and two pending places, or two imports that
\* share a token, for a worker that is busy and one place in its queue.
SomeCrowds == {{1, 2, 3}, {i1, i2}}
SomeTokens == (i1 :> {t1, t2}) @@ (i2 :> {t1, t3})
=============================================================================
