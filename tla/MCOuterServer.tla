--------------------------- MODULE MCOuterServer ---------------------------
(* Model-checking instance of OuterServer: one upload declares more bytes  *)
(* than the others.                                                        *)
EXTENDS OuterServer

CONSTANT large

MCSize == [r \in Requests |-> IF r = large THEN 2 ELSE 1]
=============================================================================
