----------------------------- MODULE MCVcdWriter -----------------------------
(***************************************************************************)
(* VcdWriter with a bit-vector, an array of two bits and an output, and a  *)
(* clock of each kind.                                                     *)
(***************************************************************************)
EXTENDS VcdWriter

MCClocks == [c \in {6, 7, 8} |-> CASE c = 6 -> "posedge"
                                   [] c = 7 -> "negedge"
                                   [] c = 8 -> "event"]

\* Arrays of zeros that store any elements.
MCArrayValues ==
    {[NewArray EXCEPT !.data = d] : d \in UNION {[I -> 0 .. 1] : I \in SUBSET (0 .. 1)}}

=============================================================================
