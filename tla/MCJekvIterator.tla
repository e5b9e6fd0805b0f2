--------------------------- MODULE MCJekvIterator ---------------------------
(* Small partitions for TLC, with iterators over one key and over all. *)
EXTENDS JekvIterator

CONSTANTS k1, k2, short, long, other

MCTypeOf == [v \in Values |-> IF v = other THEN "i32" ELSE "str"]
MCSpanOf == [v \in Values |-> IF v = long THEN 2 ELSE 1]
=============================================================================
