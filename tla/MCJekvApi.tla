------------------------------ MODULE MCJekvApi ------------------------------
(* Two threads, two partitions, two handles and an iterator for TLC. *)
EXTENDS JekvApi

CONSTANTS t1, t2, p1, p2, a1, a2, i1
=============================================================================
