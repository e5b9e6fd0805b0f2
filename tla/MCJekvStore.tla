---------------------------- MODULE MCJekvStore ----------------------------
(* Small partitions for TLC: values of two types, of one and of two slices. *)
EXTENDS JekvStoreRefines, TLC

CONSTANTS k1, k2, short, long, other, huge

MCTypeOf == [v \in Values |-> IF v = other THEN "i32" ELSE "str"]
MCSpanOf == [v \in Values |-> CASE v = long -> 2 [] v = huge -> Slices + 1 [] OTHER -> 1]
MCSymmetry == Permutations(Keys)
=============================================================================
