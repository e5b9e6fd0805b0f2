---------------------------- MODULE MCJekvGroups ----------------------------
(* A few groups and few ids for TLC. *)
EXTENDS JekvGroups

CONSTANTS g1, g2, g3, n1, d1, d2

MCKeys   == GroupKey \union DataKey
MCValues == Ids \union Data
MCTypeOf == [v \in MCValues |-> IF v \in Ids THEN "u8" ELSE IF v = d1 THEN "bin" ELSE "str"]
MCSpanOf == [v \in MCValues |-> IF v = d2 THEN 2 ELSE 1]
=============================================================================
