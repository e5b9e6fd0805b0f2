----------------------------- MODULE MCJekvBlob -----------------------------
(* A few blobs of a few slices for TLC. *)
EXTENDS JekvBlob, TLC

CONSTANTS n1, n2, short, b1, b2, big, small

MCKeys   == Names \union SegKey
MCValues == Small \union Seg \union Desc
MCTypeOf == [v \in MCValues |-> IF v \in Seg THEN "seg" ELSE IF v \in Desc THEN "blob" ELSE "str"]
MCSpanOf == [v \in MCValues |-> IF v \in Seg THEN 1 + v.len ELSE 1]
MCBlobSize == [b \in Blobs |-> IF b = b1 THEN big ELSE small]
=============================================================================
