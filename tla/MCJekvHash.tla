----------------------------- MODULE MCJekvHash -----------------------------
(* A sector of a few slices, with hashes that collide, for TLC. *)
EXTENDS JekvHash, TLC

CONSTANTS h1, h2

MCSymmetry == Permutations(Hashes)
=============================================================================
