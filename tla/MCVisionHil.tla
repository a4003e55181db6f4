---------------------------- MODULE MCVisionHil ----------------------------
(* Small benches for TLC: two builds whose vector tables look the same. *)
EXTENDS VisionHil, TLC
MCEntry == [i \in Images \cup {NoImage} |-> IF i = NoImage THEN "bad" ELSE "good"]
ImageSymmetry == Permutations(Images)
=============================================================================
