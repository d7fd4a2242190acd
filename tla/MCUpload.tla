------------------------------ MODULE MCUpload -------------------------------
(* The recordings for TLC: a long one, and short ones beside it. *)
EXTENDS Recording

MCMaxChunks == [r \in Recordings |-> IF r = 1 THEN 2 ELSE 1]
=============================================================================
