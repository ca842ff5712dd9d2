------------------------------- MODULE MCLfuPar -------------------------------
(* Two threads over every table of four positions, which span three chunks.*)
EXTENDS LfuPar

MCTables == SUBSET (1 .. 4)
=============================================================================
