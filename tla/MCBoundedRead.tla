--------------------------- MODULE MCBoundedRead ---------------------------
(* A limit of four bytes; chunks of at most three; files of up to six bytes;  *)
(* every combination of the headers and every length up to limit + 1.         *)
EXTENDS BoundedRead
=============================================================================
