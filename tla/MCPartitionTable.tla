--------------------------- MODULE MCPartitionTable ---------------------------
(***************************************************************************)
(* Tables of no to five entries, of one sector or more, in use or not in   *)
(* every pattern, on a heap that may be too small for the struct or for    *)
(* the table.  A word counts two sectors, 16 bytes: five entries of three  *)
(* and four of four still are such a table; of five entries of eight, two  *)
(* sectors are read, of four one, and of five of four none.                *)
(***************************************************************************)
EXTENDS PartitionTable
=============================================================================
