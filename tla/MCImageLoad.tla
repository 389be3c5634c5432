----------------------------- MODULE MCImageLoad -----------------------------
(***************************************************************************)
(* ImageLoad with 3 for 127: a BIOS that reads three or four sectors in a  *)
(* call, third-stage loaders with no need of the fallback (one and three   *)
(* sectors), in need of it (four) and beyond it (five), kernels of one to  *)
(* three sectors, and a heap with or without room for the buffer.          *)
(***************************************************************************)
EXTENDS ImageLoad
=============================================================================
