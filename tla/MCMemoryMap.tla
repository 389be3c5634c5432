----------------------------- MODULE MCMemoryMap -----------------------------
(***************************************************************************)
(* get_memory_map on a heap for a map and four nodes, less what an earlier *)
(* caller holds: with it there is room for no map, for no node, for one or *)
(* for two nodes.  With three cookies the firmware tells up to three       *)
(* entries, or goes round in a circle until the heap is full.              *)
(***************************************************************************)
EXTENDS MemoryMap
=============================================================================
