-------------------------------- MODULE MCMbr --------------------------------
(***************************************************************************)
(* A segment of four sectors of four units, and registers of three bits:   *)
(* tables without an entry, of one to four sectors, too large for a BIOS   *)
(* or for the segment, with a sector count or an entry count that does not *)
(* fit in its word, and one whose size overflows the division; none, one   *)
(* or two SSL entries anywhere in them.                                    *)
(***************************************************************************)
EXTENDS Mbr

Tables == {<<0, 3>>, <<1, 3>>, <<2, 4>>, <<3, 3>>, <<4, 4>>, <<5, 3>>, <<6, 3>>,
           <<9, 3>>, <<9, 4>>, <<11, 3>>, <<12, 4>>}

\* The SSL partitions, if any, start at 50 and 60.
Placements(count) ==
  LET Index == 0 .. (count - 1)
  IN  {[e \in {} |-> 0]} \cup
      {[e \in {i, j} |-> IF e = i THEN 50 ELSE 60] : i, j \in Index}

MCDrives ==
  UNION {{[sector |-> s, gpt |-> g, limit |-> n, lba |-> l,
           count |-> t[1], size |-> t[2], ssl |-> p] :
            s \in {4, 8}, g \in BOOLEAN, n \in {3, 4}, l \in {2, 20},
            p \in Placements(t[1])} : t \in Tables}
=============================================================================
