-------------------------------- MODULE MCBoot --------------------------------
(***************************************************************************)
(* A machine on which everything works, and machines that differ from it   *)
(* in a few things: every kind of A20 gate, every CPUID, a BIOS that       *)
(* reloads limits, drives and tables of all kinds, and memory maps and     *)
(* tables so large that the heap is exhausted at any of the stages.        *)
(***************************************************************************)
EXTENDS Boot, TLC

Good ==
  [gated |-> TRUE, bios |-> "works", kbc |-> "wired", fast |-> TRUE, key |-> FALSE, irq1 |-> FALSE,
   cpuid |-> TRUE, level |-> TRUE, extlevel |-> TRUE,
   features |-> {"PAE", "LM", "PG1G"}, claims |-> {"PAE", "LM", "PG1G"}, keeps |-> TRUE,
   sector |-> SECTOR, guid |-> "of the drive", gpt |-> TRUE, intact |-> TRUE, entries |-> 4, used |-> 3,
   tsl |-> TRUE, large |-> FALSE, kernel |-> TRUE, sectors |-> 2, told |-> 1, video |-> TRUE]

\* A key is only of interest where the controller is tried.
Gates ==
  {Good} \cup
  {[g EXCEPT !.key = k, !.irq1 = i] :
     g \in {[Good EXCEPT !.gated = TRUE, !.bios = b, !.kbc = c, !.fast = f] :
              b \in {"lies", "fails"}, c \in {"wired", "not wired", "absent"}, f \in BOOLEAN},
     k \in BOOLEAN, i \in BOOLEAN}

\* Asked for a level it does not have, CPUID reports whatever it likes.
Processors ==
  {[Good EXCEPT !.cpuid = c, !.level = l, !.extlevel = e, !.features = f,
                !.claims = (IF l THEN f \cap {"PAE"} ELSE {"PAE"}) \cup
                           (IF e THEN f \cap {"LM", "PG1G"} ELSE {"LM", "PG1G"})] :
     c \in BOOLEAN, l \in BOOLEAN, e \in BOOLEAN, f \in SUBSET {"PAE", "LM", "PG1G"}}

Drives ==
  {[Good EXCEPT !.sector = s, !.gpt = g, !.intact = i, !.tsl = t, !.kernel = k, !.large = l] :
     s \in {SECTOR, 2 * SECTOR}, g \in BOOLEAN, i \in BOOLEAN, t \in BOOLEAN, k \in BOOLEAN,
     l \in BOOLEAN}

Loads ==
  {[Good EXCEPT !.gated = FALSE, !.entries = e, !.used = IF e < 2 THEN e ELSE e - 1,
                !.told = t, !.video = v, !.keeps = v] :
     e \in {0, 3, 4, 5, 6, 8, 10}, t \in {1, 3, 5, 12, 14}, v \in BOOLEAN}

MCMachines == Gates \cup Processors \cup Drives \cup Loads

MCSizeof ==
  [memory_map |-> 2, memory_map_node |-> 4, memory_map_entry |-> 3, GPT_header |-> 5,
   GPT_partition_array |-> 3, GPT_partition_entry |-> 4, boot_info_t |-> 7, video_lintext |-> 2]
=============================================================================
