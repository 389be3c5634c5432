------------------------------ MODULE ImageLoad ------------------------------
(***************************************************************************)
(* How ssl_entry reads the third-stage loader and the kernel from their    *)
(* partitions: bios_read_drive with its fallback for a BIOS that reads at  *)
(* most 127 sectors in a call (SSL/src/bios.c), and load_kernel, which     *)
(* copies one sector at a time through a buffer on the heap                *)
(* (SSL/src/utils.c).  Memory and the word-sized offset are counted in     *)
(* sectors; a sector of memory holds the LBA it was read from.             *)
(***************************************************************************)
EXTENDS BlockList

CONSTANTS
  SECTOR,     \* SECTOR_SIZE
  MANY,       \* 127
  WORD,       \* 2^16, the range of DAP.sectors
  Earlier,    \* sizes one of which an earlier caller may hold on the heap
  TslSizes,   \* sectors of the TSL partition
  KernelSizes \* sectors of the kernel partition

ASSUME ImageLoadAssumption ==
  /\ SECTOR \in Nat
  /\ MANY \in Nat \ {0}
  /\ WORD \in Nat /\ WORD > MANY + 1
  /\ Earlier \subseteq Nat
  /\ TslSizes \subseteq Nat \ {0}
  /\ KernelSizes \subseteq Nat \ {0}

VARIABLES
  limit,      \* the most sectors the BIOS reads in a call
  tsl,        \* start_lba and end_lba of the TSL partition
  kernel,     \* start_lba and end_lba of the kernel partition
  before,     \* the heap at the start
  heap,
  low,        \* the 64 KB at TSL_SEG
  high,       \* the memory at 1 MB: what load_kernel wrote
  buffer,     \* its buffer: the pointer and the LBA in it
  dap,        \* lba, sectors and offset of the read under way
  i,          \* sectors of the kernel copied
  pc

vars == <<limit, tsl, kernel, before, heap, low, high, buffer, dap, i, pc>>

machine == <<limit, tsl, kernel, before>>

JUNK == -1

\* 64 KB in sectors: offsets are words.
SEGMENT == MANY + 1

Partition(start, sectors) == [start_lba |-> start, end_lba |-> start + sectors - 1]

Length(p) == p.end_lba - p.start_lba + 1

Heaps == {MemInit} \cup {Malloc(MemInit, s).heap : s \in Earlier}

Init ==
  /\ limit \in {MANY, MANY + 1}
  /\ \E s \in TslSizes, k \in KernelSizes :
       /\ tsl = Partition(10, s)
       /\ kernel = Partition(10 + s, k)
  /\ before \in Heaps
  /\ heap = before
  /\ low = [a \in 0 .. (SEGMENT - 1) |-> JUNK]
  /\ high = << >>
  /\ buffer = [ptr |-> NULL, lba |-> JUNK]
  /\ dap = [lba |-> tsl.start_lba, sectors |-> Length(tsl) % WORD, offset |-> 0]
  /\ i = 0
  /\ pc = "tsl"

-----------------------------------------------------------------------------
(***************************************************************************)
(* bios_read_drive for the third-stage loader.                             *)
(***************************************************************************)
\* Memory after int 13h transferred the first n sectors.
Transferred(n) ==
  [a \in DOMAIN low |-> IF \E k \in 0 .. (n - 1) : a = (dap.offset + k) % SEGMENT
                        THEN dap.lba + (CHOOSE k \in 0 .. (n - 1) : a = (dap.offset + k) % SEGMENT)
                        ELSE low[a]]

\* int 13h reads all the sectors asked for.
CallSucceeds == dap.sectors <= limit /\ low' = Transferred(dap.sectors)

\* int 13h fails, perhaps after some sectors.
CallFails == \E n \in 0 .. (dap.sectors - 1) : low' = Transferred(n)

\* The call for all the sectors.
ReadTsl ==
  /\ pc = "tsl"
  /\ \/ CallSucceeds /\ pc' = "buffer" /\ UNCHANGED dap
     \/ /\ CallFails /\ dap.sectors = MANY + 1
        /\ dap' = [dap EXCEPT !.sectors = MANY]
        /\ pc' = "head"
     \/ CallFails /\ dap.sectors # MANY + 1 /\ pc' = "halt" /\ UNCHANGED dap
  /\ UNCHANGED <<machine, heap, high, buffer, i>>

\* Mutant: the offset stops one sector short.
TailShort == [dap EXCEPT !.sectors = 1, !.offset = @ + MANY - 1]

\* The request for the last sector: a new count and offset, the same LBA.
Tail == [dap EXCEPT !.sectors = 1, !.offset = (@ + MANY) % SEGMENT]

\* The fallback's first call.
ReadHead ==
  /\ pc = "head"
  /\ \/ CallSucceeds /\ dap' = Tail /\ pc' = "tail"
     \/ CallFails /\ pc' = "halt" /\ UNCHANGED dap
  /\ UNCHANGED <<machine, heap, high, buffer, i>>

\* The fallback's second call.
ReadTail ==
  /\ pc = "tail"
  /\ \/ CallSucceeds /\ pc' = "buffer"
     \/ CallFails /\ pc' = "halt"
  /\ UNCHANGED <<machine, heap, high, buffer, dap, i>>

-----------------------------------------------------------------------------
(***************************************************************************)
(* load_kernel.                                                            *)
(***************************************************************************)
AllocateBuffer ==
  /\ pc = "buffer"
  /\ LET b == Malloc(heap, SECTOR)
     IN  /\ heap' = b.heap
         /\ buffer' = [buffer EXCEPT !.ptr = b.ptr]
         /\ \/ b.ptr = NULL /\ pc' = "halt" /\ UNCHANGED dap
            \/ /\ b.ptr # NULL
               /\ dap' = [lba |-> kernel.start_lba, sectors |-> 1, offset |-> 0]
               /\ pc' = "kernel"
  /\ UNCHANGED <<machine, low, high, i>>

\* Mutant: one sector more.
SectorsLeftLate == i <= Length(kernel)

\* The loop goes on.
SectorsLeft == i < Length(kernel)

\* bios_read_drive reads one sector to the buffer.
ReadSector ==
  /\ pc = "kernel" /\ SectorsLeft
  /\ buffer' = [buffer EXCEPT !.lba = dap.lba]
  /\ pc' = "copy"
  /\ UNCHANGED <<machine, heap, low, high, dap, i>>

\* It fails: the buffer is freed and ssl_entry halts.
ReadSectorFails ==
  /\ pc = "kernel" /\ SectorsLeft
  /\ heap' = Free(heap, buffer.ptr)
  /\ pc' = "halt"
  /\ UNCHANGED <<machine, low, high, buffer, dap, i>>

\* Mutant: the loop goes on with the same sector.
AdvanceNot == UNCHANGED <<i, dap>>

\* Mutant: the same sector is read again.
AdvanceInPlace == i' = i + 1 /\ UNCHANGED dap

\* ++i, ++read_context.lba
Advance == i' = i + 1 /\ dap' = [dap EXCEPT !.lba = @ + 1]

\* memcpy to the i-th sector from 1 MB.
CopySector ==
  /\ pc = "copy"
  /\ high' = [a \in DOMAIN high \cup {i} |-> IF a = i THEN buffer.lba ELSE high[a]]
  /\ Advance
  /\ pc' = "kernel"
  /\ UNCHANGED <<machine, heap, low, buffer>>

Finish ==
  /\ pc = "kernel" /\ ~SectorsLeft
  /\ heap' = Free(heap, buffer.ptr)
  /\ pc' = "loaded"
  /\ UNCHANGED <<machine, low, high, buffer, dap, i>>

\* ssl_entry goes on, or halts.
Returned == pc \in {"loaded", "halt"} /\ UNCHANGED vars

Next ==
  \/ ReadTsl \/ ReadHead \/ ReadTail
  \/ AllocateBuffer \/ ReadSector \/ ReadSectorFails \/ CopySector \/ Finish \/ Returned

\* The loader runs alone on the processor, and every BIOS call returns.
Spec == Init /\ [][Next]_vars /\ WF_vars(Next)

-----------------------------------------------------------------------------
(***************************************************************************)
(* Properties.                                                             *)
(***************************************************************************)
TypeOK ==
  /\ low \in [0 .. (SEGMENT - 1) -> Nat \cup {JUNK}]
  /\ DOMAIN high \subseteq 0 .. (Length(kernel) - 1)
  /\ \A a \in DOMAIN high : high[a] \in Nat
  /\ buffer \in [ptr : Nat, lba : Nat \cup {JUNK}]
  /\ dap \in [lba : Nat, sectors : 0 .. (WORD - 1), offset : 0 .. (SEGMENT - 1)]
  /\ i \in 0 .. Length(kernel)
  /\ pc \in {"tsl", "head", "tail", "buffer", "kernel", "copy", "loaded", "halt"}

\* The third-stage loader has been read.
HasTsl == pc \in {"buffer", "kernel", "copy", "loaded"}

\* Once read, the memory at TSL_SEG holds the partition, sector by sector, on
\* every BIOS, as bios_read_drive is documented ("Can read 128 sectors on all
\* BIOSes", include/bl/bios.h).
TslExact ==
  HasTsl => \A k \in 0 .. (Length(tsl) - 1) : low[k] = tsl.start_lba + k

\* Whether or not the read was split, all but sector 127 of a partition whose
\* length fits in DAP.sectors are in place.
TslFirstSectors ==
  HasTsl /\ Length(tsl) < WORD =>
    \A k \in 0 .. (Length(tsl) - 1) : k < MANY => low[k] = tsl.start_lba + k

\* The sectors of the kernel arrive one after the other, each at its place,
\* none is skipped or read twice, and the load ends with the last one of the
\* partition; however it ends, its buffer is back on the heap.
KernelExact ==
  /\ DOMAIN high = 0 .. (i - 1)
  /\ \A k \in DOMAIN high : high[k] = kernel.start_lba + k
  /\ pc = "loaded" => i = Length(kernel)
  /\ pc \in {"loaded", "halt"} => heap = before

\* The load ends.
Terminates == <>(pc \in {"loaded", "halt"})
=============================================================================
