---------------------------- MODULE PartitionTable ----------------------------
(***************************************************************************)
(* get_partition_array and find_partition (SSL/src/utils.c): the GPT       *)
(* partition entries are read to the heap, the entries in use are moved to *)
(* the front with a left and a right pointer, and the allocation is        *)
(* trimmed to them.                                                        *)
(***************************************************************************)
EXTENDS BlockList

CONSTANTS
  ArraySize,  \* sizeof(GPT_partition_array)
  SECTOR,     \* SECTOR_SIZE
  WORD,       \* 2^16, the range of DAP.sectors
  Earlier,    \* sizes one of which an earlier caller may hold on the heap
  Counts,     \* gpt_hdr->entries_count
  Sizes,      \* gpt_hdr->entry_size
  Types,      \* partition type GUIDs
  NOTYPE      \* the GUID of zeros

ASSUME PartitionTableAssumption ==
  /\ ArraySize \in Nat
  /\ SECTOR \in Nat \ {0}
  /\ WORD \in Nat \ {0}
  /\ Earlier \subseteq Nat
  /\ Counts \subseteq Nat
  /\ Sizes \subseteq Nat \ {0}
  /\ NOTYPE \notin Types

VARIABLES
  hdr,        \* entries_count and entry_size of the GPT header
  table,      \* the entries on the drive: index -> partition type
  before,     \* the heap at the call
  heap,
  part,       \* partition_array: its address, array and count
  arr,        \* the entries at part.array: index -> type and drive index
  li, ri,     \* the two pointers
  pc

vars == <<hdr, table, before, heap, part, arr, li, ri, pc>>

drive == <<hdr, table, before>>

N == hdr.entries_count

NoArray == [at |-> NULL, array |-> NULL, count |-> 0]

\* An entry after memset to zero.
Erased == [type |-> NOTYPE, from |-> 0]

Used(i) == arr[i].type # NOTYPE

\* DAP.sectors: the table's size in sectors, rounded up, as a word.
Sectors(size) ==
  (size \div SECTOR + (IF size % SECTOR = 0 THEN 0 ELSE 1)) % WORD

Heaps == {MemInit} \cup {Malloc(MemInit, s).heap : s \in Earlier}

\* The bytes allocated and read.  That their number wraps at 2^32 before it is
\* divided changes nothing, for a word of the quotient is all that is kept.
Capacity == Sectors(N * hdr.entry_size) * SECTOR

Init ==
  /\ hdr \in [entries_count : Counts, entry_size : Sizes]
  /\ table \in [0 .. (hdr.entries_count - 1) -> Types \cup {NOTYPE}]
  /\ before \in Heaps
  /\ heap = before
  /\ part = NoArray
  /\ arr = << >>
  /\ li = 0
  /\ ri = 0
  /\ pc = "struct"

-----------------------------------------------------------------------------
(***************************************************************************)
(* Allocation and reading.                                                 *)
(***************************************************************************)
AllocateStruct ==
  /\ pc = "struct"
  /\ LET p == Malloc(heap, ArraySize)
     IN  /\ heap' = p.heap
         /\ \/ p.ptr = NULL /\ pc' = "failed" /\ UNCHANGED part
            \/ p.ptr # NULL /\ pc' = "array" /\ part' = [part EXCEPT !.at = p.ptr]
  /\ UNCHANGED <<drive, arr, li, ri>>

AllocateArray ==
  /\ pc = "array"
  /\ LET a == Malloc(heap, Capacity)
     IN  /\ heap' = a.heap
         /\ part' = [part EXCEPT !.array = a.ptr]
         /\ pc' = IF a.ptr = NULL THEN "free struct" ELSE "read"
  /\ UNCHANGED <<drive, arr, li, ri>>

\* bios_read_drive succeeds.  Of a table that is longer than the block, the
\* entries outside are in arr too, but no step looks at them.
Read ==
  /\ pc = "read"
  /\ arr' = [i \in 0 .. (N - 1) |-> [type |-> table[i], from |-> i]]
  /\ li' = 0
  /\ pc' = "left"
  /\ UNCHANGED <<drive, heap, part, ri>>

ReadFails ==
  /\ pc = "read"
  /\ pc' = "free array"
  /\ UNCHANGED <<drive, heap, part, arr, li, ri>>

FreeArray ==
  /\ pc = "free array"
  /\ heap' = Free(heap, part.array)
  /\ pc' = "free struct"
  /\ UNCHANGED <<drive, part, arr, li, ri>>

FreeStruct ==
  /\ pc = "free struct"
  /\ heap' = Free(heap, part.at)
  /\ pc' = "failed"
  /\ UNCHANGED <<drive, part, arr, li, ri>>

-----------------------------------------------------------------------------
(***************************************************************************)
(* Compaction.                                                             *)
(***************************************************************************)
\* Entry i, if there is one, lies in the block.
Inside(i) == i < N => (i + 1) * hdr.entry_size <= Capacity

\* The left pointer passes entry i.
PassLeft(i) == i < N /\ Used(i)

\* Mutant: the right pointer stops at the last entry.
PassRightShort(i) == i < N - 1 /\ ~Used(i)

\* The right pointer passes entry i.
PassRight(i) == i < N /\ ~Used(i)

\* The left pointer moves to the first entry not in use.
Left ==
  /\ pc = "left" /\ Inside(li)
  /\ \/ /\ PassLeft(li)
        /\ li' = li + 1
        /\ UNCHANGED <<ri, pc>>
     \/ /\ ~PassLeft(li)
        /\ ri' = li
        /\ pc' = "right"
        /\ UNCHANGED li
  /\ UNCHANGED <<drive, heap, part, arr>>

\* The right pointer moves on to the next entry in use.
Right ==
  /\ pc = "right" /\ Inside(ri)
  /\ \/ /\ PassRight(ri)
        /\ ri' = ri + 1
        /\ UNCHANGED pc
     \/ /\ ~PassRight(ri)
        /\ pc' = IF li < N /\ ri < N THEN "move" ELSE "trim"
        /\ UNCHANGED ri
  /\ UNCHANGED <<drive, heap, part, arr, li>>

\* A pointer comes to an entry that is not in the block.  What the loop finds
\* there, and whether it moves it, is undefined; the model ends here.
LeaveBlock ==
  /\ \/ pc = "left" /\ ~Inside(li)
     \/ pc = "right" /\ ~Inside(ri)
  /\ pc' = "beyond"
  /\ UNCHANGED <<drive, heap, part, arr, li, ri>>

\* Mutant: the last entry in use is moved, not the next one.
MovedLast ==
  LET last == CHOOSE i \in ri .. (N - 1) : Used(i) /\ \A j \in (i + 1) .. (N - 1) : ~Used(j)
  IN  [arr EXCEPT ![li] = arr[last], ![last] = Erased]

\* memcpy(lp, rp); memset(rp, 0)
Moved == [arr EXCEPT ![li] = arr[ri], ![ri] = Erased]

Move ==
  /\ pc = "move"
  /\ arr' = Moved
  /\ pc' = "left"
  /\ UNCHANGED <<drive, heap, part, li, ri>>

\* Mutant: the allocation is trimmed to one entry less.
TrimSizeShort == IF li = 0 THEN 0 ELSE hdr.entry_size * (li - 1)

\* The size of the entries in use.
TrimSize == hdr.entry_size * li

\* The allocation is trimmed to the entries in use.  realloc to no more than
\* the allocated size does not fail (TrimSafe), so the path that would free
\* the NULL it returned has no action here.
Trim ==
  /\ pc = "trim"
  /\ LET a == Realloc(heap, part.array, TrimSize)
     IN  /\ a.ptr # NULL
         /\ heap' = a.heap
         /\ part' = [part EXCEPT !.array = a.ptr, !.count = li]
  /\ arr' = [i \in 0 .. (li - 1) |-> arr[i]]
  /\ pc' = "done"
  /\ UNCHANGED <<drive, li, ri>>

Returned == pc \in {"done", "failed", "beyond"} /\ UNCHANGED vars

Next ==
  \/ AllocateStruct \/ AllocateArray \/ Read \/ ReadFails \/ FreeArray \/ FreeStruct
  \/ Left \/ Right \/ LeaveBlock \/ Move \/ Trim \/ Returned

\* The loader runs alone on the processor: it never stops between two steps.
Spec == Init /\ [][Next]_vars /\ WF_vars(Next)

-----------------------------------------------------------------------------
\* The index of the entry found, if any.
find_partition(GUID) ==
  LET found == {i \in 0 .. (part.count - 1) : arr[i].type = GUID}
  IN  IF found = {} THEN << >> ELSE <<Min(found)>>

-----------------------------------------------------------------------------
(***************************************************************************)
(* Properties.                                                             *)
(***************************************************************************)
Entry == [type : Types \cup {NOTYPE}, from : Nat]

TypeOK ==
  /\ N \in Counts /\ hdr.entry_size \in Sizes
  /\ table \in [0 .. (N - 1) -> Types \cup {NOTYPE}]
  /\ IsList(heap.blocks) /\ heap.max_alloc \in Nat
  /\ part \in [at : Nat, array : Nat, count : 0 .. N]
  /\ arr \in [DOMAIN arr -> Entry]
  /\ li \in 0 .. N
  /\ ri \in 0 .. N
  /\ pc \in {"struct", "array", "read", "left", "right", "move", "trim",
             "free array", "free struct", "done", "failed", "beyond"}

\* A word counts the table's sectors.  The 128 entries of 128 bytes that a GPT
\* reserves take 32 of the 65535; nothing in the code checks it.
Counted == N * hdr.entry_size <= (WORD - 1) * SECTOR

\* Of such a table every entry the loop may come to lies in the allocated
\* block, of any table those that it moves and those that it hands out; and the
\* loop leaves the block only with a table that is not of this kind, which it
\* never takes for finished.
InBounds ==
  LET size == heap.blocks[part.array - HDR].size
  IN  /\ pc \in {"left", "right", "move", "trim"} /\ Counted => N * hdr.entry_size <= size
      /\ pc = "move" => (ri + 1) * hdr.entry_size <= size
      /\ pc = "done" => part.count * hdr.entry_size <= size
      /\ pc \in {"trim", "done"} => Counted
      /\ pc = "beyond" => ~Counted

\* The error path after the last realloc, which frees a NULL pointer and
\* leaks the array, is never taken.
TrimSafe == pc = "trim" => Realloc(heap, part.array, TrimSize).ptr # NULL

\* The call stays within its block from reading to trimming unless a word
\* cannot count the table's sectors, never meets the error path that would leak
\* it, and gives everything back when it fails.
MemorySafe ==
  /\ InBounds
  /\ TrimSafe
  /\ pc = "failed" => heap = before

Loaded == pc \in {"left", "right", "move", "trim", "done"}

\* However far the compaction has come, the entries in use are those of the
\* drive, each of them once and in the drive's order.
SameEntries ==
  /\ {arr[i] : i \in {j \in DOMAIN arr : Used(j)}} =
     {[type |-> table[k], from |-> k] : k \in {j \in DOMAIN table : table[j] # NOTYPE}}
  /\ \A i, j \in DOMAIN arr : Used(i) /\ Used(j) /\ i < j => arr[i].from < arr[j].from

\* find_partition returns the first partition of the drive with the type, and
\* nothing only if the drive has none.
FindsFirst ==
  \A t \in Types :
    LET first == {k \in DOMAIN table : table[k] = t}
    IN  IF first = {} THEN find_partition(t) = << >>
        ELSE /\ find_partition(t) # << >>
             /\ arr[find_partition(t)[1]].from = Min(first)

\* At no point of the compaction is an entry lost, doubled or out of order;
\* at the end there is no gap left, and a search by type gives the partition
\* that a search of the drive's own table would.
Filtered ==
  /\ Loaded => SameEntries
  /\ pc = "done" => FindsFirst /\ \A i \in DOMAIN arr : Used(i)

\* The call returns, or leaves its block, which MemorySafe bounds: each round of
\* the compaction moves one of the pointers.
Terminates == <>(pc \in {"done", "failed", "beyond"})
=============================================================================
