------------------------- MODULE PartitionTableProofs -------------------------
(***************************************************************************)
(* Theorems about PartitionTable, for every table, also one whose sectors  *)
(* the word that counts them cannot hold, every entry and sector size and  *)
(* every heap.  The inductive invariant says which allocations are held    *)
(* and how large the array's is, and how far each pointer of the           *)
(* compaction has come, in the table and in the block.                     *)
(***************************************************************************)
EXTENDS PartitionTable, BlockListProofs

-----------------------------------------------------------------------------
\* What the call holds on the heap.
Held ==
  (IF pc \in {"struct", "failed"} THEN {} ELSE {part.at}) \cup
  (IF pc \in {"read", "left", "right", "move", "trim", "free array", "done", "beyond"} THEN {part.array} ELSE {})

HeapOwned ==
  /\ SoundHeap(before) /\ Holding(heap, before, Held)
  /\ pc \in {"read", "left", "right", "move", "trim", "free array", "done", "beyond"} =>
       part.at # part.array

\* The block holds the sectors that are read until it is trimmed.
Room ==
  /\ pc \in {"read", "left", "right", "move", "trim"} =>
       Align16(Capacity) <= SizeAt(heap, part.array)
  /\ pc = "done" => /\ hdr.entry_size * li <= SizeAt(heap, part.array)
                    /\ part.count = li

\* All entries before the two pointers lie in the block, and so does the one that
\* is moved; the loop ends with the whole table there, or leaves the block because
\* it is not.
Reached ==
  /\ pc \in {"left", "right", "move", "trim"} => li * hdr.entry_size <= Capacity
  /\ pc \in {"right", "move", "trim"} => ri * hdr.entry_size <= Capacity
  /\ pc = "move" => (ri + 1) * hdr.entry_size <= Capacity
  /\ pc = "done" => N * hdr.entry_size <= Capacity
  /\ pc = "beyond" => ~(N * hdr.entry_size <= Capacity)

\* How far the two pointers have come: all before the left one are in use, none
\* from there to the right one.
Pointing ==
  /\ pc \in {"left", "right", "move", "trim"} => DOMAIN arr = 0 .. (N - 1)
  /\ pc = "done" => DOMAIN arr = 0 .. (li - 1)
  /\ Loaded => \A i \in 0 .. (li - 1) : Used(i)
  /\ pc \in {"right", "move", "trim"} => /\ li <= ri
                                         /\ \A i \in li .. (ri - 1) : ~Used(i)
                                         /\ li < N => ~Used(li)
  /\ pc = "move" => li < N /\ ri < N /\ Used(ri)
  /\ pc = "trim" => li = N \/ ri = N

IInv == TypeOK /\ HeapOwned /\ Room /\ Reached /\ Pointing /\ (Loaded => SameEntries)

-----------------------------------------------------------------------------
(***************************************************************************)
(* Numbers.                                                                *)
(***************************************************************************)
\* A product grows with its factors.
LEMMA Grows ==
  ASSUME NEW a \in Nat, NEW b \in Nat, NEW n \in Nat, a <= b
  PROVE  a * n \in Nat /\ a * n <= b * n
  OBVIOUS

\* _align16 keeps the order.
LEMMA AlignGrows ==
  ASSUME NEW v \in Nat, NEW w \in Nat, v <= w
  PROVE  Align16(v) <= Align16(w)
  <1>1. PICK j \in Nat : Align16(v) = j * ALIGN
    BY AlignFacts
  <1>2. PICK k \in Nat : Align16(w) = k * ALIGN
    BY AlignFacts
  <1>3. Align16(v) < v + ALIGN /\ w <= Align16(w) /\ ALIGN \in Nat /\ Align16(v) \in Nat
    BY AlignFacts, HeapFacts
  <1>4. CASE j <= k
    BY <1>1, <1>2, <1>3, <1>4, Grows
  <1>5. CASE k + 1 <= j
    <2>1. (k + 1) * ALIGN <= j * ALIGN /\ k * ALIGN \in Nat
      BY <1>3, <1>5, Grows
    <2>2. (k + 1) * ALIGN = k * ALIGN + ALIGN
      BY <1>3
    <2> QED
      BY <1>1, <1>2, <1>3, <2>1, <2>2
  <1> QED
    BY <1>4, <1>5

\* The sectors that are read hold the table.
LEMMA SectorsFacts ==
  ASSUME NEW size \in Nat, size <= (WORD - 1) * SECTOR
  PROVE  Sectors(size) * SECTOR \in Nat /\ size <= Sectors(size) * SECTOR
  <1> DEFINE q == size \div SECTOR
             s == IF size % SECTOR = 0 THEN q ELSE q + 1
  <1>1. SECTOR \in Nat /\ SECTOR > 0 /\ WORD \in Nat /\ WORD > 0
    BY PartitionTableAssumption
  <1>2. q \in Nat /\ q * SECTOR <= size /\ size < q * SECTOR + SECTOR
    BY <1>1, DivFacts
  <1>3. size % SECTOR = size - q * SECTOR
    BY <1>1
  <1> HIDE DEF q
  <1>4. (q + 1) * SECTOR = q * SECTOR + SECTOR /\ q * SECTOR \in Nat
    BY <1>1, <1>2
  <1>5. s \in Nat /\ size <= s * SECTOR
    BY <1>1, <1>2, <1>3, <1>4
  <1>6. s <= WORD - 1
    <2>1. CASE size % SECTOR = 0
      <3> SUFFICES ASSUME WORD - 1 < q PROVE FALSE
        BY <1>1, <1>2, <2>1
      <3>1. (WORD - 1) + 1 <= q /\ WORD - 1 \in Nat
        BY <1>1, <1>2
      <3>2. ((WORD - 1) + 1) * SECTOR <= q * SECTOR
        BY <3>1, <1>1, <1>2, Grows
      <3>3. ((WORD - 1) + 1) * SECTOR = (WORD - 1) * SECTOR + SECTOR /\ (WORD - 1) * SECTOR \in Nat
        BY <1>1, <3>1
      <3> QED
        BY <1>1, <1>2, <1>4, <3>2, <3>3
    <2>2. CASE size % SECTOR # 0
      <3> SUFFICES ASSUME WORD - 1 <= q PROVE FALSE
        BY <1>1, <1>2, <2>2
      <3>1. (WORD - 1) * SECTOR <= q * SECTOR /\ (WORD - 1) * SECTOR \in Nat
        BY <1>1, <1>2, Grows
      <3>2. q * SECTOR < size
        BY <1>2, <1>3, <1>4, <2>2
      <3> QED
        BY <1>4, <3>1, <3>2
    <2> QED
      BY <2>1, <2>2
  <1>7. Sectors(size) = s
    <2>1. s = q + (IF size % SECTOR = 0 THEN 0 ELSE 1)
      BY <1>2
    <2>2. s % WORD = s
      BY <1>1, <1>5, <1>6
    <2> QED
      BY <2>1, <2>2 DEF Sectors, q
  <1> QED
    BY <1>1, <1>5, <1>7

\* What is read: no more than a word of sectors, and the table if that is enough.
LEMMA CapacityFacts ==
  ASSUME N \in Nat, hdr.entry_size \in Nat
  PROVE  /\ Capacity \in Nat /\ Capacity <= (WORD - 1) * SECTOR
         /\ Counted <=> N * hdr.entry_size <= Capacity
  <1>1. PICK size, n : size = N * hdr.entry_size /\ n = Sectors(size)
    OBVIOUS
  <1>2. size \in Nat /\ Capacity = n * SECTOR
    BY <1>1 DEF Capacity
  <1>3. SECTOR \in Nat \ {0} /\ WORD \in Nat \ {0}
    BY PartitionTableAssumption
  <1>4. n \in 0 .. (WORD - 1)
    <2>1. PICK k : k = size \div SECTOR + (IF size % SECTOR = 0 THEN 0 ELSE 1)
      OBVIOUS
    <2>2. k \in Nat
      BY <1>2, <1>3, <2>1
    <2>3. n = k % WORD
      BY <1>1, <2>1, Zenon DEF Sectors
    <2> QED
      BY <1>3, <2>2, <2>3
  <1>5. n * SECTOR \in Nat /\ n * SECTOR <= (WORD - 1) * SECTOR
    <2>1. n \in Nat /\ WORD - 1 \in Nat /\ n <= WORD - 1 /\ SECTOR \in Nat
      BY <1>3, <1>4
    <2> QED
      BY <2>1, Grows
  <1>6. size <= (WORD - 1) * SECTOR => size <= n * SECTOR
    BY <1>1, <1>2, SectorsFacts
  <1>7. PICK most : most = (WORD - 1) * SECTOR
    OBVIOUS
  <1>8. most \in Int
    BY <1>3, <1>7
  <1>9. size <= most <=> size <= n * SECTOR
    BY <1>2, <1>5, <1>6, <1>7, <1>8
  <1> QED
    BY <1>1, <1>2, <1>5, <1>7, <1>9 DEF Counted

\* The entries before a later one end no later.
LEMMA EntryEnds ==
  ASSUME NEW i \in Nat, NEW n \in Nat, i < n, NEW size \in Nat
  PROVE  (i + 1) * size \in Nat /\ (i + 1) * size <= n * size
  <1>1. i + 1 \in Nat /\ i + 1 <= n
    OBVIOUS
  <1> QED
    BY <1>1, Grows

\* The header does not change, and so neither does what is read.
LEMMA SameTable ==
  ASSUME UNCHANGED drive
  PROVE  /\ hdr' = hdr /\ table' = table /\ before' = before
         /\ N' = N /\ Capacity' = Capacity
  BY DEF drive, N, Capacity, Sectors

-----------------------------------------------------------------------------
(***************************************************************************)
(* The invariant at the start, and its parts.                              *)
(***************************************************************************)
\* The heap an earlier caller leaves is sound.
LEMMA HeapsSound ==
  ASSUME NEW h \in Heaps
  PROVE  SoundHeap(h)
  <1>1. SoundHeap(MemInit)
    BY MemInitLemma
  <1>2. ASSUME NEW s \in Earlier PROVE SoundHeap(Malloc(MemInit, s).heap)
    <2>1. s \in Nat
      BY PartitionTableAssumption
    <2> QED
      BY <1>1, <2>1, MallocLemma DEF Took
  <1> QED
    BY <1>1, <1>2 DEF Heaps

\* A heap that is held is well formed.
LEMMA HeapTyped ==
  ASSUME NEW h, NEW b, NEW P, Holding(h, b, P)
  PROVE  IsList(h.blocks) /\ h.max_alloc \in Nat
  BY DEF Holding, SoundHeap, WellFormed

\* What the invariant says that the steps rely on.
LEMMA IInvFacts ==
  ASSUME IInv
  PROVE  /\ N \in Nat /\ hdr.entry_size \in Nat /\ N * hdr.entry_size \in Nat
         /\ NOTYPE \notin Types
         /\ table \in [0 .. (N - 1) -> Types \cup {NOTYPE}]
         /\ part \in [at : Nat, array : Nat, count : 0 .. N]
         /\ arr \in [DOMAIN arr -> Entry]
         /\ li \in Nat /\ li <= N /\ ri \in Nat /\ ri <= N
         /\ SoundHeap(before) /\ Holding(heap, before, Held)
         /\ Capacity \in Nat
  <1>1. TypeOK /\ HeapOwned
    BY DEF IInv
  <1>2. N \in Nat /\ hdr.entry_size \in Nat
    BY <1>1, PartitionTableAssumption DEF TypeOK
  <1>3. N * hdr.entry_size \in Nat
    BY <1>2
  <1>4. li \in Nat /\ li <= N /\ ri \in Nat /\ ri <= N
    <2>1. li \in 0 .. N /\ ri \in 0 .. N
      BY <1>1 DEF TypeOK
    <2> QED
      BY <1>2, <2>1
  <1>5. Capacity \in Nat
    BY <1>2, CapacityFacts
  <1> QED
    BY <1>1, <1>2, <1>3, <1>4, <1>5, PartitionTableAssumption DEF TypeOK, HeapOwned

LEMMA InitIInv ==
  ASSUME Init
  PROVE  IInv
  <1>1. /\ N \in Counts /\ hdr.entry_size \in Sizes /\ N \in Nat
        /\ table \in [0 .. (N - 1) -> Types \cup {NOTYPE}]
    BY PartitionTableAssumption DEF Init, N
  <1>2. SoundHeap(before) /\ heap = before
    BY HeapsSound DEF Init
  <1>3. HeapOwned
    BY <1>2, HoldingNothing DEF Init, HeapOwned, Held
  <1>4. TypeOK
    <2>1. part \in [at : Nat, array : Nat, count : 0 .. N]
      BY <1>1 DEF Init, NoArray, NULL
    <2>2. DOMAIN arr = {} /\ arr \in [DOMAIN arr -> Entry]
      BY DEF Init
    <2> QED
      BY <1>1, <1>3, <2>1, <2>2, HeapTyped DEF Init, TypeOK, HeapOwned
  <1> QED
    BY <1>3, <1>4 DEF Init, IInv, Room, Reached, Pointing, Loaded, N

-----------------------------------------------------------------------------
(***************************************************************************)
(* Every step keeps the invariant.                                         *)
(***************************************************************************)
\* malloc for the loader: no memory and no change, or a block nobody holds.
LEMMA Allocation ==
  ASSUME HeapOwned, NEW n \in Nat, NEW r, r = Malloc(heap, n)
  PROVE  \/ r.ptr = NULL /\ r.heap = heap
         \/ /\ r.ptr \in Nat /\ r.ptr # NULL /\ r.ptr \notin Held
            /\ Holding(r.heap, before, Held \cup {r.ptr})
            /\ SizeAt(r.heap, r.ptr) >= Align16(n)
  <1>1. Held \subseteq Pointers(heap)
    BY DEF HeapOwned, Holding
  <1> QED
    BY <1>1, HoldingMalloc DEF HeapOwned

LEMMA AllocateStructStep ==
  ASSUME IInv, AllocateStruct
  PROVE  IInv'
  <1> DEFINE p == Malloc(heap, ArraySize)
  <1>1. /\ pc = "struct" /\ UNCHANGED <<drive, arr, li, ri>> /\ heap' = p.heap
        /\ \/ p.ptr = NULL /\ pc' = "failed" /\ UNCHANGED part
           \/ p.ptr # NULL /\ pc' = "array" /\ part' = [part EXCEPT !.at = p.ptr]
    BY DEF AllocateStruct
  <1>2. HeapOwned /\ TypeOK /\ Room /\ Held = {}
    BY <1>1 DEF IInv, Held
  <1>3. \/ p.ptr = NULL /\ p.heap = heap
        \/ p.ptr \in Nat /\ p.ptr # NULL /\ Holding(p.heap, before, {p.ptr})
    <2>1. ArraySize \in Nat
      BY PartitionTableAssumption
    <2>2. Held \cup {p.ptr} = {p.ptr}
      BY <1>2
    <2>3. \/ p.ptr = NULL /\ p.heap = heap
          \/ p.ptr \in Nat /\ p.ptr # NULL /\ Holding(p.heap, before, Held \cup {p.ptr})
      BY <1>2, <2>1, Allocation
    <2> QED
      BY <2>2, <2>3, Zenon
  <1> HIDE DEF p
  <1>4. part' \in [at : Nat, array : Nat, count : 0 .. N] /\ (p.ptr # NULL => part'.at = p.ptr)
    BY <1>1, <1>2, <1>3 DEF TypeOK
  <1>5. HeapOwned'
    <2>1. CASE p.ptr = NULL
      BY <1>1, <1>2, <1>3, <2>1 DEF HeapOwned, Held, drive
    <2>2. CASE p.ptr # NULL
      <3>1. Held' = {p.ptr}
        BY <1>1, <1>4, <2>2 DEF Held
      <3> QED
        BY <1>1, <1>2, <1>3, <2>2, <3>1 DEF HeapOwned, drive
    <2> QED
      BY <2>1, <2>2
  <1>6. TypeOK'
    BY <1>1, <1>2, <1>4, <1>5, HeapTyped DEF TypeOK, HeapOwned, drive, N
  <1> QED
    BY <1>1, <1>2, <1>5, <1>6 DEF IInv, Room, Reached, Pointing, Loaded, drive, N

LEMMA AllocateArrayStep ==
  ASSUME IInv, AllocateArray
  PROVE  IInv'
  <1> DEFINE a == Malloc(heap, Capacity)
  <1>1. /\ pc = "array" /\ UNCHANGED <<drive, arr, li, ri>> /\ heap' = a.heap
        /\ part' = [part EXCEPT !.array = a.ptr]
        /\ pc' = IF a.ptr = NULL THEN "free struct" ELSE "read"
    BY DEF AllocateArray
  <1>2. HeapOwned /\ TypeOK /\ Room /\ Held = {part.at}
    BY <1>1 DEF IInv, Held
  <1>3. Capacity \in Nat
    BY IInvFacts
  <1>4. \/ a.ptr = NULL /\ a.heap = heap
        \/ /\ a.ptr \in Nat /\ a.ptr # NULL /\ a.ptr # part.at
           /\ Holding(a.heap, before, {part.at, a.ptr})
           /\ SizeAt(a.heap, a.ptr) >= Align16(Capacity)
    <2>1. Held \cup {a.ptr} = {part.at, a.ptr} /\ (a.ptr \notin Held => a.ptr # part.at)
      BY <1>2
    <2>2. \/ a.ptr = NULL /\ a.heap = heap
          \/ /\ a.ptr \in Nat /\ a.ptr # NULL /\ a.ptr \notin Held
             /\ Holding(a.heap, before, Held \cup {a.ptr})
             /\ SizeAt(a.heap, a.ptr) >= Align16(Capacity)
      BY <1>2, <1>3, Allocation
    <2> QED
      BY <2>1, <2>2, Zenon
  <1> HIDE DEF a
  <1>5. a.ptr \in Nat
    BY <1>4 DEF NULL
  <1>6. /\ part' \in [at : Nat, array : Nat, count : 0 .. N]
        /\ part'.at = part.at /\ part'.array = a.ptr
    BY <1>1, <1>2, <1>5 DEF TypeOK
  <1>7. HeapOwned' /\ Room'
    <2>1. CASE a.ptr = NULL
      <3>1. Held' = {part.at} /\ pc' = "free struct"
        BY <1>1, <1>6, <2>1 DEF Held
      <3> QED
        BY <1>1, <1>2, <1>4, <2>1, <3>1 DEF HeapOwned, Room, drive
    <2>2. CASE a.ptr # NULL
      <3>1. Held' = {part.at, a.ptr} /\ pc' = "read"
        BY <1>1, <1>6, <2>2 DEF Held
      <3>2. HeapOwned'
        BY <1>1, <1>2, <1>4, <1>6, <2>2, <3>1 DEF HeapOwned, drive
      <3>3. Align16(Capacity) <= SizeAt(a.heap, a.ptr)
        <4>1. SizeAt(a.heap, a.ptr) \in Nat
          <5>1. SoundHeap(a.heap) /\ a.ptr \in Pointers(a.heap)
            BY <1>4, <2>2 DEF Holding
          <5> QED
            BY <5>1, PointerFacts
        <4>2. Align16(Capacity) \in Nat
          BY <1>3, AlignFacts
        <4> QED
          BY <1>4, <2>2, <4>1, <4>2
      <3>4. Room'
        <4>1. Capacity' = Capacity
          BY <1>1, SameTable
        <4> QED
          BY <1>1, <1>6, <3>1, <3>3, <4>1 DEF Room
      <3> QED
        BY <3>2, <3>4
    <2> QED
      BY <2>1, <2>2
  <1>8. TypeOK'
    BY <1>1, <1>2, <1>6, <1>7, HeapTyped DEF TypeOK, HeapOwned, drive, N
  <1> QED
    BY <1>1, <1>7, <1>8 DEF IInv, Reached, Pointing, Loaded

\* What the call holds has not changed.
LEMMA SameHeap ==
  ASSUME HeapOwned, Room, UNCHANGED <<drive, heap, part>>,
         pc \in {"read", "left", "right", "move", "trim"},
         pc' \in {"left", "right", "move", "trim", "free array", "beyond"}
  PROVE  HeapOwned' /\ Room'
  <1>1. Held' = Held
    BY DEF Held
  <1>2. HeapOwned'
    BY <1>1 DEF HeapOwned, drive
  <1>3. Room'
    <2>1. Capacity' = Capacity
      BY SameTable
    <2> QED
      BY <2>1 DEF Room, SizeAt
  <1> QED
    BY <1>2, <1>3

LEMMA ReadStep ==
  ASSUME IInv, Read
  PROVE  IInv'
  <1>1. /\ pc = "read" /\ pc' = "left" /\ li' = 0 /\ UNCHANGED <<drive, heap, part, ri>>
        /\ arr' = [i \in 0 .. (N - 1) |-> [type |-> table[i], from |-> i]]
    BY DEF Read
  <1>2. HeapOwned /\ TypeOK /\ Room
    BY DEF IInv
  <1>3. HeapOwned' /\ Room'
    BY <1>1, <1>2, SameHeap
  <1>4. N \in Nat /\ table \in [0 .. (N - 1) -> Types \cup {NOTYPE}] /\ DOMAIN table = 0 .. (N - 1)
    BY IInvFacts
  <1>5. arr' \in [0 .. (N - 1) -> Entry] /\ DOMAIN arr' = 0 .. (N - 1)
    BY <1>1, <1>4 DEF Entry
  <1>6. TypeOK'
    BY <1>1, <1>2, <1>4, <1>5 DEF TypeOK, drive, N
  <1>7. Pointing'
    BY <1>1, <1>5 DEF Pointing, drive, N
  <1>8. SameEntries'
    <2>1. \A i \in 0 .. (N - 1) : arr'[i] = [type |-> table[i], from |-> i] /\ arr'[i].type = table[i]
      BY <1>1
    <2>2. {arr'[i] : i \in {j \in DOMAIN arr' : arr'[j].type # NOTYPE}} =
          {[type |-> table[k], from |-> k] : k \in {j \in DOMAIN table : table[j] # NOTYPE}}
      BY <1>4, <1>5, <2>1
    <2>3. \A i, j \in DOMAIN arr' : i < j => arr'[i].from < arr'[j].from
      BY <1>5, <2>1
    <2> QED
      BY <1>1, <2>2, <2>3 DEF SameEntries, Used, drive
  <1>9. Reached'
    <2>1. Capacity \in Nat /\ hdr.entry_size \in Nat /\ Capacity' = Capacity /\ hdr' = hdr
      BY <1>1, IInvFacts, SameTable
    <2>2. 0 * hdr.entry_size = 0
      BY <2>1
    <2> QED
      BY <1>1, <2>1, <2>2 DEF Reached
  <1> QED
    BY <1>3, <1>6, <1>7, <1>8, <1>9 DEF IInv

LEMMA ReadFailsStep ==
  ASSUME IInv, ReadFails
  PROVE  IInv'
  <1>1. pc = "read" /\ pc' = "free array" /\ UNCHANGED <<drive, heap, part, arr, li, ri>>
    BY DEF ReadFails
  <1>2. HeapOwned' /\ Room'
    BY <1>1, SameHeap DEF IInv
  <1>3. TypeOK'
    BY <1>1 DEF IInv, TypeOK, drive, N
  <1> QED
    BY <1>1, <1>2, <1>3 DEF IInv, Reached, Pointing, Loaded

LEMMA FreeArrayStep ==
  ASSUME IInv, FreeArray
  PROVE  IInv'
  <1>1. /\ pc = "free array" /\ pc' = "free struct" /\ heap' = Free(heap, part.array)
        /\ UNCHANGED <<drive, part, arr, li, ri>>
    BY DEF FreeArray
  <1>2. /\ HeapOwned /\ TypeOK /\ Room /\ Held = {part.at} \cup {part.array}
        /\ part.at # part.array
    BY <1>1 DEF IInv, HeapOwned, Held
  <1>3. Held' = Held \ {part.array}
    BY <1>1, <1>2 DEF Held
  <1>4. Holding(Free(heap, part.array), before, Held \ {part.array})
    BY <1>2, HoldingFree DEF HeapOwned
  <1>5. HeapOwned'
    BY <1>1, <1>2, <1>3, <1>4 DEF HeapOwned, drive
  <1>6. TypeOK'
    BY <1>1, <1>2, <1>5, HeapTyped DEF TypeOK, HeapOwned, drive, N
  <1> QED
    BY <1>1, <1>2, <1>5, <1>6 DEF IInv, Room, Reached, Pointing, Loaded, drive, N

LEMMA FreeStructStep ==
  ASSUME IInv, FreeStruct
  PROVE  IInv'
  <1>1. /\ pc = "free struct" /\ pc' = "failed" /\ heap' = Free(heap, part.at)
        /\ UNCHANGED <<drive, part, arr, li, ri>>
    BY DEF FreeStruct
  <1>2. HeapOwned /\ TypeOK /\ Room /\ Held = {part.at}
    BY <1>1 DEF IInv, HeapOwned, Held
  <1>3. Held' = Held \ {part.at}
    BY <1>1, <1>2 DEF Held
  <1>4. Holding(Free(heap, part.at), before, Held \ {part.at})
    BY <1>2, HoldingFree DEF HeapOwned
  <1>5. HeapOwned'
    BY <1>1, <1>2, <1>3, <1>4 DEF HeapOwned, drive
  <1>6. TypeOK'
    BY <1>1, <1>2, <1>5, HeapTyped DEF TypeOK, HeapOwned, drive, N
  <1> QED
    BY <1>1, <1>2, <1>5, <1>6 DEF IInv, Room, Reached, Pointing, Loaded, drive, N

LEMMA LeftStep ==
  ASSUME IInv, Left
  PROVE  IInv'
  <1>1. /\ pc = "left" /\ Inside(li) /\ UNCHANGED <<drive, heap, part, arr>>
        /\ \/ li < N /\ Used(li) /\ li' = li + 1 /\ UNCHANGED <<ri, pc>>
           \/ ~(li < N /\ Used(li)) /\ ri' = li /\ pc' = "right" /\ UNCHANGED li
    BY DEF Left, PassLeft
  <1>2. HeapOwned' /\ Room'
    BY <1>1, SameHeap DEF IInv
  <1>3. li' \in 0 .. N /\ ri' \in 0 .. N
    BY <1>1, IInvFacts
  <1>4. TypeOK'
    BY <1>1, <1>3 DEF IInv, TypeOK, drive, N
  <1>5. Pointing'
    <2>1. CASE li < N /\ Used(li) /\ li' = li + 1 /\ UNCHANGED <<ri, pc>>
      <3>1. \A i \in 0 .. (li' - 1) : i \in 0 .. (li - 1) \/ i = li
        BY <2>1, IInvFacts
      <3> QED
        BY <1>1, <2>1, <3>1 DEF IInv, Pointing, Loaded, Used, drive, N
    <2>2. CASE ~(li < N /\ Used(li)) /\ ri' = li /\ pc' = "right" /\ UNCHANGED li
      <3>1. li <= ri' /\ \A i \in li .. (ri' - 1) : FALSE
        BY <2>2, IInvFacts
      <3> QED
        BY <1>1, <2>2, <3>1 DEF IInv, Pointing, Loaded, Used, drive, N
    <2> QED
      BY <1>1, <2>1, <2>2
  <1>6. SameEntries'
    BY <1>1 DEF IInv, Loaded, SameEntries, Used, drive
  <1>7. Reached'
    <2>1. hdr' = hdr /\ Capacity' = Capacity /\ li * hdr.entry_size <= Capacity
      BY <1>1, SameTable DEF IInv, Reached
    <2>2. CASE li < N /\ Used(li) /\ li' = li + 1 /\ UNCHANGED <<ri, pc>>
      <3>1. (li + 1) * hdr.entry_size <= Capacity
        BY <1>1, <2>2 DEF Inside
      <3> QED
        BY <1>1, <2>1, <2>2, <3>1 DEF Reached
    <2>3. CASE ~(li < N /\ Used(li)) /\ ri' = li /\ pc' = "right" /\ UNCHANGED li
      BY <2>1, <2>3 DEF Reached
    <2> QED
      BY <1>1, <2>2, <2>3
  <1> QED
    BY <1>2, <1>4, <1>5, <1>6, <1>7 DEF IInv

LEMMA RightStep ==
  ASSUME IInv, Right
  PROVE  IInv'
  <1>1. /\ pc = "right" /\ Inside(ri) /\ UNCHANGED <<drive, heap, part, arr, li>>
        /\ \/ ri < N /\ ~Used(ri) /\ ri' = ri + 1 /\ UNCHANGED pc
           \/ /\ ~(ri < N /\ ~Used(ri)) /\ UNCHANGED ri
              /\ pc' = IF li < N /\ ri < N THEN "move" ELSE "trim"
    BY DEF Right, PassRight
  <1>2. HeapOwned' /\ Room'
    BY <1>1, SameHeap DEF IInv
  <1>3. ri' \in 0 .. N
    BY <1>1, IInvFacts
  <1>4. TypeOK'
    BY <1>1, <1>3 DEF IInv, TypeOK, drive, N
  <1>5. Pointing'
    <2>1. CASE ri < N /\ ~Used(ri) /\ ri' = ri + 1 /\ UNCHANGED pc
      <3>1. \A i \in li .. (ri' - 1) : i \in li .. (ri - 1) \/ i = ri
        BY <2>1, IInvFacts
      <3>2. li <= ri'
        BY <1>1, <2>1, IInvFacts DEF IInv, Pointing
      <3> QED
        BY <1>1, <2>1, <3>1, <3>2 DEF IInv, Pointing, Loaded, Used, drive, N
    <2>2. CASE /\ ~(ri < N /\ ~Used(ri)) /\ UNCHANGED ri
               /\ pc' = IF li < N /\ ri < N THEN "move" ELSE "trim"
      <3>1. pc' = "trim" => li = N \/ ri = N
        BY <2>2, IInvFacts
      <3> QED
        BY <1>1, <2>2, <3>1 DEF IInv, Pointing, Loaded, Used, drive, N
    <2> QED
      BY <1>1, <2>1, <2>2
  <1>6. SameEntries'
    BY <1>1 DEF IInv, Loaded, SameEntries, Used, drive
  <1>7. Reached'
    <2>1. /\ hdr' = hdr /\ Capacity' = Capacity /\ li * hdr.entry_size <= Capacity
          /\ ri * hdr.entry_size <= Capacity
      BY <1>1, SameTable DEF IInv, Reached
    <2>2. CASE ri < N /\ ~Used(ri) /\ ri' = ri + 1 /\ UNCHANGED pc
      <3>1. (ri + 1) * hdr.entry_size <= Capacity
        BY <1>1, <2>2 DEF Inside
      <3> QED
        BY <1>1, <2>1, <2>2, <3>1 DEF Reached
    <2>3. CASE /\ ~(ri < N /\ ~Used(ri)) /\ UNCHANGED ri
               /\ pc' = IF li < N /\ ri < N THEN "move" ELSE "trim"
      <3>1. pc' = "move" => (ri + 1) * hdr.entry_size <= Capacity
        BY <1>1, <2>3 DEF Inside
      <3> QED
        BY <1>1, <2>1, <2>3, <3>1 DEF Reached
    <2> QED
      BY <1>1, <2>2, <2>3
  <1> QED
    BY <1>2, <1>4, <1>5, <1>6, <1>7 DEF IInv

\* The pointer that leaves the block is before the table's end.
LEMMA LeaveBlockStep ==
  ASSUME IInv, LeaveBlock
  PROVE  IInv'
  <1>1. /\ UNCHANGED <<drive, heap, part, arr, li, ri>> /\ pc' = "beyond"
        /\ \/ pc = "left" /\ ~Inside(li)
           \/ pc = "right" /\ ~Inside(ri)
    BY DEF LeaveBlock
  <1>2. HeapOwned' /\ Room'
    BY <1>1, SameHeap DEF IInv
  <1>3. TypeOK'
    BY <1>1 DEF IInv, TypeOK, drive, N
  <1>4. Reached'
    <2>1. PICK i \in {li, ri} : ~Inside(i)
      BY <1>1
    <2>2. i \in Nat /\ N \in Nat /\ hdr.entry_size \in Nat /\ Capacity \in Nat
      BY <2>1, IInvFacts
    <2>3. i < N /\ ~((i + 1) * hdr.entry_size <= Capacity)
      BY <2>1 DEF Inside
    <2>4. (i + 1) * hdr.entry_size \in Nat /\ (i + 1) * hdr.entry_size <= N * hdr.entry_size
      BY <2>2, <2>3, EntryEnds
    <2>5. N * hdr.entry_size \in Nat
      BY <2>2
    <2>6. ~(N * hdr.entry_size <= Capacity)
      BY <2>2, <2>3, <2>4, <2>5
    <2> QED
      BY <1>1, <2>6, SameTable DEF Reached
  <1> QED
    BY <1>1, <1>2, <1>3, <1>4 DEF IInv, Pointing, Loaded

\* The right entry takes the place of the left one; all between are unused.
LEMMA MoveStep ==
  ASSUME IInv, Move
  PROVE  IInv'
  <1>1. /\ pc = "move" /\ pc' = "left" /\ UNCHANGED <<drive, heap, part, li, ri>>
        /\ arr' = [arr EXCEPT ![li] = arr[ri], ![ri] = Erased]
    BY DEF Move, Moved
  <1>2. /\ DOMAIN arr = 0 .. (N - 1) /\ li < N /\ ri < N /\ li <= ri
        /\ Used(ri) /\ ~Used(li) /\ \A i \in li .. (ri - 1) : ~Used(i)
        /\ \A i \in 0 .. (li - 1) : Used(i)
    BY <1>1 DEF IInv, Pointing, Loaded
  <1>3. /\ N \in Nat /\ li \in Nat /\ ri \in Nat /\ li < ri
        /\ li \in DOMAIN arr /\ ri \in DOMAIN arr /\ arr \in [DOMAIN arr -> Entry]
    <2>1. N \in Nat /\ li \in Nat /\ ri \in Nat /\ arr \in [DOMAIN arr -> Entry]
      BY IInvFacts
    <2>2. li # ri
      BY <1>2
    <2> QED
      BY <1>2, <2>1, <2>2
  <1>4. Erased \in Entry /\ Erased.type = NOTYPE
    BY DEF Erased, Entry
  <1>5. /\ DOMAIN arr' = DOMAIN arr /\ arr'[li] = arr[ri] /\ arr'[ri] = Erased
        /\ \A i \in DOMAIN arr : i # li /\ i # ri => arr'[i] = arr[i]
    BY <1>1, <1>3
  <1>6. arr' \in [DOMAIN arr' -> Entry]
    <2>1. arr[ri] \in Entry
      BY <1>3
    <2> QED
      BY <1>1, <1>3, <1>4, <2>1
  <1>7. TypeOK'
    BY <1>1, <1>6 DEF IInv, TypeOK, drive, N
  <1>8. HeapOwned' /\ Room'
    BY <1>1, SameHeap DEF IInv
  <1>9. Pointing'
    <2>1. \A i \in 0 .. (li - 1) : i \in DOMAIN arr /\ i # li /\ i # ri
      BY <1>2, <1>3
    <2> QED
      BY <1>1, <1>2, <1>5, <2>1 DEF Pointing, Loaded, Used, drive, N
  <1>10. SameEntries'
    <2>1. SameEntries
      BY <1>1 DEF IInv, Loaded
    <2>2. \A i \in DOMAIN arr : arr'[i].type # NOTYPE =>
            /\ i = li \/ (i # ri /\ Used(i) /\ arr'[i] = arr[i])
            /\ arr'[i].type # NOTYPE
      BY <1>4, <1>5 DEF Used
    <2>3. arr'[li].type # NOTYPE
      BY <1>2, <1>5 DEF Used
    <2>4. \A i \in DOMAIN arr : Used(i) => i = ri \/ (i # li /\ arr'[i] = arr[i])
      BY <1>2, <1>5
    <2>5. {arr'[i] : i \in {j \in DOMAIN arr' : arr'[j].type # NOTYPE}} =
          {arr[i] : i \in {j \in DOMAIN arr : Used(j)}}
      <3>1. ASSUME NEW i \in DOMAIN arr, arr'[i].type # NOTYPE
            PROVE  \E j \in DOMAIN arr : Used(j) /\ arr'[i] = arr[j]
        BY <1>2, <1>3, <1>5, <2>2, <3>1
      <3>2. ASSUME NEW i \in DOMAIN arr, Used(i)
            PROVE  \E j \in DOMAIN arr : arr'[j].type # NOTYPE /\ arr[i] = arr'[j]
        BY <1>3, <1>5, <2>3, <2>4, <3>2 DEF Used
      <3> QED
        BY <1>5, <3>1, <3>2
    <2>6. ASSUME NEW i \in DOMAIN arr, NEW j \in DOMAIN arr, i < j,
                 arr'[i].type # NOTYPE, arr'[j].type # NOTYPE
          PROVE  arr'[i].from < arr'[j].from
      <3>1. i \in Nat /\ j \in Nat
        BY <1>2
      <3>2. CASE i = li
        <4>1. j # li /\ j # ri /\ Used(j) /\ arr'[j] = arr[j]
          BY <2>2, <2>6, <3>1, <3>2
        <4>2. ~(j \in li .. (ri - 1))
          BY <1>2, <4>1
        <4>3. ri < j
          BY <1>3, <2>6, <3>1, <3>2, <4>1, <4>2
        <4> QED
          BY <1>2, <1>3, <1>5, <2>1, <3>2, <4>1, <4>3 DEF SameEntries
      <3>3. CASE j = li
        <4>1. i # li /\ i # ri /\ Used(i) /\ arr'[i] = arr[i]
          BY <2>2, <2>6, <3>1, <3>3
        <4>2. i < ri
          BY <1>3, <2>6, <3>1, <3>3
        <4> QED
          BY <1>2, <1>3, <1>5, <2>1, <3>3, <4>1, <4>2 DEF SameEntries
      <3>4. CASE i # li /\ j # li
        <4>1. Used(i) /\ Used(j) /\ arr'[i] = arr[i] /\ arr'[j] = arr[j]
          BY <2>2, <2>6, <3>4
        <4> QED
          BY <2>1, <2>6, <4>1 DEF SameEntries
      <3> QED
        BY <3>2, <3>3, <3>4
    <2> QED
      BY <1>1, <1>5, <2>1, <2>5, <2>6, SMTT(30) DEF SameEntries, Used, drive
  <1>11. Reached'
    BY <1>1, SameTable DEF IInv, Reached
  <1> QED
    BY <1>7, <1>8, <1>9, <1>10, <1>11 DEF IInv

\* realloc to the entries in use keeps the block in place.
LEMMA Trimmed ==
  ASSUME IInv, pc = "trim", NEW a, a = Realloc(heap, part.array, TrimSize)
  PROVE  /\ a.ptr = part.array
         /\ Holding(a.heap, before, Held)
         /\ SizeAt(a.heap, part.array) >= TrimSize
         /\ TrimSize \in Nat
         /\ N * hdr.entry_size <= Capacity
  <1>1. /\ HeapOwned /\ Room /\ Held = {part.at} \cup {part.array}
        /\ Align16(Capacity) <= SizeAt(heap, part.array)
    BY DEF IInv, Held, Room
  <1>2. /\ N \in Nat /\ hdr.entry_size \in Nat /\ N * hdr.entry_size \in Nat
        /\ li \in Nat /\ li <= N /\ Capacity \in Nat
    BY IInvFacts
  <1>6. N * hdr.entry_size <= Capacity
    <2>1. li = N \/ ri = N
      BY DEF IInv, Pointing
    <2>2. li * hdr.entry_size <= Capacity /\ ri * hdr.entry_size <= Capacity
      BY DEF IInv, Reached
    <2> QED
      BY <2>1, <2>2, Zenon
  <1>3. TrimSize \in Nat /\ TrimSize <= Capacity
    <2>1. li * hdr.entry_size \in Nat /\ li * hdr.entry_size <= N * hdr.entry_size
      BY <1>2, Grows
    <2> QED
      BY <1>2, <1>6, <2>1 DEF TrimSize
  <1>4. Align16(TrimSize) <= SizeAt(heap, part.array)
    <2>1. part.array \in Pointers(heap) /\ SoundHeap(heap)
      BY <1>1 DEF HeapOwned, Holding
    <2>2. SizeAt(heap, part.array) \in Nat
      BY <2>1, PointerFacts
    <2>3. Align16(TrimSize) <= Align16(Capacity)
      BY <1>2, <1>3, AlignGrows
    <2>4. Align16(TrimSize) \in Nat /\ Align16(Capacity) \in Nat
      BY <1>2, <1>3, AlignFacts
    <2> QED
      BY <1>1, <2>2, <2>3, <2>4
  <1>5. part.array \in Held
    BY <1>1
  <1> QED
    BY <1>1, <1>3, <1>4, <1>5, <1>6, HoldingShrink DEF HeapOwned

LEMMA TrimStep ==
  ASSUME IInv, Trim
  PROVE  IInv'
  <1> DEFINE a == Realloc(heap, part.array, TrimSize)
  <1>1. /\ pc = "trim" /\ pc' = "done" /\ UNCHANGED <<drive, li, ri>> /\ heap' = a.heap
        /\ part' = [part EXCEPT !.array = a.ptr, !.count = li]
        /\ arr' = [i \in 0 .. (li - 1) |-> arr[i]]
    BY DEF Trim
  <1>2. /\ a.ptr = part.array /\ Holding(a.heap, before, Held)
        /\ SizeAt(a.heap, part.array) >= TrimSize /\ TrimSize \in Nat
        /\ N * hdr.entry_size <= Capacity
    BY <1>1, Trimmed
  <1> HIDE DEF a
  <1>3. /\ N \in Nat /\ li \in Nat /\ li <= N
        /\ part \in [at : Nat, array : Nat, count : 0 .. N]
        /\ arr \in [DOMAIN arr -> Entry] /\ DOMAIN arr = 0 .. (N - 1)
    BY <1>1, IInvFacts DEF IInv, Pointing
  <1>4. /\ part' \in [at : Nat, array : Nat, count : 0 .. N]
        /\ part'.at = part.at /\ part'.array = part.array /\ part'.count = li
    <2>1. part' = [part EXCEPT !.array = part.array, !.count = li]
      BY <1>1, <1>2
    <2>2. li \in 0 .. N /\ part.array \in Nat /\ part \in [at : Nat, array : Nat, count : 0 .. N]
      BY <1>3
    <2> QED
      BY <2>1, <2>2
  <1>5. HeapOwned'
    <2>1. Held' = Held
      BY <1>1, <1>4 DEF Held
    <2> QED
      BY <1>1, <1>2, <1>4, <2>1 DEF IInv, HeapOwned, drive
  <1>6. Room'
    <2>1. SizeAt(a.heap, part.array) \in Nat
      <3>1. SoundHeap(a.heap) /\ part.array \in Pointers(a.heap)
        BY <1>1, <1>2 DEF Holding, Held
      <3> QED
        BY <3>1, PointerFacts
    <2>2. hdr.entry_size * li <= SizeAt(a.heap, part.array)
      BY <1>2, <2>1 DEF TrimSize
    <2>3. hdr'.entry_size * li' <= SizeAt(heap', part'.array)
      BY <1>1, <1>4, <2>2 DEF drive
    <2> QED
      BY <1>1, <1>4, <2>3 DEF IInv, Room, drive, N
  <1>7. 0 .. (li - 1) \subseteq DOMAIN arr
    BY <1>3
  <1>8. DOMAIN arr' = 0 .. (li - 1) /\ \A i \in 0 .. (li - 1) : arr'[i] = arr[i]
    BY <1>1
  <1>9. TypeOK'
    <2>1. arr' \in [DOMAIN arr' -> Entry]
      BY <1>1, <1>3, <1>7
    <2> QED
      BY <1>1, <1>4, <1>5, <2>1, HeapTyped DEF IInv, TypeOK, HeapOwned, drive, N
  <1>10. Pointing'
    BY <1>1, <1>8 DEF IInv, Pointing, Loaded, Used
  <1>11. \A i \in DOMAIN arr : Used(i) <=> i \in 0 .. (li - 1)
    <2>1. \A i \in 0 .. (li - 1) : Used(i)
      BY <1>1 DEF IInv, Pointing, Loaded
    <2>2. /\ li <= ri /\ ri \in Nat /\ (li = N \/ ri = N)
          /\ \A i \in li .. (ri - 1) : ~Used(i)
      BY <1>1, IInvFacts DEF IInv, Pointing
    <2>3. ASSUME NEW i \in DOMAIN arr, i \notin 0 .. (li - 1) PROVE ~Used(i)
      <3>1. i \in li .. (ri - 1)
        BY <1>3, <2>2, <2>3
      <3> QED
        BY <2>2, <3>1
    <2> QED
      BY <2>1, <2>3
  <1>12. SameEntries'
    <2>1. SameEntries
      BY <1>1 DEF IInv, Loaded
    <2>2. {arr'[i] : i \in {j \in DOMAIN arr' : arr'[j].type # NOTYPE}} =
          {arr[i] : i \in {j \in DOMAIN arr : Used(j)}}
      BY <1>7, <1>8, <1>11 DEF Used
    <2>3. \A i, j \in DOMAIN arr' :
            arr'[i].type # NOTYPE /\ arr'[j].type # NOTYPE /\ i < j => arr'[i].from < arr'[j].from
      BY <1>7, <1>8, <2>1 DEF SameEntries, Used
    <2> QED
      BY <1>1, <2>1, <2>2, <2>3, ZenonT(60) DEF SameEntries, Used, drive
  <1>13. Reached'
    BY <1>1, <1>2, SameTable DEF Reached
  <1> QED
    BY <1>5, <1>6, <1>9, <1>10, <1>12, <1>13 DEF IInv

\* IInv is an invariant of get_partition_array.
THEOREM Invariance == Spec => []IInv
  <1>1. Init => IInv
    BY InitIInv
  <1>2. IInv /\ [Next]_vars => IInv'
    <2> SUFFICES ASSUME IInv, [Next]_vars PROVE IInv'
      OBVIOUS
    <2>1. CASE AllocateStruct
      BY <2>1, AllocateStructStep
    <2>2. CASE AllocateArray
      BY <2>2, AllocateArrayStep
    <2>3. CASE Read
      BY <2>3, ReadStep
    <2>4. CASE ReadFails
      BY <2>4, ReadFailsStep
    <2>5. CASE FreeArray
      BY <2>5, FreeArrayStep
    <2>6. CASE FreeStruct
      BY <2>6, FreeStructStep
    <2>7. CASE Left
      BY <2>7, LeftStep
    <2>8. CASE Right
      BY <2>8, RightStep
    <2>9. CASE Move
      BY <2>9, MoveStep
    <2>10. CASE Trim
      BY <2>10, TrimStep
    <2>11. CASE UNCHANGED vars
      <3>1. TypeOK' /\ Held' = Held /\ (Loaded => SameEntries)'
        BY <2>11, Zenon DEF IInv, TypeOK, Held, Loaded, SameEntries, Used, vars, N
      <3>2. HeapOwned'
        BY <2>11, <3>1 DEF IInv, HeapOwned, vars
      <3>3. Capacity' = Capacity /\ hdr' = hdr /\ N' = N
        BY <2>11, SameTable DEF vars, drive
      <3>4. Room' /\ Reached' /\ Pointing'
        BY <2>11, <3>3 DEF IInv, Room, Reached, Pointing, Loaded, Used, SizeAt, vars
      <3> QED
        BY <3>1, <3>2, <3>4 DEF IInv
    <2>12. CASE LeaveBlock
      BY <2>12, LeaveBlockStep
    <2> QED
      BY <2>1, <2>2, <2>3, <2>4, <2>5, <2>6, <2>7, <2>8, <2>9, <2>10, <2>11, <2>12
            DEF Next, Returned
  <1> QED
    BY <1>1, <1>2, PTL DEF Spec

\* The pointers, the entries and the counters keep their types.
THEOREM TypeCorrect == Spec => []TypeOK
  <1>1. IInv => TypeOK
    BY DEF IInv
  <1> QED
    BY <1>1, Invariance, PTL

\* No entry is moved or handed out that lies outside the block, and none looked at
\* unless a word cannot count the table's sectors; the realloc at the end never
\* fails, and a call that fails leaves the heap as it found it.
THEOREM StaysInBlock == Spec => []MemorySafe
  <1>1. IInv => MemorySafe
    <2> SUFFICES ASSUME IInv PROVE MemorySafe
      OBVIOUS
    <2>1. /\ N * hdr.entry_size \in Nat /\ SoundHeap(before) /\ Holding(heap, before, Held)
          /\ part \in [at : Nat, array : Nat, count : 0 .. N]
          /\ li \in Nat /\ ri \in Nat /\ hdr.entry_size \in Nat /\ Capacity \in Nat
          /\ (Counted <=> N * hdr.entry_size <= Capacity)
      BY IInvFacts, CapacityFacts
    <2>2. ASSUME pc \in {"left", "right", "move", "trim", "done"}
          PROVE  SizeAt(heap, part.array) \in Nat /\ part.array \in Nat \ {NULL}
      <3>1. SoundHeap(heap) /\ part.array \in Pointers(heap)
        BY <2>1, <2>2 DEF Holding, Held
      <3> QED
        BY <3>1, PointerFacts
    <2>3. ASSUME pc \in {"left", "right", "move", "trim"}
          PROVE  Capacity <= SizeAt(heap, part.array)
      <3>1. Align16(Capacity) <= SizeAt(heap, part.array)
        BY <2>3 DEF IInv, Room
      <3>2. Capacity <= Align16(Capacity) /\ Align16(Capacity) \in Nat
        BY <2>1, AlignFacts
      <3> QED
        BY <2>1, <2>2, <2>3, <3>1, <3>2
    <2>4. ASSUME pc = "done" PROVE part.count * hdr.entry_size <= SizeAt(heap, part.array)
      <3>1. hdr.entry_size * li <= SizeAt(heap, part.array) /\ part.count = li
        BY <2>4 DEF IInv, Room
      <3>2. li * hdr.entry_size = hdr.entry_size * li
        BY <2>1
      <3> QED
        BY <3>1, <3>2
    <2>5. InBounds
      <3>1. ASSUME pc \in {"left", "right", "move", "trim"}, Counted
            PROVE  N * hdr.entry_size <= SizeAt(heap, part.array)
        BY <2>1, <2>2, <2>3, <3>1
      <3>2. ASSUME pc = "move" PROVE (ri + 1) * hdr.entry_size <= SizeAt(heap, part.array)
        <4>1. (ri + 1) * hdr.entry_size <= Capacity /\ (ri + 1) * hdr.entry_size \in Nat
          BY <2>1, <3>2 DEF IInv, Reached
        <4> QED
          BY <2>1, <2>2, <2>3, <3>2, <4>1
      <3>3. ASSUME pc = "trim" PROVE Counted
        BY <2>1, <3>3, Trimmed
      <3>4. (pc = "done" => Counted) /\ (pc = "beyond" => ~Counted)
        BY <2>1 DEF IInv, Reached
      <3> QED
        BY <2>4, <3>1, <3>2, <3>3, <3>4 DEF InBounds, SizeAt
    <2>6. TrimSafe
      <3> SUFFICES ASSUME pc = "trim" PROVE Realloc(heap, part.array, TrimSize).ptr # NULL
        BY DEF TrimSafe
      <3>1. Realloc(heap, part.array, TrimSize).ptr = part.array
        BY Trimmed
      <3> QED
        BY <2>2, <3>1
    <2>7. ASSUME pc = "failed" PROVE heap = before
      <3>1. Held = {}
        BY <2>7 DEF Held
      <3> QED
        BY <2>1, <3>1, HoldingReturned
    <2> QED
      BY <2>5, <2>6, <2>7 DEF MemorySafe
  <1> QED
    BY <1>1, Invariance, PTL

\* The first of the filtered entries with a type is the first on the drive.
LEMMA FoundFirst ==
  ASSUME IInv, pc = "done"
  PROVE  FindsFirst
  <1> SUFFICES ASSUME NEW t \in Types
               PROVE  LET first == {k \in DOMAIN table : table[k] = t}
                      IN  IF first = {} THEN find_partition(t) = << >>
                          ELSE /\ find_partition(t) # << >>
                               /\ arr[find_partition(t)[1]].from = Min(first)
    BY DEF FindsFirst
  <1> DEFINE first == {k \in DOMAIN table : table[k] = t}
             found == {i \in 0 .. (part.count - 1) : arr[i].type = t}
  <1>1. /\ SameEntries /\ part.count = li /\ DOMAIN arr = 0 .. (part.count - 1)
        /\ DOMAIN table = 0 .. (N - 1) /\ t # NOTYPE
    BY IInvFacts DEF IInv, Loaded, Room, Pointing
  <1>2. ASSUME NEW i \in found
        PROVE  arr[i].from \in first
    <2>1. i \in DOMAIN arr /\ Used(i) /\ arr[i].type = t
      BY <1>1 DEF Used
    <2>2. PICK k \in DOMAIN table : arr[i] = [type |-> table[k], from |-> k]
      BY <1>1, <2>1 DEF SameEntries
    <2> QED
      BY <2>1, <2>2
  <1>3. ASSUME NEW k \in first
        PROVE  \E i \in found : arr[i].from = k
    <2>1. k \in DOMAIN table /\ table[k] = t /\ table[k] # NOTYPE
      BY <1>1
    <2>2. PICK i \in DOMAIN arr : arr[i] = [type |-> table[k], from |-> k]
      BY <1>1, <2>1 DEF SameEntries
    <2>3. arr[i].type = t /\ arr[i].from = k
      BY <2>1, <2>2
    <2> QED
      BY <1>1, <2>3
  <1>4. found \subseteq Nat /\ first \subseteq Nat /\ found \subseteq DOMAIN arr
    BY <1>1
  <1>5. find_partition(t) = IF found = {} THEN << >> ELSE <<Min(found)>>
    BY DEF find_partition
  <1>6. \A i \in found, j \in found : i < j => arr[i].from < arr[j].from
    BY <1>1, <1>4 DEF SameEntries, Used
  <1> HIDE DEF found, first
  <1>7. CASE first = {}
    BY <1>2, <1>5, <1>7 DEF first
  <1>8. CASE first # {}
    <2>1. found # {}
      BY <1>3, <1>8
    <2>2. Min(found) \in found /\ \A i \in found : Min(found) <= i
      BY <1>4, <2>1, LeastExists
    <2>3. Min(first) \in first /\ \A k \in first : Min(first) <= k
      BY <1>4, <1>8, LeastExists
    <2>4. find_partition(t) = <<Min(found)>>
      BY <1>5, <2>1
    <2>5. find_partition(t) # << >> /\ find_partition(t)[1] = Min(found)
      BY <2>4
    <2>6. arr[Min(found)].from \in first
      BY <1>2, <2>2
    <2>7. PICK i \in found : arr[i].from = Min(first)
      BY <1>3, <2>3
    <2>8. /\ Min(found) \in Nat /\ i \in Nat /\ Min(found) <= i
          /\ arr[Min(found)].from \in Nat /\ Min(first) \in Nat
          /\ Min(first) <= arr[Min(found)].from
      BY <1>4, <2>2, <2>3, <2>6
    <2>9. arr[Min(found)].from = Min(first)
      <3>1. CASE Min(found) = i
        BY <2>7, <3>1
      <3>2. CASE Min(found) # i
        <4>1. Min(found) < i
          BY <2>8, <3>2
        <4>2. arr[Min(found)].from < arr[i].from
          BY <1>6, <2>2, <4>1
        <4> QED
          BY <2>7, <2>8, <4>2
      <3> QED
        BY <3>1, <3>2
    <2> QED
      BY <1>8, <2>5, <2>9 DEF first
  <1> QED
    BY <1>7, <1>8

\* Compaction loses, doubles and reorders no entry at any point, closes every
\* gap, and a search of its result finds what a search of the drive would.
THEOREM EntriesKept == Spec => []Filtered
  <1>1. IInv => Filtered
    <2> SUFFICES ASSUME IInv PROVE Filtered
      OBVIOUS
    <2>1. ASSUME pc = "done" PROVE \A i \in DOMAIN arr : Used(i)
      BY <2>1 DEF IInv, Pointing, Loaded
    <2> QED
      BY <2>1, FoundFirst DEF IInv, Filtered
  <1> QED
    BY <1>1, Invariance, PTL
=============================================================================
