------------------------------ MODULE BlockList ------------------------------
(***************************************************************************)
(* The block list of the second-stage loader's allocator                   *)
(* (SSL/src/mem.c): the operations of the allocator as operators on a heap *)
(* value, so that Heap (arbitrary callers) and the modules of the loader's *)
(* own callers compose with the same definitions.                          *)
(*                                                                         *)
(* A heap value is a record                                                *)
(*    blocks    : a function from the address of a block header to the     *)
(*                header's fields free, size, next and prev; its domain    *)
(*                is the set of the headers that are on the list;          *)
(*    max_alloc : _mem_ctx.max_alloc.                                      *)
(* Addresses are numbers and NULL is 0, as in the program.  The block size *)
(* granule ALIGN (16 in the program) and the size of a header HDR (16, the *)
(* size of the aligned struct) are parameters.                             *)
(***************************************************************************)
EXTENDS Integers, FiniteSetsExt

CONSTANTS
  ALIGN,      \* the constant 16 of _align16 and of the split threshold
  HDR,        \* sizeof(_block_hdr)
  HeapAddr,   \* &_heap
  HeapSize    \* _heap_size

NULL == 0

\* (val + 15) & -16.  No caller comes near the wrap-around of size_t.
Align16(val) == ((val + (ALIGN - 1)) \div ALIGN) * ALIGN

HeapStart == Align16(HeapAddr)
HeapEnd   == HeapAddr + HeapSize

ASSUME HeapAssumption ==
  /\ ALIGN \in Nat \ {0}
  /\ HDR \in Nat \ {0}
  /\ \E k \in 1 .. HDR : HDR = k * ALIGN
  /\ HeapAddr \in Nat \ {0}
  /\ HeapSize \in Nat
  /\ HeapSize >= HDR + ALIGN

-----------------------------------------------------------------------------
Header(free, size, next, prev) ==
  [free |-> free, size |-> size, next |-> next, prev |-> prev]

\* The first address after block b.
End(B, b) == b + HDR + B[b].size

SetFree(B, b, free) == [B EXCEPT ![b].free = free]

\* Mutant: the block behind the new one keeps its old back link.
AllocateBlockNoBackLink(B, after, size) ==
  LET new == End(B, after)
  IN  [b \in DOMAIN B \cup {new} |->
         IF b = new
         THEN Header(TRUE, size, B[after].next, after)
         ELSE [B[b] EXCEPT !.next = IF b = after THEN new ELSE @]]

\* Link a new free block behind block "after", whose size was just reduced.
AllocateBlock(B, after, size) ==
  LET new  == End(B, after)
      next == B[after].next
  IN  [b \in DOMAIN B \cup {new} |->
         IF b = new
         THEN Header(TRUE, size, next, after)
         ELSE [B[b] EXCEPT !.next = IF b = after THEN new ELSE @,
                           !.prev = IF b = next THEN new ELSE @]]

\* Mutant: the block behind the merged one still points back at it.
MergeBlocksNoBackLink(B, up, down) ==
  [b \in DOMAIN B \ {down} |->
     [B[b] EXCEPT !.size = IF b = up THEN @ + HDR + B[down].size ELSE @,
                  !.next = IF b = up THEN B[down].next ELSE @]]

\* Append block "down" to block "up" and take it off the list.
MergeBlocks(B, up, down) ==
  LET next == B[down].next
  IN  [b \in DOMAIN B \ {down} |->
         [B[b] EXCEPT !.size = IF b = up THEN @ + HDR + B[down].size ELSE @,
                      !.next = IF b = up THEN next ELSE @,
                      !.prev = IF b = next THEN B[down].prev ELSE @]]

\* Mutant: a rest of any size becomes a block.
SplitBlockAlways(B, b, size) ==
  AllocateBlock([B EXCEPT ![b].size = size], b, B[b].size - size - HDR)

\* Cut block b down to size bytes; what is left becomes a block of its own
\* unless it is too small to hold a header and one granule.
SplitBlock(B, b, size) ==
  LET block_left == B[b].size - size
  IN  IF block_left < HDR + ALIGN
      THEN B
      ELSE AllocateBlock([B EXCEPT ![b].size = size], b, block_left - HDR)

\* Mutant: only the first block is looked at.
FindMaxBlockFirst(B) == B[HeapStart].size

\* The size of the largest block, allocated or free.
FindMaxBlock(B) == Max({B[b].size : b \in DOMAIN B})

-----------------------------------------------------------------------------
MemInit ==
  LET size == HeapSize - (HeapStart - HeapAddr) - HDR
  IN  [blocks    |-> [b \in {HeapStart} |-> Header(TRUE, size, NULL, NULL)],
       max_alloc |-> size]

\* Free blocks that hold count bytes.  The list is in address order (Tiled
\* in Heap), so the first one the loop of malloc meets is the lowest.
Fits(B, count) == {b \in DOMAIN B : B[b].free /\ B[b].size >= count}

\* Mutant: the block is handed out but not marked.
TakeBlockUnmarked(B, b, count) == SplitBlock(B, b, count)

TakeBlock(B, b, count) == SplitBlock(SetFree(B, b, FALSE), b, count)

Refused(h) == [ptr |-> NULL, heap |-> h]

Malloc(h, size) ==
  LET count == Align16(size)
      fits  == Fits(h.blocks, count)
      B     == TakeBlock(h.blocks, Min(fits), count)
  IN  IF count > h.max_alloc \/ fits = {}
      THEN Refused(h)
      ELSE [ptr  |-> Min(fits) + HDR,
            heap |-> [blocks |-> B, max_alloc |-> FindMaxBlock(B)]]

\* Mutant: no merge.
MergeNot(B, b) == B

MergePrev(B, b) ==
  LET prev == B[b].prev
  IN  IF prev # NULL /\ B[prev].free THEN MergeBlocks(B, prev, b) ELSE B

MergeNext(B, b) ==
  LET next == B[b].next
  IN  IF next # NULL /\ B[next].free THEN MergeBlocks(B, b, next) ELSE B

\* The block that holds b once b may have been merged into its predecessor.
Holder(B, b) ==
  LET prev == B[b].prev
  IN  IF prev # NULL /\ B[prev].free THEN prev ELSE b

\* Mutant: max_alloc is not raised.
FreeStaleMax(h, ptr) ==
  LET b      == ptr - HDR
      marked == SetFree(h.blocks, b, TRUE)
  IN  [h EXCEPT !.blocks = MergeNext(MergePrev(marked, b), Holder(marked, b))]

Free(h, ptr) ==
  LET b      == ptr - HDR
      marked == SetFree(h.blocks, b, TRUE)
      block  == Holder(marked, b)
      B      == MergeNext(MergePrev(marked, b), block)
  IN  [blocks    |-> B,
       max_alloc |-> IF B[block].size > h.max_alloc THEN B[block].size
                                                    ELSE h.max_alloc]

\* realloc to a smaller size: the block stays in place; when the rest is
\* large enough it becomes a free block, joined with a free successor.
Shrink(h, ptr, new_size) ==
  LET b    == ptr - HDR
      rest == b + HDR + new_size
      B    == MergeNext(SplitBlock(h.blocks, b, new_size), rest)
  IN  IF h.blocks[b].size - new_size < HDR + ALIGN
      THEN h
      ELSE [blocks |-> B, max_alloc |-> FindMaxBlock(B)]

Realloc(h, ptr, size) ==
  LET new_size == Align16(size)
      old_size == h.blocks[ptr - HDR].size
      new      == Malloc(h, new_size)
  IN  CASE old_size > new_size -> [ptr |-> ptr, heap |-> Shrink(h, ptr, new_size)]
        [] old_size < new_size -> IF new.ptr = NULL
                                  THEN Refused(h)
                                  ELSE [ptr  |-> new.ptr,
                                        heap |-> Free(new.heap, ptr)]
        [] OTHER               -> [ptr |-> ptr, heap |-> h]

-----------------------------------------------------------------------------
(***************************************************************************)
(* Well-formed lists.                                                      *)
(***************************************************************************)
Headers(D) == [free : BOOLEAN, size : Nat, next : D \cup {NULL}, prev : D \cup {NULL}]

IsList(B) ==
  /\ DOMAIN B \subseteq HeapStart .. HeapEnd
  /\ B \in [DOMAIN B -> Headers(DOMAIN B)]

\* The links and the sizes agree: the list starts at the start of the heap,
\* every block ends where the next one begins, which points back, and the
\* last one ends at the end of the heap.
Linked(B) ==
  /\ HeapStart \in DOMAIN B
  /\ \A b \in DOMAIN B :
       /\ End(B, b) <= HeapEnd
       /\ B[b].prev = NULL <=> b = HeapStart
       /\ B[b].prev # NULL => B[B[b].prev].next = b
       /\ B[b].next = NULL => End(B, b) = HeapEnd
       /\ B[b].next # NULL => /\ B[b].next = End(B, b)
                              /\ B[B[b].next].prev = b

\* No two blocks share a byte.
Disjoint(B) == \A b, c \in DOMAIN B : b < c => End(B, b) <= c

\* No two neighbours are free.
Separated(B) ==
  \A b \in DOMAIN B : B[b].free /\ B[b].next # NULL => ~B[B[b].next].free

\* n is the size of the largest block.
IsLargest(B, n) ==
  /\ \A b \in DOMAIN B : B[b].size <= n
  /\ \E b \in DOMAIN B : B[b].size = n
=============================================================================
