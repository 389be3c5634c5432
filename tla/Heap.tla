-------------------------------- MODULE Heap --------------------------------
(***************************************************************************)
(* The allocator of the second-stage loader with arbitrary callers.  Each  *)
(* owner holds at most one allocation and asks for sizes from Requests in  *)
(* any order; mem is what the bytes of the heap hold, so that a header     *)
(* written over a live allocation, or a copy that is too short, shows.     *)
(***************************************************************************)
EXTENDS BlockList

CONSTANTS
  Owner,      \* the callers' live pointers
  Requests,   \* sizes passed to malloc and realloc
  HEADER,     \* a byte of a block header
  JUNK        \* a byte no caller may rely on

ASSUME OwnerAssumption ==
  /\ HEADER \notin Owner
  /\ JUNK \notin Owner
  /\ Requests \subseteq Nat

VARIABLES
  heap,       \* _mem_ctx and the block list
  ptr,        \* owner -> the pointer it got, NULL when it holds none
  req,        \* owner -> the bytes it asked for and filled
  mem,        \* address -> an owner, HEADER or JUNK
  refused     \* the size the last call asked for, if it got NULL

vars == <<heap, ptr, req, mem, refused>>

Bytes == HeapAddr .. (HeapEnd - 1)

Live == {o \in Owner : ptr[o] # NULL}

-----------------------------------------------------------------------------
(***************************************************************************)
(* Bytes.                                                                  *)
(***************************************************************************)
InHeader(B, a)  == \E b \in DOMAIN B : a \in b .. (b + HDR - 1)
InFree(B, a)    == \E b \in DOMAIN B : B[b].free /\ a \in (b + HDR) .. (End(B, b) - 1)

\* The allocator stores the headers of list B; a free payload is worthless.
Stored(m, B) == [a \in Bytes |-> IF InHeader(B, a) THEN HEADER
                                 ELSE IF InFree(B, a) THEN JUNK ELSE m[a]]

\* memcpy(to, from, n)
Copied(m, to, from, n) ==
  [a \in Bytes |-> IF a \in to .. (to + n - 1) THEN m[from + (a - to)] ELSE m[a]]

\* Owner o fills positions first to n - 1 of its allocation at p.
Filled(m, p, first, n, o) ==
  [a \in Bytes |-> IF a \in (p + first) .. (p + n - 1) THEN o ELSE m[a]]

\* Mutant: the old block is freed before its bytes are copied.
MovedLate(m, p, n, r) ==
  IF r.ptr = p
  THEN Stored(m, r.heap.blocks)
  ELSE Copied(Stored(m, r.heap.blocks), r.ptr, p, heap.blocks[p - HDR].size)

\* The bytes after realloc, which copies before it frees the old block.
Moved(m, p, n, r) ==
  LET b == p - HDR
  IN  IF r.ptr = p
      THEN Stored(m, r.heap.blocks)
      ELSE Stored(Copied(Stored(m, Malloc(heap, Align16(n)).heap.blocks),
                         r.ptr, p, heap.blocks[b].size), r.heap.blocks)

-----------------------------------------------------------------------------
Init ==
  /\ heap = MemInit
  /\ ptr  = [o \in Owner |-> NULL]
  /\ req  = [o \in Owner |-> 0]
  /\ mem  = Stored([a \in Bytes |-> JUNK], MemInit.blocks)
  /\ refused = {}

Accepted(o, n, r, m, kept) ==
  /\ r.ptr # NULL
  /\ heap' = r.heap
  /\ ptr'  = [ptr EXCEPT ![o] = r.ptr]
  /\ req'  = [req EXCEPT ![o] = n]
  /\ mem'  = Filled(m, r.ptr, kept, n, o)
  /\ refused' = {}

Rejected(n, r) ==
  /\ r.ptr = NULL
  /\ heap' = r.heap
  /\ refused' = {n}
  /\ UNCHANGED <<ptr, req, mem>>

DoMalloc(o, n) ==
  /\ ptr[o] = NULL
  /\ LET r == Malloc(heap, n)
     IN  Accepted(o, n, r, Stored(mem, r.heap.blocks), 0) \/ Rejected(n, r)

DoRealloc(o, n) ==
  /\ ptr[o] # NULL
  /\ LET r == Realloc(heap, ptr[o], n)
     IN  Accepted(o, n, r, Moved(mem, ptr[o], n, r), req[o]) \/ Rejected(n, r)

DoFree(o) ==
  /\ ptr[o] # NULL
  /\ heap' = Free(heap, ptr[o])
  /\ ptr'  = [ptr EXCEPT ![o] = NULL]
  /\ req'  = [req EXCEPT ![o] = 0]
  /\ mem'  = Stored(mem, heap'.blocks)
  /\ refused' = {}

Next ==
  \E o \in Owner :
    \/ \E n \in Requests : DoMalloc(o, n) \/ DoRealloc(o, n)
    \/ DoFree(o)

Spec == Init /\ [][Next]_vars

-----------------------------------------------------------------------------
(***************************************************************************)
(* Properties.                                                             *)
(***************************************************************************)
Blocks == heap.blocks
List   == DOMAIN heap.blocks

\* The state has the shape the program's declarations give it.
TypeOK ==
  /\ IsList(Blocks)
  /\ heap = [blocks |-> Blocks, max_alloc |-> heap.max_alloc]
  /\ heap.max_alloc \in Nat
  /\ ptr \in [Owner -> Nat]
  /\ req \in [Owner -> Nat]
  /\ mem \in [Bytes -> Owner \cup {HEADER, JUNK}]
  /\ refused \subseteq Requests

\* Malloc, realloc and free keep the heap tiled by the blocks of the list: no
\* byte is lost to or shared by two blocks, whatever the order of the calls.
Tiled == Linked(Blocks) /\ Disjoint(Blocks)

\* No two neighbours are both free: free merges with both sides, and a split
\* by malloc or realloc never leaves a free block beside another.
Coalesced == Separated(Blocks)

\* max_alloc, updated by three different rules, is exactly the size of the
\* largest block: the early return of malloc never refuses a request that a
\* free block could serve.
MaxAllocExact == IsLargest(Blocks, heap.max_alloc)

\* Allocated blocks and live pointers correspond one to one: no block leaks
\* and no pointer dangles, on success and on failure of malloc and realloc.
Accounted ==
  /\ \A o \in Live : /\ ptr[o] - HDR \in List
                     /\ ~Blocks[ptr[o] - HDR].free
                     /\ req[o] <= Blocks[ptr[o] - HDR].size
  /\ \A o, p \in Live : ptr[o] = ptr[p] => o = p
  /\ \A b \in List : ~Blocks[b].free => \E o \in Live : ptr[o] = b + HDR

\* What an owner wrote stays there until it frees or moves it; realloc takes
\* it along.
DataIntact ==
  \A o \in Live : \A i \in 0 .. (req[o] - 1) : mem[ptr[o] + i] = o

\* Once everything is freed the heap is the one block mem_init made.
FullRecovery ==
  Live = {} => heap = MemInit

\* Every block, so every pointer handed out, is aligned.
Aligned ==
  \A b \in List : \E k \in 0 .. HeapEnd : b = k * ALIGN

-----------------------------------------------------------------------------
(***************************************************************************)
(* The allocator implements its promise.                                   *)
(***************************************************************************)
\* A vacant stretch begins with what the block before it holds beyond its
\* request (two roundings to the granule, or a rest too small to split off),
\* and has a header for the new block and one for the block behind it.
Promise == INSTANCE Allocator WITH
  Capacity <- ((HeapEnd - HeapStart - HDR) \div ALIGN) * ALIGN,
  Overhead <- 3 * (HDR + ALIGN - 1),
  region   <- [o \in Owner |-> [addr |-> ptr[o], len |-> req[o]]],
  contents <- [o \in Owner |-> [i \in 0 .. (req[o] - 1) |-> mem[ptr[o] + i]]]

\* Every step of the allocator is a step its callers may expect (Allocator).
Implements == Promise!Spec
=============================================================================
