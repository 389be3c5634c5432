----------------------------- MODULE HeapProofs -----------------------------
(***************************************************************************)
(* Theorems about Heap, for every heap, granule, header, set of owners and *)
(* set of request sizes.  The inductive invariant is IInv: the list is     *)
(* well formed and without free neighbours, max_alloc is exact, and the    *)
(* taken blocks are those of the live pointers.  None of these is          *)
(* inductive alone: merging is sound only on a linked list, a split keeps  *)
(* free blocks apart only because the list had none side by side, the      *)
(* largest size exists only because sizes are bounded by the heap, and     *)
(* free is only called on a taken block because pointers are accounted for.*)
(***************************************************************************)
EXTENDS Heap, BlockListProofs

-----------------------------------------------------------------------------
(***************************************************************************)
(* Bytes.                                                                  *)
(***************************************************************************)
Memory == [Bytes -> Owner \cup {HEADER, JUNK}]

\* Storing headers keeps memory well typed.
LEMMA StoredType ==
  ASSUME NEW m \in Memory, NEW B
  PROVE  Stored(m, B) \in Memory
  BY DEF Stored, Memory

\* An owner that writes inside the heap keeps memory well typed.
LEMMA FilledType ==
  ASSUME NEW m \in Memory, NEW p, NEW first, NEW n, NEW o \in Owner
  PROVE  Filled(m, p, first, n, o) \in Memory
  BY DEF Filled, Memory

\* memcpy reads inside the heap when the source block does.
LEMMA CopiedType ==
  ASSUME NEW m \in Memory, NEW to \in Nat, NEW from \in Nat, NEW n \in Nat,
         HeapAddr <= from, from + n <= HeapEnd
  PROVE  Copied(m, to, from, n) \in Memory
  <1>1. HeapAddr \in Nat /\ HeapEnd \in Nat
    BY HeapAssumption, HeapFacts
  <1>2. ASSUME NEW a \in Bytes, a \in to .. (to + n - 1)
        PROVE  from + (a - to) \in Bytes
    BY <1>1, <1>2 DEF Bytes
  <1> QED
    BY <1>2 DEF Copied, Memory

-----------------------------------------------------------------------------
(***************************************************************************)
(* The inductive invariant.                                                *)
(***************************************************************************)
IInv == TypeOK /\ Tiled /\ Coalesced /\ MaxAllocExact /\ Accounted

\* The inductive invariant in terms of sound heaps and taken blocks.
LEMMA IInvFacts ==
  ASSUME IInv
  PROVE  /\ SoundHeap(heap)
         /\ ptr \in [Owner -> Nat] /\ req \in [Owner -> Nat] /\ mem \in Memory
         /\ \A o \in Owner : ptr[o] # NULL => /\ ptr[o] - HDR \in Taken(Blocks)
                                              /\ req[o] <= Blocks[ptr[o] - HDR].size
         /\ \A o, p \in Owner : ptr[o] # NULL /\ ptr[o] = ptr[p] => o = p
         /\ \A b \in Taken(Blocks) : \E o \in Owner : ptr[o] # NULL /\ ptr[o] = b + HDR
  BY DEF IInv, TypeOK, Tiled, Coalesced, MaxAllocExact, Accounted, SoundHeap,
         WellFormed, Taken, Live, List, Blocks, Memory

\* The converse, for the next state.
LEMMA IInvNext ==
  ASSUME SoundHeap(heap'), refused' \subseteq Requests,
         ptr' \in [Owner -> Nat], req' \in [Owner -> Nat], mem' \in Memory,
         \A o \in Owner : ptr'[o] # NULL => /\ ptr'[o] - HDR \in Taken(heap'.blocks)
                                            /\ req'[o] <= heap'.blocks[ptr'[o] - HDR].size,
         \A o, p \in Owner : ptr'[o] # NULL /\ ptr'[o] = ptr'[p] => o = p,
         \A b \in Taken(heap'.blocks) : \E o \in Owner : ptr'[o] # NULL /\ ptr'[o] = b + HDR
  PROVE  IInv'
  <1>1. (TypeOK /\ Tiled /\ Coalesced /\ MaxAllocExact)'
    BY DEF TypeOK, Tiled, Coalesced, MaxAllocExact, SoundHeap, WellFormed, Blocks, Memory
  <1>2. Accounted'
    BY DEF Accounted, Taken, Live, List, Blocks
  <1> QED
    BY <1>1, <1>2 DEF IInv

\* After mem_init, before any call.
LEMMA InitIInv ==
  Init => IInv
  <1> SUFFICES ASSUME Init PROVE IInv
    OBVIOUS
  <1>1. /\ heap = MemInit /\ ptr = [o \in Owner |-> NULL] /\ req = [o \in Owner |-> 0]
        /\ mem = Stored([a \in Bytes |-> JUNK], MemInit.blocks)
    BY DEF Init
  <1>2. SoundHeap(heap) /\ Taken(Blocks) = {}
    BY <1>1, MemInitLemma DEF Blocks
  <1>3. ptr \in [Owner -> Nat] /\ req \in [Owner -> Nat]
    BY <1>1 DEF NULL
  <1>4. mem \in Memory
    <2>1. [a \in Bytes |-> JUNK] \in Memory
      BY DEF Memory
    <2> QED
      BY <1>1, <2>1, StoredType
  <1>7. refused \subseteq Requests
    BY DEF Init
  <1>5. TypeOK /\ Tiled /\ Coalesced /\ MaxAllocExact
    BY <1>2, <1>3, <1>4, <1>7 DEF TypeOK, Tiled, Coalesced, MaxAllocExact, SoundHeap, WellFormed,
                            Blocks, Memory
  <1>6. Accounted
    <2>1. Live = {}
      BY <1>1 DEF Live
    <2>2. \A b \in List : Blocks[b].free
      BY <1>2 DEF Taken, List, Blocks
    <2> QED
      BY <2>1, <2>2 DEF Accounted
  <1> QED
    BY <1>5, <1>6 DEF IInv

\* malloc, granted or refused, preserves the inductive invariant.
LEMMA MallocStep ==
  ASSUME IInv, NEW o \in Owner, NEW n \in Requests, DoMalloc(o, n)
  PROVE  IInv'
  <1> DEFINE r == Malloc(heap, n)
  <1>1. /\ SoundHeap(heap)
        /\ ptr \in [Owner -> Nat] /\ req \in [Owner -> Nat] /\ mem \in Memory
        /\ \A p \in Owner : ptr[p] # NULL => /\ ptr[p] - HDR \in Taken(Blocks)
                                             /\ req[p] <= Blocks[ptr[p] - HDR].size
        /\ \A p, q \in Owner : ptr[p] # NULL /\ ptr[p] = ptr[q] => p = q
        /\ \A b \in Taken(Blocks) : \E p \in Owner : ptr[p] # NULL /\ ptr[p] = b + HDR
    BY IInvFacts
  <1>2. n \in Nat
    BY OwnerAssumption
  <1>3. CASE Rejected(n, r)
    <2>1. r.ptr = NULL /\ heap' = r.heap /\ UNCHANGED <<ptr, req, mem>>
      BY <1>3 DEF Rejected
    <2>4. refused' \subseteq Requests
      BY <1>3 DEF Rejected
    <2>2. r = Malloc(heap, n)
      OBVIOUS
    <2> HIDE DEF r
    <2>3. heap' = heap
      BY <2>1, <2>2, <1>1, <1>2, MallocLemma
    <2> QED
      BY <2>1, <2>3, <2>4 DEF IInv, TypeOK, Tiled, Coalesced, MaxAllocExact, Accounted, Live,
                              List, Blocks
  <1>4. CASE Accepted(o, n, r, Stored(mem, r.heap.blocks), 0)
    <2>1. /\ r.ptr # NULL /\ heap' = r.heap
          /\ ptr' = [ptr EXCEPT ![o] = r.ptr] /\ req' = [req EXCEPT ![o] = n]
          /\ mem' = Filled(Stored(mem, r.heap.blocks), r.ptr, 0, n, o)
      BY <1>4 DEF Accepted
    <2>2. r = Malloc(heap, n) /\ ptr[o] = NULL
      BY DEF DoMalloc
    <2> HIDE DEF r
    <2>a. PICK b \in DOMAIN heap.blocks : r.ptr = b + HDR /\ Took(heap, b, n, r.heap)
      BY <2>1, <2>2, <1>1, <1>2, MallocLemma
    <2>3. /\ b \in DOMAIN Blocks /\ r.ptr = b + HDR /\ Blocks[b].free
          /\ SoundHeap(r.heap)
          /\ Taken(r.heap.blocks) = Taken(Blocks) \cup {b}
          /\ n <= r.heap.blocks[b].size
          /\ \A c \in Taken(Blocks) : r.heap.blocks[c].size = Blocks[c].size
      BY <2>a DEF Took, Blocks
    <2>4. b \in Nat /\ b \notin Taken(Blocks) /\ b + HDR \in Nat /\ (b + HDR) - HDR = b
      <3>1. b \in Nat
        BY <1>1, ListFacts DEF SoundHeap, WellFormed, Blocks
      <3> QED
        BY <2>3, <3>1, HeapFacts DEF Taken
    <2>5. ptr' \in [Owner -> Nat] /\ req' \in [Owner -> Nat]
      BY <2>1, <2>3, <2>4, <1>1, <1>2
    <2>6. mem' \in Memory
      BY <2>1, <1>1, StoredType, FilledType
    <2>7. /\ ptr'[o] = b + HDR /\ req'[o] = n
          /\ \A p \in Owner : p # o => ptr'[p] = ptr[p] /\ req'[p] = req[p]
      BY <2>1, <2>3, <1>1
    <2>8. ASSUME NEW p \in Owner, ptr'[p] # NULL
          PROVE  /\ ptr'[p] - HDR \in Taken(heap'.blocks)
                 /\ req'[p] <= heap'.blocks[ptr'[p] - HDR].size
      <3>1. CASE p = o
        BY <3>1, <2>1, <2>3, <2>4, <2>7
      <3>2. CASE p # o
        BY <3>2, <2>1, <2>3, <2>7, <2>8, <1>1
      <3> QED
        BY <3>1, <3>2
    <2>9. ASSUME NEW p \in Owner, NEW q \in Owner, ptr'[p] # NULL, ptr'[p] = ptr'[q]
          PROVE  p = q
      <3>1. \A s \in Owner : s # o /\ ptr[s] # NULL => ptr[s] # b + HDR
        BY <1>1, <2>4
      <3> QED
        BY <3>1, <2>1, <2>3, <2>7, <2>9, <1>1
    <2>10. ASSUME NEW c \in Taken(heap'.blocks)
           PROVE  \E p \in Owner : ptr'[p] # NULL /\ ptr'[p] = c + HDR
      <3>1. CASE c = b
        BY <3>1, <2>1, <2>3, <2>7
      <3>2. CASE c # b
        <4>1. PICK p \in Owner : ptr[p] # NULL /\ ptr[p] = c + HDR
          BY <3>2, <2>1, <2>3, <2>10, <1>1
        <4> QED
          BY <4>1, <2>2, <2>7
      <3> QED
        BY <3>1, <3>2
    <2>11. SoundHeap(heap')
      BY <2>1, <2>3
    <2>12. refused' \subseteq Requests
      BY <1>4 DEF Accepted
    <2> QED
      BY <2>5, <2>6, <2>8, <2>9, <2>10, <2>11, <2>12, IInvNext
  <1> QED
    BY <1>3, <1>4 DEF DoMalloc

\* free preserves the inductive invariant.
LEMMA FreeStep ==
  ASSUME IInv, NEW o \in Owner, DoFree(o)
  PROVE  IInv'
  <1>1. /\ SoundHeap(heap)
        /\ ptr \in [Owner -> Nat] /\ req \in [Owner -> Nat] /\ mem \in Memory
        /\ \A p \in Owner : ptr[p] # NULL => /\ ptr[p] - HDR \in Taken(Blocks)
                                             /\ req[p] <= Blocks[ptr[p] - HDR].size
        /\ \A p, q \in Owner : ptr[p] # NULL /\ ptr[p] = ptr[q] => p = q
        /\ \A b \in Taken(Blocks) : \E p \in Owner : ptr[p] # NULL /\ ptr[p] = b + HDR
    BY IInvFacts
  <1>2. /\ ptr[o] # NULL /\ heap' = Free(heap, ptr[o])
        /\ ptr' = [ptr EXCEPT ![o] = NULL] /\ req' = [req EXCEPT ![o] = 0]
        /\ mem' = Stored(mem, heap'.blocks)
    BY DEF DoFree
  <1> DEFINE b == ptr[o] - HDR
  <1>3. b \in Taken(Blocks)
    BY <1>1, <1>2
  <1>4. /\ SoundHeap(heap')
        /\ Taken(heap'.blocks) = Taken(Blocks) \ {b}
        /\ \A c \in Taken(heap'.blocks) : heap'.blocks[c].size = Blocks[c].size
    <2> DEFINE g == Free(heap, ptr[o])
    <2>1. b \in Taken(heap.blocks) /\ ptr[o] - HDR = b /\ g = Free(heap, ptr[o])
      BY <1>3 DEF Blocks
    <2> HIDE DEF g, b
    <2>2. GaveBack(heap, b, g)
      BY <2>1, <1>1, FreeLemma
    <2>3. heap' = g
      BY <1>2 DEF g
    <2> QED
      BY <2>2, <2>3 DEF GaveBack, Blocks
  <1>5. ptr[o] = b + HDR /\ \A p \in Owner : ptr[p] \in Nat
    BY <1>1, HeapFacts
  <1> HIDE DEF b
  <1>6. ptr' \in [Owner -> Nat] /\ req' \in [Owner -> Nat]
    BY <1>1, <1>2 DEF NULL
  <1>7. mem' \in Memory
    BY <1>1, <1>2, StoredType
  <1>8. /\ ptr'[o] = NULL
        /\ \A p \in Owner : p # o => ptr'[p] = ptr[p] /\ req'[p] = req[p]
    BY <1>1, <1>2
  <1>9. ASSUME NEW p \in Owner, ptr'[p] # NULL
        PROVE  /\ ptr'[p] - HDR \in Taken(heap'.blocks)
               /\ req'[p] <= heap'.blocks[ptr'[p] - HDR].size
    <2>1. p # o /\ ptr'[p] = ptr[p] /\ req'[p] = req[p]
      BY <1>8, <1>9
    <2>2. ptr[p] # ptr[o]
      BY <2>1, <1>1, <1>2
    <2>3. ptr[p] - HDR # b
      BY <2>2, <1>5, HeapFacts
    <2>4. ptr[p] - HDR \in Taken(heap'.blocks)
      BY <2>1, <2>3, <1>1, <1>4, <1>9
    <2> QED
      BY <2>1, <2>4, <1>1, <1>4, <1>9
  <1>10. ASSUME NEW p \in Owner, NEW q \in Owner, ptr'[p] # NULL, ptr'[p] = ptr'[q]
         PROVE  p = q
    BY <1>1, <1>8, <1>10
  <1>11. ASSUME NEW c \in Taken(heap'.blocks)
         PROVE  \E p \in Owner : ptr'[p] # NULL /\ ptr'[p] = c + HDR
    <2>1. c \in Taken(Blocks) /\ c # b
      BY <1>4
    <2>2. PICK p \in Owner : ptr[p] # NULL /\ ptr[p] = c + HDR
      BY <2>1, <1>1
    <2>3. c \in Nat /\ b \in Nat
      BY <2>1, <1>1, <1>3, ListFacts DEF SoundHeap, WellFormed, Blocks, Taken
    <2>4. p # o
      BY <2>1, <2>2, <2>3, <1>5, HeapFacts
    <2> QED
      BY <2>2, <2>4, <1>8
  <1>12. refused' \subseteq Requests
    BY DEF DoFree
  <1> QED
    BY <1>4, <1>6, <1>7, <1>9, <1>10, <1>11, <1>12, IInvNext

\* realloc (in place, moved or refused) preserves the inductive invariant.
LEMMA ReallocStep ==
  ASSUME IInv, NEW o \in Owner, NEW n \in Requests, DoRealloc(o, n)
  PROVE  IInv'
  <1> DEFINE r == Realloc(heap, ptr[o], n)
             b == ptr[o] - HDR
  <1>1. /\ SoundHeap(heap)
        /\ ptr \in [Owner -> Nat] /\ req \in [Owner -> Nat] /\ mem \in Memory
        /\ \A p \in Owner : ptr[p] # NULL => /\ ptr[p] - HDR \in Taken(Blocks)
                                             /\ req[p] <= Blocks[ptr[p] - HDR].size
        /\ \A p, q \in Owner : ptr[p] # NULL /\ ptr[p] = ptr[q] => p = q
        /\ \A c \in Taken(Blocks) : \E p \in Owner : ptr[p] # NULL /\ ptr[p] = c + HDR
    BY IInvFacts
  <1>2. n \in Nat
    BY OwnerAssumption
  <1>3. /\ ptr[o] # NULL /\ b \in Taken(Blocks) /\ ptr[o] = b + HDR
        /\ \A p \in Owner : ptr[p] \in Nat
    BY <1>1, HeapFacts DEF DoRealloc
  <1>4. r = Realloc(heap, ptr[o], n)
    OBVIOUS
  <1>5. Rejected(n, r) \/ Accepted(o, n, r, Moved(mem, ptr[o], n, r), req[o])
    BY DEF DoRealloc
  <1> HIDE DEF r, b
  <1>6. \/ r.ptr = NULL /\ r.heap = heap
        \/ \E d \in Taken(r.heap.blocks) :
             r.ptr = d + HDR /\ r.ptr # NULL /\ Replaced(heap, b, d, n, r.heap)
    BY <1>1, <1>2, <1>3, <1>4, ReallocLemma DEF Blocks
  <1>7. CASE Rejected(n, r)
    <2>1. heap' = heap /\ UNCHANGED <<ptr, req, mem>>
      BY <1>6, <1>7 DEF Rejected
    <2>2. refused' \subseteq Requests
      BY <1>7 DEF Rejected
    <2> QED
      BY <2>1, <2>2 DEF IInv, TypeOK, Tiled, Coalesced, MaxAllocExact, Accounted, Live, List, Blocks
  <1>8. CASE Accepted(o, n, r, Moved(mem, ptr[o], n, r), req[o])
    <2>1. /\ r.ptr # NULL /\ heap' = r.heap
          /\ ptr' = [ptr EXCEPT ![o] = r.ptr] /\ req' = [req EXCEPT ![o] = n]
          /\ mem' = Filled(Moved(mem, ptr[o], n, r), r.ptr, req[o], n, o)
      BY <1>8 DEF Accepted
    <2>2. PICK d \in Taken(r.heap.blocks) :
            r.ptr = d + HDR /\ Replaced(heap, b, d, n, r.heap)
      BY <2>1, <1>6
    <2>3. /\ SoundHeap(r.heap)
          /\ d = b \/ d \notin Taken(Blocks)
          /\ Taken(r.heap.blocks) = (Taken(Blocks) \ {b}) \cup {d}
          /\ n <= r.heap.blocks[d].size
          /\ \A c \in Taken(Blocks) : c # b => r.heap.blocks[c].size = Blocks[c].size
      BY <2>2 DEF Replaced, Blocks
    <2>4. /\ d \in Nat /\ d + HDR \in Nat /\ (d + HDR) - HDR = d
          /\ \A c \in Taken(Blocks) : c \in Nat
          /\ \A c \in Taken(r.heap.blocks) : c \in Nat
      <3>1. \A c \in Taken(r.heap.blocks) : c \in Nat
        BY <2>3, ListFacts DEF SoundHeap, WellFormed, Taken
      <3>2. \A c \in Taken(Blocks) : c \in Nat
        BY <1>1, ListFacts DEF SoundHeap, WellFormed, Taken, Blocks
      <3>3. d \in Nat
        BY <2>2, <3>1
      <3> QED
        BY <3>1, <3>2, <3>3, HeapFacts
    <2>5. ptr' \in [Owner -> Nat] /\ req' \in [Owner -> Nat]
      BY <2>1, <2>2, <2>4, <1>1, <1>2
    <2>6. mem' \in Memory
      <3>1. \A B : Stored(mem, B) \in Memory
        BY <1>1, StoredType
      <3>2. /\ b \in Nat /\ Blocks[b].size \in Nat
            /\ HeapAddr <= ptr[o] /\ ptr[o] + Blocks[b].size <= HeapEnd
        <4>1. b \in DOMAIN Blocks /\ WellFormed(Blocks)
          BY <1>1, <1>3 DEF SoundHeap, Blocks, Taken
        <4>2. b \in Nat /\ Blocks[b].size \in Nat /\ HeapStart <= b /\ End(Blocks, b) <= HeapEnd
          BY <4>1, ListFacts DEF WellFormed, Linked
        <4>3. HeapAddr \in Nat /\ HeapAddr <= HeapStart
          BY HeapAssumption, AlignFacts DEF HeapStart
        <4> QED
          BY <4>2, <4>3, <1>3, HeapFacts DEF End
      <3>3. \A B : Copied(Stored(mem, B), r.ptr, ptr[o], Blocks[b].size) \in Memory
        BY <2>2, <2>4, <3>1, <3>2, <1>3, CopiedType
      <3>4. Moved(mem, ptr[o], n, r) \in Memory
        BY <3>1, <3>3, StoredType DEF Moved, b, Blocks
      <3> QED
        BY <2>1, <3>4, FilledType
    <2>7. /\ ptr'[o] = d + HDR /\ req'[o] = n
          /\ \A p \in Owner : p # o => ptr'[p] = ptr[p] /\ req'[p] = req[p]
      BY <2>1, <2>2, <1>1
    <2>8. \A p \in Owner : p # o /\ ptr[p] # NULL => /\ ptr[p] - HDR # b
                                                     /\ ptr[p] # d + HDR
      <3> SUFFICES ASSUME NEW p \in Owner, p # o, ptr[p] # NULL
                   PROVE  ptr[p] - HDR # b /\ ptr[p] # d + HDR
        OBVIOUS
      <3>1. ptr[p] # ptr[o]
        BY <1>1
      <3>2. ptr[p] - HDR # b
        BY <3>1, <1>3, HeapFacts
      <3>3. ptr[p] - HDR \in Taken(Blocks)
        BY <1>1
      <3>4. ptr[p] - HDR # d
        BY <3>2, <3>3, <2>3
      <3> QED
        BY <3>2, <3>4, <2>4
    <2>9. ASSUME NEW p \in Owner, ptr'[p] # NULL
          PROVE  /\ ptr'[p] - HDR \in Taken(heap'.blocks)
                 /\ req'[p] <= heap'.blocks[ptr'[p] - HDR].size
      <3>1. CASE p = o
        BY <3>1, <2>1, <2>2, <2>3, <2>4, <2>7
      <3>2. CASE p # o
        BY <3>2, <2>1, <2>3, <2>7, <2>8, <2>9, <1>1
      <3> QED
        BY <3>1, <3>2
    <2>10. ASSUME NEW p \in Owner, NEW q \in Owner, ptr'[p] # NULL, ptr'[p] = ptr'[q]
           PROVE  p = q
      BY <2>7, <2>8, <2>10, <1>1
    <2>11. ASSUME NEW c \in Taken(heap'.blocks)
           PROVE  \E p \in Owner : ptr'[p] # NULL /\ ptr'[p] = c + HDR
      <3>1. CASE c = d
        BY <3>1, <2>1, <2>2, <2>7
      <3>2. CASE c # d
        <4>1. c \in Taken(Blocks) /\ c # b
          BY <3>2, <2>1, <2>3
        <4>2. PICK p \in Owner : ptr[p] # NULL /\ ptr[p] = c + HDR
          BY <4>1, <1>1
        <4>3. p # o
          BY <4>1, <4>2, <2>4, <1>3, HeapFacts
        <4> QED
          BY <4>2, <4>3, <2>7
      <3> QED
        BY <3>1, <3>2
    <2>12. SoundHeap(heap')
      BY <2>1, <2>3
    <2>13. refused' \subseteq Requests
      BY <1>8 DEF Accepted
    <2> QED
      BY <2>5, <2>6, <2>9, <2>10, <2>11, <2>12, <2>13, IInvNext
  <1> QED
    BY <1>5, <1>7, <1>8

-----------------------------------------------------------------------------
(***************************************************************************)
(* The bytes of the owners.                                                *)
(***************************************************************************)
\* A byte of a taken block's payload belongs to no header, to no free block
\* and to no other block, so storing the headers leaves it alone.
LEMMA PayloadSafe ==
  ASSUME NEW B, WellFormed(B), NEW c \in Taken(B), NEW i \in Nat, i < B[c].size,
         NEW a, a = c + HDR + i
  PROVE  /\ a \in Bytes
         /\ \A m : Stored(m, B)[a] = m[a]
         /\ \A b \in DOMAIN B : b # c => ~(b <= a /\ a < End(B, b))
  <1>1. /\ c \in DOMAIN B /\ ~B[c].free
        /\ \A b \in DOMAIN B : /\ b \in Nat /\ HeapStart <= b /\ b + HDR + B[b].size <= HeapEnd
                               /\ B[b].size \in Nat
    BY ListFacts DEF WellFormed, Linked, Taken, End
  <1>2. \A b, d \in DOMAIN B : b < d => b + HDR + B[b].size <= d
    BY DEF WellFormed, Disjoint, End
  <1>3. HeapAddr \in Nat /\ HeapAddr <= HeapStart
    BY HeapAssumption, AlignFacts DEF HeapStart
  <1>4. a \in Nat /\ c \in Nat /\ B[c].size \in Nat /\ c + HDR <= a /\ a < c + HDR + B[c].size
    BY <1>1, HeapFacts
  <1>5. a \in Bytes
    <2>1. HeapAddr <= a /\ a < HeapEnd
      BY <1>1, <1>3, <1>4, HeapFacts
    <2> QED
      BY <2>1, <1>3, <1>4, HeapFacts DEF Bytes
  <1>6. \A b \in DOMAIN B : b # c => ~(b <= a /\ a < b + HDR + B[b].size)
    <2> SUFFICES ASSUME NEW b \in DOMAIN B, b # c
                 PROVE  ~(b <= a /\ a < b + HDR + B[b].size)
      OBVIOUS
    <2>1. CASE b < c
      <3>1. b + HDR + B[b].size <= c
        BY <2>1, <1>1, <1>2
      <3> QED
        BY <3>1, <1>1, <1>4, HeapFacts
    <2>2. CASE c < b
      <3>1. c + HDR + B[c].size <= b
        BY <2>2, <1>1, <1>2
      <3> QED
        BY <3>1, <1>1, <1>4, HeapFacts
    <2> QED
      BY <2>1, <2>2, <1>1, <1>4
  <1>7. ~InHeader(B, a)
    <2> SUFFICES ASSUME NEW b \in DOMAIN B, a \in b .. (b + HDR - 1) PROVE FALSE
      BY DEF InHeader
    <2>1. b <= a /\ a < b + HDR + B[b].size
      BY <1>1, <1>4, HeapFacts
    <2>2. b = c
      BY <2>1, <1>6
    <2> QED
      BY <2>2, <1>4, HeapFacts
  <1>8. ~InFree(B, a)
    <2> SUFFICES ASSUME NEW b \in DOMAIN B, B[b].free, a \in (b + HDR) .. (End(B, b) - 1)
                 PROVE  FALSE
      BY DEF InFree
    <2>1. b <= a /\ a < b + HDR + B[b].size
      BY <1>1, <1>4, HeapFacts DEF End
    <2> QED
      BY <2>1, <1>1, <1>6
  <1>9. \A m : Stored(m, B)[a] = m[a]
    BY <1>5, <1>7, <1>8 DEF Stored
  <1> QED
    BY <1>5, <1>6, <1>9 DEF End

\* What an owner writes into its block is found there, and nowhere else.
LEMMA FilledAt ==
  ASSUME NEW m, NEW p \in Nat, NEW first \in Nat, NEW n \in Nat, NEW o, NEW a \in Bytes
  PROVE  /\ ~(p + first <= a /\ a < p + n) => Filled(m, p, first, n, o)[a] = m[a]
         /\ p + first <= a /\ a < p + n => Filled(m, p, first, n, o)[a] = o
  <1>1. a \in Int
    BY HeapAssumption, HeapFacts DEF Bytes
  <1>2. a \in (p + first) .. (p + n - 1) <=> p + first <= a /\ a < p + n
    BY <1>1
  <1> QED
    BY <1>2 DEF Filled

\* memcpy leaves the other bytes alone.
LEMMA CopiedOutside ==
  ASSUME NEW to \in Nat, NEW from \in Nat, NEW n \in Nat, NEW a \in Bytes,
         ~(to <= a /\ a < to + n), NEW m
  PROVE  Copied(m, to, from, n)[a] = m[a]
  <1>1. a \in Int
    BY HeapAssumption, HeapFacts DEF Bytes
  <1>2. a \notin to .. (to + n - 1)
    BY <1>1
  <1> QED
    BY <1>2 DEF Copied

\* The bytes of block c that owner o wrote, in terms of the block.
Holds(m, c, n, o) == \A i \in Nat : i < n => m[c + HDR + i] = o

\* What the property says of one live owner.
LEMMA HoldsFacts ==
  ASSUME IInv, DataIntact, NEW p \in Owner, ptr[p] # NULL
  PROVE  /\ ptr[p] - HDR \in Taken(Blocks)
         /\ req[p] \in Nat /\ req[p] <= Blocks[ptr[p] - HDR].size
         /\ Holds(mem, ptr[p] - HDR, req[p], p)
  <1>1. /\ ptr[p] - HDR \in Taken(Blocks) /\ req[p] <= Blocks[ptr[p] - HDR].size
        /\ ptr \in [Owner -> Nat] /\ req \in [Owner -> Nat]
    BY IInvFacts
  <1>2. ASSUME NEW i \in Nat, i < req[p]
        PROVE  mem[(ptr[p] - HDR) + HDR + i] = p
    <2>1. i \in 0 .. (req[p] - 1)
      BY <1>1, <1>2
    <2>2. (ptr[p] - HDR) + HDR + i = ptr[p] + i
      BY <1>1, HeapFacts
    <2> QED
      BY <2>1, <2>2 DEF DataIntact, Live
  <1> QED
    BY <1>1, <1>2 DEF Holds

\* Storing the headers of a list keeps what a taken block holds.
LEMMA StoredHolds ==
  ASSUME NEW B, WellFormed(B), NEW c \in Taken(B), NEW n \in Nat, n <= B[c].size,
         NEW m, NEW o, Holds(m, c, n, o)
  PROVE  Holds(Stored(m, B), c, n, o)
  <1> SUFFICES ASSUME NEW i \in Nat, i < n PROVE Stored(m, B)[c + HDR + i] = o
    BY DEF Holds
  <1>1. i < B[c].size
    BY Neighbours DEF Taken
  <1>2. Stored(m, B)[c + HDR + i] = m[c + HDR + i]
    BY <1>1, PayloadSafe
  <1> QED
    BY <1>2 DEF Holds

\* Writing into one taken block keeps what another one holds.
LEMMA FilledHolds ==
  ASSUME NEW B, WellFormed(B), NEW c \in Taken(B), NEW n \in Nat, n <= B[c].size,
         NEW d \in Taken(B), d # c, NEW k \in Nat, k <= B[d].size, NEW first \in Nat,
         NEW m, NEW o, Holds(m, c, n, o), NEW q
  PROVE  Holds(Filled(m, d + HDR, first, k, q), c, n, o)
  <1> SUFFICES ASSUME NEW i \in Nat, i < n
               PROVE  Filled(m, d + HDR, first, k, q)[c + HDR + i] = o
    BY DEF Holds
  <1> DEFINE a == c + HDR + i
  <1>1. /\ c \in Nat /\ d \in Nat /\ d \in DOMAIN B
        /\ B[c].size \in Nat /\ B[d].size \in Nat
    BY ListFacts DEF Taken, WellFormed
  <1>2. i < B[c].size
    BY <1>1
  <1>3. a \in Bytes /\ ~(d <= a /\ a < End(B, d))
    BY <1>1, <1>2, PayloadSafe
  <1>4. a \in Nat
    BY <1>1, HeapFacts
  <1>5. d + HDR \in Nat /\ ~(d + HDR + first <= a /\ a < d + HDR + k)
    BY <1>1, <1>3, <1>4, HeapFacts DEF End
  <1> HIDE DEF a
  <1>6. Filled(m, d + HDR, first, k, q)[a] = m[a]
    BY <1>3, <1>5, FilledAt
  <1> QED
    BY <1>6 DEF a, Holds

\* So does copying into another block.
LEMMA CopiedHolds ==
  ASSUME NEW B, WellFormed(B), NEW c \in Taken(B), NEW n \in Nat, n <= B[c].size,
         NEW d \in Taken(B), d # c, NEW k \in Nat, k <= B[d].size, NEW from \in Nat,
         NEW m, NEW o, Holds(m, c, n, o)
  PROVE  Holds(Copied(m, d + HDR, from, k), c, n, o)
  <1> SUFFICES ASSUME NEW i \in Nat, i < n
               PROVE  Copied(m, d + HDR, from, k)[c + HDR + i] = o
    BY DEF Holds
  <1> DEFINE a == c + HDR + i
             to == d + HDR
  <1>1. /\ c \in Nat /\ d \in Nat /\ d \in DOMAIN B
        /\ B[c].size \in Nat /\ B[d].size \in Nat
    BY ListFacts DEF Taken, WellFormed
  <1>2. i < B[c].size
    BY <1>1
  <1>3. a \in Bytes /\ ~(d <= a /\ a < End(B, d))
    BY <1>1, <1>2, PayloadSafe
  <1>4. a \in Nat
    BY <1>1, HeapFacts
  <1>5. to \in Nat /\ ~(to <= a /\ a < to + k)
    BY <1>1, <1>3, <1>4, HeapFacts DEF End
  <1> HIDE DEF a, to
  <1>6. Copied(m, to, from, k)[a] = m[a]
    BY <1>3, <1>5, CopiedOutside
  <1> QED
    BY <1>6 DEF a, to, Holds

\* The owner of a block finds what it just wrote behind what it already had.
LEMMA FilledOwn ==
  ASSUME NEW B, WellFormed(B), NEW d \in Taken(B), NEW n \in Nat, n <= B[d].size,
         NEW first \in Nat, NEW m, NEW o,
         \A i \in Nat : i < first /\ i < n => m[d + HDR + i] = o
  PROVE  Holds(Filled(m, d + HDR, first, n, o), d, n, o)
  <1> SUFFICES ASSUME NEW i \in Nat, i < n
               PROVE  Filled(m, d + HDR, first, n, o)[d + HDR + i] = o
    BY DEF Holds
  <1> DEFINE a == d + HDR + i
  <1>1. d \in Nat /\ B[d].size \in Nat
    BY ListFacts DEF Taken, WellFormed
  <1>2. i < B[d].size
    BY <1>1
  <1>3. a \in Bytes /\ a \in Nat /\ d + HDR \in Nat
    BY <1>1, <1>2, PayloadSafe, HeapFacts
  <1>4. i < first => m[a] = o
    OBVIOUS
  <1>5. CASE i < first
    <2>1. ~(d + HDR + first <= a /\ a < d + HDR + n)
      BY <1>1, <1>5, HeapFacts
    <2> HIDE DEF a
    <2>2. Filled(m, d + HDR, first, n, o)[a] = m[a]
      BY <1>3, <2>1, FilledAt
    <2> QED
      BY <2>2, <1>4, <1>5 DEF a
  <1>6. CASE ~(i < first)
    <2>1. d + HDR + first <= a /\ a < d + HDR + n
      BY <1>1, <1>6, HeapFacts
    <2> HIDE DEF a
    <2>2. Filled(m, d + HDR, first, n, o)[a] = o
      BY <1>3, <2>1, FilledAt
    <2> QED
      BY <2>2 DEF a
  <1> QED
    BY <1>5, <1>6

\* memcpy takes the owner's bytes to the new block.
LEMMA CopiedOwn ==
  ASSUME NEW B, WellFormed(B), NEW d \in Taken(B), NEW n \in Nat, n <= B[d].size,
         NEW b \in Nat, NEW k \in Nat, k <= n, NEW m, NEW o, Holds(m, b, k, o)
  PROVE  Holds(Copied(m, d + HDR, b + HDR, n), d, k, o)
  <1> SUFFICES ASSUME NEW i \in Nat, i < k
               PROVE  Copied(m, d + HDR, b + HDR, n)[d + HDR + i] = o
    BY DEF Holds
  <1> DEFINE to == d + HDR
             old == b + HDR
  <1>1. d \in Nat /\ B[d].size \in Nat
    BY ListFacts DEF Taken, WellFormed
  <1>2. i < B[d].size
    BY <1>1
  <1>3. to + i \in Bytes /\ to \in Nat /\ old \in Nat
    BY <1>1, <1>2, PayloadSafe, HeapFacts
  <1>4. m[old + i] = o
    BY DEF Holds
  <1>5. i < n
    OBVIOUS
  <1> HIDE DEF to, old
  <1>6. Copied(m, to, old, n)[to + i] = m[old + i]
    <2> DEFINE a == to + i
    <2>1. a \in Bytes /\ a \in to .. (to + n - 1) /\ a - to = i
      BY <1>3, <1>5
    <2> HIDE DEF a
    <2>2. Copied(m, to, old, n)[a] = m[old + (a - to)]
      BY <2>1 DEF Copied
    <2> QED
      BY <2>1, <2>2, Zenon DEF a
  <1>7. Copied(m, to, old, n)[to + i] = o
    BY <1>4, <1>6
  <1> QED
    BY <1>7, Zenon DEF to, old

\* The property for the next state, in terms of the blocks.
LEMMA DataNext ==
  ASSUME ptr' \in [Owner -> Nat], req' \in [Owner -> Nat],
         \A p \in Owner : ptr'[p] # NULL => Holds(mem', ptr'[p] - HDR, req'[p], p)
  PROVE  DataIntact'
  <1> SUFFICES ASSUME NEW p \in Owner, ptr'[p] # NULL, NEW i \in 0 .. (req'[p] - 1)
               PROVE  mem'[ptr'[p] + i] = p
    BY DEF DataIntact, Live
  <1>1. i \in Nat /\ i < req'[p]
    OBVIOUS
  <1>2. (ptr'[p] - HDR) + HDR + i = ptr'[p] + i
    BY HeapFacts
  <1> QED
    BY <1>1, <1>2 DEF Holds

\* malloc disturbs nobody's bytes.
LEMMA MallocKeeps ==
  ASSUME IInv, DataIntact, NEW o \in Owner, NEW n \in Requests, DoMalloc(o, n)
  PROVE  DataIntact'
  <1> DEFINE r == Malloc(heap, n)
  <1>1. SoundHeap(heap) /\ ptr \in [Owner -> Nat] /\ req \in [Owner -> Nat]
    BY IInvFacts
  <1>2. n \in Nat
    BY OwnerAssumption
  <1>3. CASE Rejected(n, r)
    BY <1>3 DEF Rejected, DataIntact, Live
  <1>4. CASE Accepted(o, n, r, Stored(mem, r.heap.blocks), 0)
    <2>1. /\ r.ptr # NULL /\ heap' = r.heap
          /\ ptr' = [ptr EXCEPT ![o] = r.ptr] /\ req' = [req EXCEPT ![o] = n]
          /\ mem' = Filled(Stored(mem, r.heap.blocks), r.ptr, 0, n, o)
      BY <1>4 DEF Accepted
    <2>2. r = Malloc(heap, n)
      OBVIOUS
    <2> DEFINE B == r.heap.blocks
    <2> HIDE DEF r
    <2>3. PICK b \in DOMAIN heap.blocks : r.ptr = b + HDR /\ Took(heap, b, n, r.heap)
      BY <2>1, <2>2, <1>1, <1>2, MallocLemma
    <2>4. /\ WellFormed(B) /\ b \in Taken(B) /\ n <= B[b].size
          /\ b \notin Taken(Blocks)
          /\ \A c \in Taken(Blocks) : c \in Taken(B) /\ B[c].size = Blocks[c].size
      BY <2>3 DEF Took, SoundHeap, Taken, Blocks
    <2>5. b \in Nat /\ b + HDR \in Nat /\ (b + HDR) - HDR = b
      BY <2>4, ListFacts, HeapFacts DEF WellFormed, Taken
    <2>6. /\ mem' = Filled(Stored(mem, B), b + HDR, 0, n, o)
          /\ ptr'[o] = b + HDR /\ req'[o] = n
          /\ \A p \in Owner : p # o => ptr'[p] = ptr[p] /\ req'[p] = req[p]
          /\ ptr' \in [Owner -> Nat] /\ req' \in [Owner -> Nat]
      BY <2>1, <2>3, <2>5, <1>1, <1>2
    <2> HIDE DEF B
    <2>7. ASSUME NEW p \in Owner, ptr'[p] # NULL
          PROVE  Holds(mem', ptr'[p] - HDR, req'[p], p)
      <3>1. CASE p = o
        <4>1. Holds(Filled(Stored(mem, B), b + HDR, 0, n, o), b, n, o)
          <5>1. \A i \in Nat : i < 0 /\ i < n => Stored(mem, B)[b + HDR + i] = o
            OBVIOUS
          <5> QED
            BY <5>1, <2>4, <1>2, FilledOwn
        <4> QED
          BY <4>1, <3>1, <2>5, <2>6
      <3>2. CASE p # o
        <4> DEFINE c == ptr[p] - HDR
        <4>1. c \in Taken(Blocks) /\ req[p] \in Nat /\ req[p] <= Blocks[c].size
              /\ Holds(mem, c, req[p], p)
          BY <3>2, <2>6, <2>7, HoldsFacts
        <4>2. c \in Taken(B) /\ c # b /\ req[p] <= B[c].size
          BY <4>1, <2>4
        <4>3. Holds(Stored(mem, B), c, req[p], p)
          BY <4>1, <4>2, <2>4, StoredHolds
        <4> HIDE DEF c
        <4>4. Holds(Filled(Stored(mem, B), b + HDR, 0, n, o), c, req[p], p)
          BY <4>1, <4>2, <4>3, <2>4, <1>2, FilledHolds
        <4> QED
          BY <4>4, <3>2, <2>6 DEF c
      <3> QED
        BY <3>1, <3>2
    <2> QED
      BY <2>6, <2>7, DataNext
  <1> QED
    BY <1>3, <1>4 DEF DoMalloc

\* free gives away nobody else's bytes.
LEMMA FreeKeeps ==
  ASSUME IInv, DataIntact, NEW o \in Owner, DoFree(o)
  PROVE  DataIntact'
  <1>1. SoundHeap(heap) /\ ptr \in [Owner -> Nat] /\ req \in [Owner -> Nat]
    BY IInvFacts
  <1>2. /\ ptr[o] # NULL /\ heap' = Free(heap, ptr[o])
        /\ ptr' = [ptr EXCEPT ![o] = NULL] /\ req' = [req EXCEPT ![o] = 0]
        /\ mem' = Stored(mem, heap'.blocks)
    BY DEF DoFree
  <1> DEFINE b == ptr[o] - HDR
             g == Free(heap, ptr[o])
             B == g.blocks
  <1>3. b \in Taken(heap.blocks) /\ ptr[o] - HDR = b /\ g = Free(heap, ptr[o])
    BY <1>2, IInvFacts DEF Blocks
  <1>4. ptr' \in [Owner -> Nat] /\ req' \in [Owner -> Nat]
    BY <1>1, <1>2 DEF NULL
  <1>5. /\ ptr'[o] = NULL /\ mem' = Stored(mem, B)
        /\ \A p \in Owner : p # o => ptr'[p] = ptr[p] /\ req'[p] = req[p]
    BY <1>1, <1>2
  <1>6. \A p \in Owner : p # o /\ ptr[p] # NULL => ptr[p] - HDR # b
    <2>1. \A p, q \in Owner : ptr[p] # NULL /\ ptr[p] = ptr[q] => p = q
      BY IInvFacts
    <2> QED
      BY <2>1, <1>1, HeapFacts
  <1> HIDE DEF g, b
  <1>7. GaveBack(heap, b, g)
    BY <1>1, <1>3, FreeLemma
  <1>8. /\ WellFormed(B)
        /\ \A c \in Taken(Blocks) : c # b => c \in Taken(B) /\ B[c].size = Blocks[c].size
    BY <1>7 DEF GaveBack, SoundHeap, Blocks
  <1> HIDE DEF B
  <1>9. ASSUME NEW p \in Owner, ptr'[p] # NULL
        PROVE  Holds(mem', ptr'[p] - HDR, req'[p], p)
    <2> DEFINE c == ptr[p] - HDR
    <2>1. p # o /\ ptr[p] # NULL
      BY <1>5, <1>9
    <2>2. c \in Taken(Blocks) /\ req[p] \in Nat /\ req[p] <= Blocks[c].size
          /\ Holds(mem, c, req[p], p)
      BY <2>1, HoldsFacts
    <2>3. c \in Taken(B) /\ req[p] <= B[c].size
      BY <2>1, <2>2, <1>6, <1>8
    <2>4. Holds(Stored(mem, B), c, req[p], p)
      BY <2>2, <2>3, <1>8, StoredHolds
    <2> QED
      BY <2>1, <2>4, <1>5
  <1> QED
    BY <1>4, <1>9, DataNext

\* realloc keeps every owner's bytes: in place because the header of the rest
\* lies behind the new size, and when it moves because the old bytes are
\* copied to a block larger than the old one before the old one is freed.
LEMMA ReallocKeeps ==
  ASSUME IInv, DataIntact, NEW o \in Owner, NEW n \in Requests, DoRealloc(o, n)
  PROVE  DataIntact'
  <1> DEFINE r == Realloc(heap, ptr[o], n)
             b == ptr[o] - HDR
             B == r.heap.blocks
             old == Blocks[b].size
  <1>1. /\ SoundHeap(heap) /\ ptr \in [Owner -> Nat] /\ req \in [Owner -> Nat]
        /\ \A p, q \in Owner : ptr[p] # NULL /\ ptr[p] = ptr[q] => p = q
    BY IInvFacts
  <1>2. n \in Nat
    BY OwnerAssumption
  <1>3. /\ ptr[o] # NULL /\ b \in Taken(Blocks) /\ b \in Nat /\ old \in Nat
        /\ ptr[o] = b + HDR /\ ptr[o] - HDR = b
        /\ req[o] \in Nat /\ req[o] <= old /\ Holds(mem, b, req[o], o)
    <2>1. ptr[o] # NULL
      BY DEF DoRealloc
    <2>2. b \in Taken(Blocks) /\ req[o] \in Nat /\ req[o] <= old /\ Holds(mem, b, req[o], o)
      BY <2>1, HoldsFacts
    <2>3. b \in Nat /\ old \in Nat
      BY <2>2, <1>1, ListFacts DEF SoundHeap, WellFormed, Taken, Blocks
    <2> QED
      BY <2>1, <2>2, <2>3, <1>1, HeapFacts
  <1>4. r = Realloc(heap, ptr[o], n)
    OBVIOUS
  <1>5. Rejected(n, r) \/ Accepted(o, n, r, Moved(mem, ptr[o], n, r), req[o])
    BY DEF DoRealloc
  <1> HIDE DEF r, b
  <1>6. CASE Rejected(n, r)
    BY <1>6 DEF Rejected, DataIntact, Live
  <1>7. CASE Accepted(o, n, r, Moved(mem, ptr[o], n, r), req[o])
    <2> DEFINE m == Moved(mem, ptr[o], n, r)
    <2>1. /\ r.ptr # NULL /\ heap' = r.heap
          /\ ptr' = [ptr EXCEPT ![o] = r.ptr] /\ req' = [req EXCEPT ![o] = n]
          /\ mem' = Filled(m, r.ptr, req[o], n, o)
      BY <1>7 DEF Accepted
    <2>2. PICK d \in Taken(B) : r.ptr = d + HDR /\ Replaced(heap, b, d, n, r.heap)
      BY <2>1, <1>1, <1>2, <1>3, <1>4, ReallocLemma DEF Blocks
    <2>3. /\ WellFormed(B) /\ n <= B[d].size
          /\ Taken(B) = (Taken(Blocks) \ {b}) \cup {d}
          /\ \A c \in Taken(Blocks) : c # b => B[c].size = Blocks[c].size
          /\ \/ d = b
             \/ /\ d \notin Taken(Blocks) /\ old < Align16(n)
                /\ Took(heap, d, Align16(n), Malloc(heap, Align16(n)).heap)
      BY <2>2 DEF Replaced, SoundHeap, Blocks
    <2>4. d \in Nat /\ d + HDR \in Nat /\ (d + HDR) - HDR = d
      BY <2>2, <2>3, ListFacts, HeapFacts DEF WellFormed, Taken
    <2>5. /\ mem' = Filled(m, d + HDR, req[o], n, o)
          /\ ptr'[o] = d + HDR /\ req'[o] = n
          /\ \A p \in Owner : p # o => ptr'[p] = ptr[p] /\ req'[p] = req[p]
          /\ ptr' \in [Owner -> Nat] /\ req' \in [Owner -> Nat]
      BY <2>1, <2>2, <2>4, <1>1, <1>2
    <2>6. d # b => d + HDR # ptr[o]
      BY <2>4, <1>3, HeapFacts
    <2> HIDE DEF m, B
    <2>7. ASSUME NEW p \in Owner, p # o, ptr[p] # NULL
          PROVE  LET c == ptr[p] - HDR
                 IN  /\ c \in Taken(Blocks) /\ c # b /\ c # d
                     /\ c \in Taken(B) /\ B[c].size = Blocks[c].size
                     /\ req[p] \in Nat /\ req[p] <= Blocks[c].size
                     /\ Holds(mem, c, req[p], p)
      <3>1. ptr[p] - HDR # b
        <4>1. ptr[p] # ptr[o]
          BY <2>7, <1>1, <1>3
        <4> QED
          BY <4>1, <1>1, <1>3, HeapFacts
      <3>2. /\ ptr[p] - HDR \in Taken(Blocks) /\ req[p] \in Nat
            /\ req[p] <= Blocks[ptr[p] - HDR].size
            /\ Holds(mem, ptr[p] - HDR, req[p], p)
        BY <2>7, HoldsFacts
      <3> QED
        BY <3>1, <3>2, <2>3
    <2>8. /\ \A i \in Nat : i < req[o] /\ i < n => m[d + HDR + i] = o
          /\ \A p \in Owner : p # o /\ ptr[p] # NULL => Holds(m, ptr[p] - HDR, req[p], p)
      <3>1. CASE d = b
        <4>1. m = Stored(mem, B)
          BY <3>1, <2>2, <1>3 DEF m, Moved, B
        <4>2. ASSUME NEW i \in Nat, i < req[o], i < n PROVE m[d + HDR + i] = o
          <5>1. i < B[d].size
            BY <4>2, <2>2, <2>3, <1>2, Neighbours DEF Taken
          <5>2. Stored(mem, B)[d + HDR + i] = mem[d + HDR + i]
            BY <5>1, <2>2, <2>3, PayloadSafe
          <5> QED
            BY <5>2, <4>1, <4>2, <3>1, <1>3 DEF Holds
        <4>3. ASSUME NEW p \in Owner, p # o, ptr[p] # NULL
              PROVE  Holds(m, ptr[p] - HDR, req[p], p)
          BY <4>1, <4>3, <2>3, <2>7, StoredHolds
        <4> QED
          BY <4>2, <4>3
      <3>2. CASE d # b
        <4> DEFINE G == Malloc(heap, Align16(n)).heap.blocks
                   m1 == Stored(mem, G)
                   m2 == Copied(m1, d + HDR, b + HDR, old)
        <4>1. m = Stored(m2, B)
          BY <3>2, <2>2, <2>6, <1>3 DEF m, Moved, B, b, Blocks
        <4>2. /\ WellFormed(G) /\ d \in Taken(G)
              /\ Align16(n) <= G[d].size /\ old < Align16(n)
              /\ \A c \in Taken(Blocks) : c \in Taken(G) /\ G[c].size = Blocks[c].size
          BY <3>2, <2>3 DEF Took, SoundHeap, Blocks
        <4> HIDE DEF G
        <4>3. old <= G[d].size
          BY <4>2, <1>2, <1>3, AlignFacts, Neighbours DEF Taken
        <4>4. Holds(m1, b, req[o], o)
          BY <4>2, <1>3, StoredHolds
        <4> HIDE DEF m1
        <4>5. Holds(m2, d, req[o], o)
          BY <4>2, <4>3, <4>4, <1>3, CopiedOwn
        <4>6. ASSUME NEW i \in Nat, i < req[o], i < n PROVE m[d + HDR + i] = o
          <5> HIDE DEF m2
          <5>1. i < B[d].size
            BY <4>6, <2>2, <2>3, <1>2, Neighbours DEF Taken
          <5>2. Stored(m2, B)[d + HDR + i] = m2[d + HDR + i]
            BY <5>1, <2>2, <2>3, PayloadSafe
          <5> QED
            BY <5>2, <4>1, <4>5, <4>6 DEF Holds
        <4>7. ASSUME NEW p \in Owner, p # o, ptr[p] # NULL
              PROVE  Holds(m, ptr[p] - HDR, req[p], p)
          <5> DEFINE c == ptr[p] - HDR
          <5>1. /\ c \in Taken(Blocks) /\ c # d /\ c \in Taken(B)
                /\ B[c].size = Blocks[c].size
                /\ req[p] \in Nat /\ req[p] <= Blocks[c].size /\ Holds(mem, c, req[p], p)
            BY <4>7, <2>7
          <5> HIDE DEF c
          <5>2. c \in Taken(G) /\ req[p] <= G[c].size /\ req[p] <= B[c].size
            BY <5>1, <4>2
          <5>3. Holds(m1, c, req[p], p)
            BY <5>1, <5>2, <4>2, StoredHolds DEF m1
          <5>4. b + HDR \in Nat
            BY <1>3, HeapFacts
          <5>5. Holds(m2, c, req[p], p)
            BY <5>1, <5>2, <5>3, <5>4, <4>2, <4>3, <1>3, CopiedHolds
          <5> HIDE DEF m2
          <5>6. Holds(m, c, req[p], p)
            BY <5>1, <5>2, <5>5, <4>1, <2>3, StoredHolds
          <5> QED
            BY <5>6 DEF c
        <4> QED
          BY <4>6, <4>7
      <3> QED
        BY <3>1, <3>2
    <2>9. ASSUME NEW p \in Owner, ptr'[p] # NULL
          PROVE  Holds(mem', ptr'[p] - HDR, req'[p], p)
      <3>1. CASE p = o
        <4>1. Holds(Filled(m, d + HDR, req[o], n, o), d, n, o)
          BY <2>2, <2>3, <2>8, <1>2, <1>3, FilledOwn
        <4> QED
          BY <4>1, <3>1, <2>4, <2>5
      <3>2. CASE p # o
        <4> DEFINE c == ptr[p] - HDR
        <4>1. /\ c # d /\ c \in Taken(B) /\ B[c].size = Blocks[c].size
              /\ req[p] \in Nat /\ req[p] <= Blocks[c].size
              /\ Holds(m, c, req[p], p)
          BY <3>2, <2>5, <2>7, <2>8, <2>9
        <4> HIDE DEF c
        <4>2. Holds(Filled(m, d + HDR, req[o], n, o), c, req[p], p)
          BY <4>1, <2>2, <2>3, <1>2, <1>3, FilledHolds
        <4> QED
          BY <4>2, <3>2, <2>5 DEF c
      <3> QED
        BY <3>1, <3>2
    <2> QED
      BY <2>5, <2>9, DataNext
  <1> QED
    BY <1>5, <1>6, <1>7

-----------------------------------------------------------------------------
(***************************************************************************)
(* The theorems.                                                           *)
(***************************************************************************)
\* Every heap the allocator reaches satisfies the inductive invariant.
THEOREM Invariance == Spec => []IInv
  <1>1. Init => IInv
    BY InitIInv
  <1>2. IInv /\ [Next]_vars => IInv'
    <2> SUFFICES ASSUME IInv, [Next]_vars PROVE IInv'
      OBVIOUS
    <2>1. ASSUME NEW o \in Owner, NEW n \in Requests, DoMalloc(o, n)
          PROVE  IInv'
      BY <2>1, MallocStep
    <2>2. ASSUME NEW o \in Owner, NEW n \in Requests, DoRealloc(o, n)
          PROVE  IInv'
      BY <2>2, ReallocStep
    <2>3. ASSUME NEW o \in Owner, DoFree(o)
          PROVE  IInv'
      BY <2>3, FreeStep
    <2>4. CASE UNCHANGED vars
      BY <2>4 DEF vars, IInv, TypeOK, Tiled, Coalesced, MaxAllocExact, Accounted, Live, List,
                  Blocks
    <2> QED
      BY <2>1, <2>2, <2>3, <2>4 DEF Next
  <1> QED
    BY <1>1, <1>2, PTL DEF Spec

\* Every state has the declared shape.
THEOREM TypeCorrect == Spec => []TypeOK
  BY Invariance, PTL DEF IInv

\* The blocks of the list tile the heap.
THEOREM AlwaysTiled == Spec => []Tiled
  BY Invariance, PTL DEF IInv

\* Free blocks are never neighbours.
THEOREM AlwaysCoalesced == Spec => []Coalesced
  BY Invariance, PTL DEF IInv

\* max_alloc is the size of the largest block.
THEOREM AlwaysExact == Spec => []MaxAllocExact
  BY Invariance, PTL DEF IInv

\* Taken blocks and live pointers correspond one to one.
THEOREM AlwaysAccounted == Spec => []Accounted
  BY Invariance, PTL DEF IInv

\* A sound heap without a taken block is the one mem_init made: two blocks
\* would be free neighbours.
LEMMA OneFreeBlock ==
  ASSUME NEW h, SoundHeap(h), Taken(h.blocks) = {}
  PROVE  h = MemInit
  BY MemInitLemma, Canonical DEF SameTaken

\* Whatever was allocated, resized and freed in whatever order, once nothing
\* is held the heap is whole again.
THEOREM Recovery == Spec => []FullRecovery
  <1>1. IInv => FullRecovery
    <2> SUFFICES ASSUME IInv, Live = {} PROVE heap = MemInit
      BY DEF FullRecovery
    <2>1. Taken(Blocks) = {}
      BY IInvFacts DEF Live
    <2> QED
      BY <2>1, IInvFacts, OneFreeBlock DEF Blocks
  <1> QED
    BY <1>1, Invariance, PTL

\* What an owner wrote stays there, whatever the others do.
THEOREM DataStays == Spec => []DataIntact
  <1>1. Init => DataIntact
    BY DEF Init, DataIntact, Live
  <1>2. IInv /\ DataIntact /\ [Next]_vars => DataIntact'
    <2> SUFFICES ASSUME IInv, DataIntact, [Next]_vars PROVE DataIntact'
      OBVIOUS
    <2>1. ASSUME NEW o \in Owner, NEW n \in Requests, DoMalloc(o, n)
          PROVE  DataIntact'
      BY <2>1, MallocKeeps
    <2>2. ASSUME NEW o \in Owner, NEW n \in Requests, DoRealloc(o, n)
          PROVE  DataIntact'
      BY <2>2, ReallocKeeps
    <2>3. ASSUME NEW o \in Owner, DoFree(o)
          PROVE  DataIntact'
      BY <2>3, FreeKeeps
    <2>4. CASE UNCHANGED vars
      BY <2>4 DEF vars, DataIntact, Live
    <2> QED
      BY <2>1, <2>2, <2>3, <2>4 DEF Next
  <1> QED
    BY <1>1, <1>2, Invariance, PTL DEF Spec

\* Blocks stay aligned, whatever is called.
LEMMA AlignedNext ==
  ASSUME IInv, AlignedList(heap.blocks), [Next]_vars
  PROVE  AlignedList(heap.blocks)'
  <1>1. SoundHeap(heap) /\ Requests \subseteq Nat
    BY IInvFacts, OwnerAssumption
  <1>2. ASSUME NEW o \in Owner, NEW n \in Requests, DoMalloc(o, n)
        PROVE  AlignedList(heap.blocks)'
    <2> DEFINE r == Malloc(heap, n)
    <2>1. heap' = r.heap
      BY <1>2 DEF DoMalloc, Accepted, Rejected
    <2>2. r = Malloc(heap, n)
      OBVIOUS
    <2> HIDE DEF r
    <2>3. n \in Nat
      BY <1>1
    <2>4. r.heap = heap \/ \E b \in DOMAIN heap.blocks : Took(heap, b, n, r.heap)
      BY <2>2, <2>3, <1>1, MallocLemma
    <2>5. AlignedList(r.heap.blocks)
      BY <2>3, <2>4, TookAligned
    <2> QED
      BY <2>1, <2>5
  <1>3. ASSUME NEW o \in Owner, NEW n \in Requests, DoRealloc(o, n)
        PROVE  AlignedList(heap.blocks)'
    <2> DEFINE r == Realloc(heap, ptr[o], n)
               b == ptr[o] - HDR
    <2>1. heap' = r.heap
      BY <1>3 DEF DoRealloc, Accepted, Rejected
    <2>2. r = Realloc(heap, ptr[o], n)
      OBVIOUS
    <2>3. n \in Nat /\ b \in Taken(heap.blocks) /\ ptr[o] = b + HDR
      <3>1. ptr[o] # NULL
        BY <1>3 DEF DoRealloc
      <3> QED
        BY <3>1, <1>1, IInvFacts, HeapFacts DEF Blocks
    <2> HIDE DEF r, b
    <2>4. r.heap = heap \/ \E d : Replaced(heap, b, d, n, r.heap)
      BY <2>2, <2>3, <1>1, ReallocLemma
    <2>5. AlignedList(r.heap.blocks)
      BY <2>4 DEF Replaced
    <2> QED
      BY <2>1, <2>5
  <1>4. ASSUME NEW o \in Owner, DoFree(o)
        PROVE  AlignedList(heap.blocks)'
    <2> DEFINE g == Free(heap, ptr[o])
               b == ptr[o] - HDR
    <2>1. heap' = g
      BY <1>4 DEF DoFree
    <2>2. b \in Taken(heap.blocks) /\ ptr[o] - HDR = b /\ g = Free(heap, ptr[o])
      <3>1. ptr[o] # NULL
        BY <1>4 DEF DoFree
      <3> QED
        BY <3>1, IInvFacts DEF Blocks
    <2> HIDE DEF g, b
    <2>3. GaveBack(heap, b, g)
      BY <2>2, <1>1, FreeLemma
    <2> QED
      BY <2>1, <2>3 DEF GaveBack, AlignedList
  <1> QED
    BY <1>2, <1>3, <1>4 DEF Next, vars

\* Every block, and so every pointer malloc and realloc return, is aligned.
THEOREM AlwaysAligned == Spec => []Aligned
  <1>1. Init => AlignedList(heap.blocks)
    BY AlignedFacts DEF Init, MemInit, AlignedList
  <1>2. IInv /\ AlignedList(heap.blocks) /\ [Next]_vars => AlignedList(heap.blocks)'
    BY AlignedNext
  <1>3. IInv /\ AlignedList(heap.blocks) => Aligned
    <2> SUFFICES ASSUME IInv, NEW b \in List, Multiple(b)
                 PROVE  \E k \in 0 .. HeapEnd : b = k * ALIGN
      BY DEF Aligned, AlignedList, List, Blocks
    <2>1. PICK k \in Nat : b = k * ALIGN
      BY DEF Multiple
    <2>2. b <= HeapEnd
      BY IInvFacts, HeapFacts DEF SoundHeap, WellFormed, IsList, List, Blocks
    <2>3. k <= k * ALIGN
      BY HeapAssumption
    <2>4. k \in 0 .. HeapEnd
      BY <2>1, <2>2, <2>3, HeapFacts
    <2> QED
      BY <2>1, <2>4
  <1> QED
    BY <1>1, <1>2, <1>3, Invariance, PTL DEF Spec

-----------------------------------------------------------------------------
(***************************************************************************)
(* The promise: every step is one that Allocator allows.  A refusal needs  *)
(* that little of a block is more than what was asked for: a stretch that  *)
(* no owner holds begins with at most such a rest, and all that follows of *)
(* it but a header is one free block.                                      *)
(***************************************************************************)
Frugal ==
  \A o \in Owner :
    /\ ptr[o] = NULL => req[o] = 0
    /\ ptr[o] # NULL => Blocks[ptr[o] - HDR].size < Align16(req[o]) + HDR + ALIGN

PromiseInv == IInv /\ DataIntact /\ AlignedList(heap.blocks) /\ Frugal

\* malloc keeps the blocks of the others and gives little too much.
LEMMA MallocFrugal ==
  ASSUME IInv, Frugal, NEW o \in Owner, NEW n \in Requests, DoMalloc(o, n)
  PROVE  Frugal'
  <1> DEFINE r == Malloc(heap, n)
  <1>1. /\ SoundHeap(heap) /\ ptr \in [Owner -> Nat] /\ req \in [Owner -> Nat]
        /\ \A p \in Owner : ptr[p] # NULL => ptr[p] - HDR \in Taken(Blocks)
    BY IInvFacts
  <1>2. n \in Nat /\ r = Malloc(heap, n)
    BY OwnerAssumption
  <1>3. \/ /\ r.ptr # NULL /\ heap' = r.heap
           /\ ptr' = [ptr EXCEPT ![o] = r.ptr] /\ req' = [req EXCEPT ![o] = n]
        \/ r.ptr = NULL /\ heap' = r.heap /\ ptr' = ptr /\ req' = req
    BY DEF DoMalloc, Accepted, Rejected
  <1> HIDE DEF r
  <1>4. CASE r.ptr # NULL
    <2>1. \E b \in DOMAIN heap.blocks : Took(heap, b, n, r.heap)
      BY <1>1, <1>2, <1>4, MallocLemma
    <2>2. \A c \in Taken(Blocks) : r.heap.blocks[c].size = Blocks[c].size
      BY <2>1 DEF Took, Blocks
    <2>3. r.heap.blocks[r.ptr - HDR].size < Align16(n) + HDR + ALIGN
      BY <1>1, <1>2, <1>4, MallocTight
    <2> QED
      BY <2>2, <2>3, <1>1, <1>3, <1>4 DEF Frugal, Blocks
  <1>5. CASE r.ptr = NULL
    <2>1. heap' = heap /\ ptr' = ptr /\ req' = req
      BY <1>1, <1>2, <1>3, <1>5, MallocLemma
    <2> QED
      BY <2>1 DEF Frugal, Blocks
  <1> QED
    BY <1>4, <1>5

\* So does realloc.
LEMMA ReallocFrugal ==
  ASSUME IInv, Frugal, NEW o \in Owner, NEW n \in Requests, DoRealloc(o, n)
  PROVE  Frugal'
  <1> DEFINE r == Realloc(heap, ptr[o], n)
             b == ptr[o] - HDR
  <1>1. /\ SoundHeap(heap) /\ ptr \in [Owner -> Nat] /\ req \in [Owner -> Nat]
        /\ \A p \in Owner : ptr[p] # NULL => ptr[p] - HDR \in Taken(Blocks)
        /\ \A p, q \in Owner : ptr[p] # NULL /\ ptr[p] = ptr[q] => p = q
    BY IInvFacts
  <1>2. n \in Nat /\ r = Realloc(heap, ptr[o], n) /\ ptr[o] # NULL
    BY OwnerAssumption DEF DoRealloc
  <1>3. b \in Taken(heap.blocks) /\ ptr[o] = b + HDR
    BY <1>1, <1>2, HeapFacts DEF Blocks
  <1>4. \/ /\ r.ptr # NULL /\ heap' = r.heap
           /\ ptr' = [ptr EXCEPT ![o] = r.ptr] /\ req' = [req EXCEPT ![o] = n]
        \/ r.ptr = NULL /\ heap' = r.heap /\ ptr' = ptr /\ req' = req
    BY DEF DoRealloc, Accepted, Rejected
  <1>5. \A p \in Owner : p # o /\ ptr[p] # NULL => ptr[p] - HDR # b
    BY <1>1, <1>2, HeapFacts
  <1> HIDE DEF r, b
  <1>6. CASE r.ptr # NULL
    <2>1. \E d : Replaced(heap, b, d, n, r.heap)
      BY <1>1, <1>2, <1>3, <1>6, ReallocLemma
    <2>2. \A c \in Taken(Blocks) : c # b => r.heap.blocks[c].size = Blocks[c].size
      BY <2>1 DEF Replaced, Blocks
    <2>3. r.heap.blocks[r.ptr - HDR].size < Align16(n) + HDR + ALIGN
      BY <1>1, <1>2, <1>3, <1>6, ReallocTight
    <2> QED
      BY <2>2, <2>3, <1>1, <1>4, <1>5, <1>6 DEF Frugal, Blocks
  <1>7. CASE r.ptr = NULL
    <2>1. heap' = heap /\ ptr' = ptr /\ req' = req
      BY <1>1, <1>2, <1>3, <1>4, <1>7, ReallocLemma
    <2> QED
      BY <2>1 DEF Frugal, Blocks
  <1> QED
    BY <1>6, <1>7

\* free leaves the other blocks as they are.
LEMMA FreeFrugal ==
  ASSUME IInv, Frugal, NEW o \in Owner, DoFree(o)
  PROVE  Frugal'
  <1> DEFINE b == ptr[o] - HDR
             g == Free(heap, ptr[o])
  <1>1. /\ SoundHeap(heap) /\ ptr \in [Owner -> Nat] /\ req \in [Owner -> Nat]
        /\ \A p \in Owner : ptr[p] # NULL => ptr[p] - HDR \in Taken(Blocks)
        /\ \A p, q \in Owner : ptr[p] # NULL /\ ptr[p] = ptr[q] => p = q
    BY IInvFacts
  <1>2. /\ ptr[o] # NULL /\ heap' = g
        /\ ptr' = [ptr EXCEPT ![o] = NULL] /\ req' = [req EXCEPT ![o] = 0]
    BY DEF DoFree
  <1>3. b \in Taken(heap.blocks) /\ ptr[o] - HDR = b /\ g = Free(heap, ptr[o])
    BY <1>1, <1>2 DEF Blocks
  <1>4. \A p \in Owner : p # o /\ ptr[p] # NULL => ptr[p] - HDR # b
    BY <1>1, <1>2, HeapFacts
  <1> HIDE DEF b, g
  <1>5. GaveBack(heap, b, g)
    BY <1>1, <1>3, FreeLemma
  <1>6. \A c \in Taken(Blocks) : c # b => g.blocks[c].size = Blocks[c].size
    BY <1>5 DEF GaveBack, Blocks
  <1> QED
    BY <1>1, <1>2, <1>4, <1>6 DEF Frugal, Blocks

\* A free block that begins within the rest of the block before the stretch,
\* and ends in the stretch or behind it, is as long as a request and a granule.
LEMMA LongFree ==
  ASSUME NEW B, WellFormed(B), Separated(B), NEW a \in Nat, NEW n \in Nat,
         NEW l, l = n + 3 * (HDR + ALIGN - 1), a + l <= HeapEnd,
         \A c \in Taken(B) : c + HDR < a \/ a + l <= c + HDR,
         NEW d \in DOMAIN B, B[d].free, d <= a + HDR + 2 * (ALIGN - 1), a < End(B, d)
  PROVE  Align16(n) <= B[d].size
  <1>1. /\ d \in Nat /\ B[d].size \in Nat /\ HDR \in Nat /\ ALIGN \in Nat /\ HDR > 0 /\ ALIGN > 0
        /\ End(B, d) = d + HDR + B[d].size /\ l \in Nat
    BY Neighbours, ListFacts, HeapFacts DEF WellFormed, End
  <1>2. a + l - HDR <= End(B, d)
    <2>1. CASE B[d].next = NULL
      <3>1. End(B, d) = HeapEnd
        BY <2>1 DEF WellFormed, Linked
      <3> QED
        BY <3>1, <1>1, HeapFacts
    <2>2. CASE B[d].next # NULL
      <3>1. B[d].next \in DOMAIN B /\ B[d].next = End(B, d)
        BY <2>2, Neighbours
      <3>2. B[d].next \in Taken(B)
        BY <2>2, <3>1 DEF Separated, Taken
      <3> QED
        BY <3>1, <3>2, <1>1
    <2> QED
      BY <2>1, <2>2
  <1>3. n + ALIGN - 1 <= B[d].size
    BY <1>1, <1>2
  <1>4. Align16(n) \in Nat /\ Align16(n) < n + ALIGN
    BY AlignFacts
  <1> QED
    BY <1>1, <1>3, <1>4

\* Where nothing is held for the length of a request and its overhead, a free
\* block serves the request.
LEMMA Vacancy ==
  ASSUME NEW B, WellFormed(B), Separated(B), NEW a \in Nat, NEW n \in Nat,
         NEW l, l = n + 3 * (HDR + ALIGN - 1), HeapAddr <= a, a + l <= HeapEnd,
         \A c \in Taken(B) : c + HDR < a \/ a + l <= c + HDR,
         \A c \in Taken(B) : c + HDR <= a => End(B, c) <= a + HDR + 2 * (ALIGN - 1)
  PROVE  \E d \in DOMAIN B : B[d].free /\ Align16(n) <= B[d].size
  <1>1. /\ HDR \in Nat /\ ALIGN \in Nat /\ HDR > 0 /\ ALIGN > 0 /\ l \in Nat
        /\ HDR + 2 * (ALIGN - 1) < l /\ 2 * HDR + 2 * (ALIGN - 1) < l
        /\ HeapStart \in Nat /\ HeapEnd \in Nat
    BY HeapFacts
  <1>2. \A c \in DOMAIN B : /\ c \in Nat /\ B[c].size \in Nat /\ B[c].free \in BOOLEAN
                            /\ End(B, c) = c + HDR + B[c].size
    BY Neighbours, ListFacts DEF WellFormed, End
  <1>3. CASE a < HeapStart
    <2>1. HeapStart \in DOMAIN B
      BY DEF WellFormed, Linked
    <2>2. HeapStart < a + ALIGN
      <3>1. HeapStart < HeapAddr + ALIGN
        BY AlignFacts, HeapAssumption DEF HeapStart
      <3> QED
        BY <3>1, <1>1, HeapAssumption
    <2>3. B[HeapStart].free
      <3>1. ASSUME HeapStart \in Taken(B) PROVE FALSE
        <4>1. HeapStart + HDR < a \/ a + l <= HeapStart + HDR
          BY <3>1
        <4> QED
          BY <4>1, <2>2, <1>1, <1>3
      <3> QED
        BY <3>1, <2>1 DEF Taken
    <2>4. HeapStart <= a + HDR + 2 * (ALIGN - 1) /\ a < End(B, HeapStart)
      BY <2>1, <2>2, <1>1, <1>2, <1>3
    <2>5. Align16(n) <= B[HeapStart].size
      BY <2>1, <2>3, <2>4, LongFree
    <2> QED
      BY <2>1, <2>3, <2>5
  <1>4. CASE HeapStart <= a
    <2> DEFINE S == {b \in DOMAIN B : b <= a}
    <2>1. PICK c \in S : \A b \in S : b <= c
      <3>1. S \subseteq 0 .. a
        BY <1>2
      <3>2. S # {}
        BY <1>4 DEF WellFormed, Linked
      <3> HIDE DEF S
      <3> QED
        BY <3>1, <3>2, GreatestExists
    <2>2. c \in DOMAIN B /\ c <= a
      OBVIOUS
    <2>3. a < End(B, c)
      <3> SUFFICES ASSUME End(B, c) <= a PROVE FALSE
        BY <1>1, <1>2, <2>2
      <3>1. CASE B[c].next = NULL
        <4>1. End(B, c) = HeapEnd
          BY <2>2, <3>1 DEF WellFormed, Linked
        <4> QED
          BY <4>1, <1>1
      <3>2. CASE B[c].next # NULL
        <4>1. B[c].next \in DOMAIN B /\ B[c].next = End(B, c) /\ c < B[c].next
          BY <2>2, <3>2, Neighbours
        <4>2. B[c].next \in S
          BY <4>1
        <4> QED
          BY <4>1, <4>2, <2>1, <2>2, <1>2
      <3> QED
        BY <3>1, <3>2
    <2>4. CASE B[c].free
      <3>1. c <= a + HDR + 2 * (ALIGN - 1)
        BY <1>1, <1>2, <2>2
      <3>2. Align16(n) <= B[c].size
        BY <3>1, <2>2, <2>3, <2>4, LongFree
      <3> QED
        BY <3>2, <2>2, <2>4
    <2>5. CASE ~B[c].free
      <3> DEFINE d == End(B, c)
      <3>1. c \in Taken(B)
        BY <2>2, <2>5 DEF Taken
      <3>2. c + HDR < a \/ a + l <= c + HDR
        BY <3>1
      <3>3. c + HDR <= a
        BY <3>2, <1>1, <1>2, <2>2
      <3>4. d <= a + HDR + 2 * (ALIGN - 1)
        BY <3>1, <3>3
      <3>5. d \in Nat /\ d # HeapEnd
        BY <3>4, <1>1, <1>2, <2>2
      <3>6. B[c].next # NULL
        BY <3>5, <2>2 DEF WellFormed, Linked
      <3>7. d \in DOMAIN B
        BY <3>6, <2>2, Neighbours
      <3> HIDE DEF d
      <3>8. a < d
        BY <2>3 DEF d
      <3>9. B[d].free
        <4>1. ASSUME d \in Taken(B) PROVE FALSE
          <5>1. d + HDR < a \/ a + l <= d + HDR
            BY <4>1
          <5> QED
            BY <5>1, <3>4, <3>5, <3>8, <1>1
        <4> QED
          BY <4>1, <3>7 DEF Taken
      <3>10. a < End(B, d)
        BY <3>5, <3>7, <3>8, <1>1, <1>2
      <3>11. Align16(n) <= B[d].size
        BY <3>4, <3>7, <3>9, <3>10, LongFree
      <3> QED
        BY <3>7, <3>9, <3>11
    <2> QED
      BY <2>4, <2>5
  <1> QED
    BY <1>1, <1>3, <1>4

\* A multiple of the granule leaves no remainder.
LEMMA NoRemainder ==
  ASSUME NEW v, Multiple(v)
  PROVE  v % ALIGN = 0
  <1>1. PICK k \in Nat : v = k * ALIGN
    BY DEF Multiple
  <1> DEFINE q == v \div ALIGN
             r == v % ALIGN
  <1>2. /\ q \in Int /\ r \in Int /\ 0 <= r /\ r < ALIGN
        /\ v = ALIGN * q + r /\ ALIGN \in Nat /\ ALIGN > 0
    BY <1>1, HeapFacts
  <1> HIDE DEF q, r
  <1>3. r = ALIGN * (k - q)
    BY <1>1, <1>2
  <1>4. CASE k - q >= 1
    <2>1. ALIGN * (k - q) >= ALIGN
      BY <1>2, <1>4
    <2> QED
      BY <2>1, <1>2, <1>3
  <1>5. CASE k - q <= -1
    <2>1. ALIGN * (k - q) <= -ALIGN
      BY <1>2, <1>5
    <2> QED
      BY <2>1, <1>2, <1>3
  <1>6. CASE k - q = 0
    BY <1>2, <1>3, <1>6 DEF r
  <1> QED
    BY <1>2, <1>4, <1>5, <1>6

\* What is read of the regions is what their owners wrote.
LEMMA ReadBack ==
  ASSUME NEW q \in [Owner -> Nat], NEW n \in [Owner -> Nat], NEW m,
         \A p \in Owner : q[p] = NULL => n[p] = 0,
         \A p \in Owner : q[p] # NULL => \A i \in 0 .. (n[p] - 1) : m[q[p] + i] = p
  PROVE  [p \in Owner |-> [i \in 0 .. (n[p] - 1) |-> m[q[p] + i]]] =
         [p \in Owner |-> [i \in 0 .. (n[p] - 1) |-> p]]
  <1>1. ASSUME NEW p \in Owner
        PROVE  [i \in 0 .. (n[p] - 1) |-> m[q[p] + i]] = [i \in 0 .. (n[p] - 1) |-> p]
    <2>1. CASE q[p] = NULL
      <3>1. 0 .. (n[p] - 1) = {}
        BY <2>1
      <3> QED
        BY <3>1
    <2>2. CASE q[p] # NULL
      BY <2>2
    <2> QED
      BY <2>1, <2>2
  <1> QED
    BY <1>1

\* The invariant as a predicate on a heap, its owners' pointers and sizes, and
\* the bytes of memory.
Kept(h, at, len, m) ==
  /\ SoundHeap(h) /\ AlignedList(h.blocks)
  /\ at \in [Owner -> Nat] /\ len \in [Owner -> Nat]
  /\ \A p \in Owner : at[p] = NULL => len[p] = 0
  /\ \A p \in Owner : at[p] # NULL =>
       /\ at[p] - HDR \in Taken(h.blocks)
       /\ len[p] <= h.blocks[at[p] - HDR].size
       /\ h.blocks[at[p] - HDR].size < Align16(len[p]) + HDR + ALIGN
       /\ \A i \in 0 .. (len[p] - 1) : m[at[p] + i] = p
  /\ \A p, q \in Owner : at[p] # NULL /\ at[p] = at[q] => p = q
  /\ \A b \in Taken(h.blocks) : \E p \in Owner : at[p] # NULL /\ at[p] = b + HDR

LEMMA KeptNow ==
  ASSUME PromiseInv
  PROVE  Kept(heap, ptr, req, mem)
  <1>1. \A p \in Owner : ptr[p] # NULL => \A i \in 0 .. (req[p] - 1) : mem[ptr[p] + i] = p
    BY DEF PromiseInv, DataIntact, Live
  <1> QED
    BY <1>1, IInvFacts DEF PromiseInv, Frugal, Kept, Blocks

LEMMA KeptNext ==
  ASSUME PromiseInv'
  PROVE  Kept(heap', ptr', req', mem')
  <1>1. /\ SoundHeap(heap') /\ AlignedList(heap'.blocks)
        /\ ptr' \in [Owner -> Nat] /\ req' \in [Owner -> Nat]
    BY DEF PromiseInv, IInv, TypeOK, Tiled, Coalesced, MaxAllocExact, SoundHeap, WellFormed,
           Blocks
  <1>2. /\ \A p \in Owner : ptr'[p] # NULL => /\ ptr'[p] - HDR \in Taken(heap'.blocks)
                                              /\ req'[p] <= heap'.blocks[ptr'[p] - HDR].size
        /\ \A p, q \in Owner : ptr'[p] # NULL /\ ptr'[p] = ptr'[q] => p = q
        /\ \A b \in Taken(heap'.blocks) : \E p \in Owner : ptr'[p] # NULL /\ ptr'[p] = b + HDR
    BY DEF PromiseInv, IInv, Accounted, Live, List, Taken, Blocks
  <1>3. \A p \in Owner : ptr'[p] # NULL => \A i \in 0 .. (req'[p] - 1) : mem'[ptr'[p] + i] = p
    BY DEF PromiseInv, DataIntact, Live
  <1>4. \A p \in Owner :
          /\ ptr'[p] = NULL => req'[p] = 0
          /\ ptr'[p] # NULL =>
               heap'.blocks[ptr'[p] - HDR].size < Align16(req'[p]) + HDR + ALIGN
    BY DEF PromiseInv, Frugal, Blocks
  <1> QED
    BY <1>1, <1>2, <1>3, <1>4 DEF Kept

\* The allocator starts with nothing promised.
LEMMA PromiseInit ==
  ASSUME Init
  PROVE  Promise!Init
  <1>1. ptr = [o \in Owner |-> 0] /\ req = [o \in Owner |-> 0] /\ refused = {}
    BY DEF Init, NULL
  <1>2. [o \in Owner |-> [addr |-> ptr[o], len |-> req[o]]] = [o \in Owner |-> Promise!None]
    BY <1>1 DEF Promise!None
  <1>3. [o \in Owner |-> [i \in 0 .. (req[o] - 1) |-> mem[ptr[o] + i]]] =
        [o \in Owner |-> Promise!Own(o, 0)]
    <2>1. ASSUME NEW o \in Owner
          PROVE  [i \in 0 .. (req[o] - 1) |-> mem[ptr[o] + i]] = Promise!Own(o, 0)
      <3>1. 0 .. (req[o] - 1) = {} /\ 0 .. (0 - 1) = {}
        BY <1>1
      <3> QED
        BY <3>1 DEF Promise!Own
    <2> QED
      BY <2>1
  <1> QED
    BY <1>1, <1>2, <1>3 DEF Promise!Init

\* Where the owners' regions lie: in the heap, each in a block of its own.
LEMMA RegionFacts ==
  ASSUME NEW h, NEW at, NEW len, NEW m, Kept(h, at, len, m), NEW p \in Owner, at[p] # NULL,
         NEW c, c = at[p] - HDR
  PROVE  /\ c \in Taken(h.blocks) /\ c \in Nat /\ at[p] = c + HDR /\ len[p] \in Nat
         /\ HeapAddr <= c /\ End(h.blocks, c) <= HeapEnd
         /\ at[p] + len[p] <= End(h.blocks, c)
         /\ at[p] % ALIGN = 0
         /\ End(h.blocks, c) < at[p] + Align16(len[p]) + HDR + ALIGN
         /\ End(h.blocks, c) \in Nat
  <1>1. /\ c \in Taken(h.blocks) /\ len[p] \in Nat /\ at[p] \in Nat
        /\ len[p] <= h.blocks[c].size /\ WellFormed(h.blocks)
        /\ h.blocks[c].size < Align16(len[p]) + HDR + ALIGN
    BY DEF Kept, SoundHeap
  <1>2. /\ c \in Nat /\ h.blocks[c].size \in Nat /\ HeapStart <= c
        /\ End(h.blocks, c) <= HeapEnd
        /\ End(h.blocks, c) = c + HDR + h.blocks[c].size /\ at[p] = c + HDR
    <2>1. c \in DOMAIN h.blocks
      BY <1>1 DEF Taken
    <2>2. End(h.blocks, c) <= HeapEnd
      BY <1>1, <2>1 DEF WellFormed, Linked
    <2> QED
      BY <1>1, <2>1, <2>2, Neighbours, ListFacts, HeapFacts DEF WellFormed, End
  <1>3. HeapAddr <= HeapStart
    BY AlignFacts, HeapAssumption DEF HeapStart
  <1>4. Multiple(at[p])
    <2>1. Multiple(c)
      BY <1>1 DEF Kept, AlignedList, Taken
    <2> QED
      BY <2>1, <1>2, AlignedFacts
  <1>5. at[p] % ALIGN = 0
    BY <1>4, NoRemainder
  <1>6. Align16(len[p]) \in Nat
    BY <1>1, AlignFacts
  <1> QED
    BY <1>1, <1>2, <1>3, <1>5, <1>6, HeapFacts, HeapAssumption

\* Regions of different owners do not overlap, and begin at different places.
LEMMA RegionsApart ==
  ASSUME NEW h, NEW at, NEW len, NEW m, Kept(h, at, len, m),
         NEW p \in Owner, NEW q \in Owner, p # q, at[p] # NULL, at[q] # NULL
  PROVE  /\ at[p] # at[q]
         /\ (at[p] .. (at[p] + len[p] - 1)) \cap (at[q] .. (at[q] + len[q] - 1)) = {}
  <1>1. at[p] # at[q]
    BY DEF Kept
  <1>2. PICK c : c = at[p] - HDR
    OBVIOUS
  <1>3. PICK d : d = at[q] - HDR
    OBVIOUS
  <1>4. /\ c \in Taken(h.blocks) /\ c \in Nat /\ at[p] = c + HDR /\ len[p] \in Nat
        /\ at[p] + len[p] <= End(h.blocks, c) /\ End(h.blocks, c) \in Nat
    BY <1>2, RegionFacts
  <1>5. /\ d \in Taken(h.blocks) /\ d \in Nat /\ at[q] = d + HDR /\ len[q] \in Nat
        /\ at[q] + len[q] <= End(h.blocks, d) /\ End(h.blocks, d) \in Nat
    BY <1>3, RegionFacts
  <1>6. Disjoint(h.blocks)
    BY DEF Kept, SoundHeap, WellFormed
  <1>7. c # d
    BY <1>1, <1>4, <1>5
  <1>8. End(h.blocks, c) <= d \/ End(h.blocks, d) <= c
    BY <1>4, <1>5, <1>6, <1>7 DEF Disjoint, Taken
  <1>9. at[p] + len[p] <= at[q] \/ at[q] + len[q] <= at[p]
    BY <1>4, <1>5, <1>8, HeapFacts
  <1>10. at[p] \in Nat /\ at[q] \in Nat
    BY <1>4, <1>5, HeapFacts
  <1> QED
    BY <1>1, <1>4, <1>5, <1>9, <1>10

\* The contents of all regions, as the promise sees them.
LEMMA AllRead ==
  ASSUME NEW h, NEW at, NEW len, NEW m, Kept(h, at, len, m)
  PROVE  [p \in Owner |-> [i \in 0 .. (len[p] - 1) |-> m[at[p] + i]]] =
         [p \in Owner |-> [i \in 0 .. (len[p] - 1) |-> p]]
  BY ReadBack DEF Kept

\* What a region looks like among the others, and what all of them hold.
Regular(at, len, o) ==
  /\ at[o] \in Nat /\ HeapAddr + HDR <= at[o] /\ at[o] + len[o] <= HeapEnd
  /\ at[o] % ALIGN = 0
  /\ \A p \in Owner \ {o} : at[p] # NULL =>
       /\ at[p] # at[o]
       /\ (at[p] .. (at[p] + len[p] - 1)) \cap (at[o] .. (at[o] + len[o] - 1)) = {}

AsWritten(at, len, m) ==
  [p \in Owner |-> [i \in 0 .. (len[p] - 1) |-> m[at[p] + i]]] =
  [p \in Owner |-> [i \in 0 .. (len[p] - 1) |-> p]]

LEMMA RegularRegions ==
  ASSUME NEW h, NEW at, NEW len, NEW m, Kept(h, at, len, m)
  PROVE  /\ AsWritten(at, len, m)
         /\ \A o \in Owner : at[o] # NULL => Regular(at, len, o)
  <1>1. AsWritten(at, len, m)
    BY AllRead DEF AsWritten
  <1>2. ASSUME NEW o \in Owner, at[o] # NULL
        PROVE  Regular(at, len, o)
    <2>1. PICK c : c = at[o] - HDR
      OBVIOUS
    <2>2. /\ c \in Nat /\ at[o] = c + HDR /\ len[o] \in Nat
          /\ HeapAddr <= c /\ End(h.blocks, c) <= HeapEnd
          /\ at[o] + len[o] <= End(h.blocks, c) /\ at[o] % ALIGN = 0
          /\ End(h.blocks, c) \in Nat
      BY <1>2, <2>1, RegionFacts
    <2>3. \A p \in Owner \ {o} : at[p] # NULL =>
            /\ at[p] # at[o]
            /\ (at[p] .. (at[p] + len[p] - 1)) \cap (at[o] .. (at[o] + len[o] - 1)) = {}
      BY <1>2, RegionsApart
    <2>4. /\ at[o] \in Nat /\ HeapAddr + HDR <= at[o] /\ at[o] + len[o] <= HeapEnd
          /\ at[o] % ALIGN = 0
      BY <2>2, HeapFacts, HeapAssumption
    <2> QED
      BY <2>3, <2>4 DEF Regular
  <1> QED
    BY <1>1, <1>2

LEMMA RegularNext ==
  ASSUME PromiseInv'
  PROVE  /\ AsWritten(ptr', req', mem')
         /\ \A o \in Owner : ptr'[o] # NULL => Regular(ptr', req', o)
  <1>1. Kept(heap', ptr', req', mem')
    BY KeptNext
  <1> QED
    BY <1>1, RegularRegions

\* A call that got a region is one that the promise grants.
LEMMA GrantPromised ==
  ASSUME PromiseInv, PromiseInv', NEW o \in Owner, NEW n \in Nat, NEW a, a # NULL,
         ptr' = [ptr EXCEPT ![o] = a], req' = [req EXCEPT ![o] = n], refused' = {}
  PROVE  Promise!Grant(o, n)
  <1> DEFINE r == [addr |-> a, len |-> n]
  <1>1. ptr \in [Owner -> Nat] /\ req \in [Owner -> Nat] /\ AsWritten(ptr, req, mem)
    BY KeptNow, RegularRegions DEF Kept
  <1>2. /\ ptr'[o] = a /\ req'[o] = n
        /\ \A p \in Owner \ {o} : ptr'[p] = ptr[p] /\ req'[p] = req[p]
    BY <1>1
  <1>3. AsWritten(ptr', req', mem') /\ Regular(ptr', req', o)
    <2>1. ptr'[o] # NULL
      BY <1>2
    <2> QED
      BY <2>1, RegularNext
  <1>4. /\ a \in Nat /\ HeapAddr + HDR <= a /\ a + n <= HeapEnd /\ a % ALIGN = 0
        /\ \A p \in Owner \ {o} : ptr[p] # NULL =>
             /\ ptr[p] # a
             /\ (ptr[p] .. (ptr[p] + req[p] - 1)) \cap (a .. (a + n - 1)) = {}
    BY <1>2, <1>3 DEF Regular
  <1>5. [p \in Owner |-> [addr |-> ptr'[p], len |-> req'[p]]] =
        [[p \in Owner |-> [addr |-> ptr[p], len |-> req[p]]] EXCEPT ![o] = r]
    BY <1>1, <1>2
  <1>6. [p \in Owner |-> [i \in 0 .. (req'[p] - 1) |-> mem'[ptr'[p] + i]]] =
        [[p \in Owner |-> [i \in 0 .. (req[p] - 1) |-> mem[ptr[p] + i]]]
           EXCEPT ![o] = Promise!Own(o, n)]
    <2>1. [p \in Owner |-> [i \in 0 .. (req[p] - 1) |-> mem[ptr[p] + i]]] =
          [p \in Owner |-> [i \in 0 .. (req[p] - 1) |-> p]]
      BY <1>1 DEF AsWritten
    <2>2. [p \in Owner |-> [i \in 0 .. (req'[p] - 1) |-> mem'[ptr'[p] + i]]] =
          [p \in Owner |-> [i \in 0 .. (req'[p] - 1) |-> p]]
      BY <1>3 DEF AsWritten
    <2>3. [p \in Owner |-> [i \in 0 .. (req'[p] - 1) |-> p]] =
          [[p \in Owner |-> [i \in 0 .. (req[p] - 1) |-> p]] EXCEPT ![o] = Promise!Own(o, n)]
      <3>1. ASSUME NEW p \in Owner
            PROVE  [i \in 0 .. (req'[p] - 1) |-> p] =
                   IF p = o THEN Promise!Own(o, n) ELSE [i \in 0 .. (req[p] - 1) |-> p]
        BY <1>2 DEF Promise!Own
      <3> QED
        <4>1. PICK F : F = [p \in Owner |-> [i \in 0 .. (req[p] - 1) |-> p]]
          OBVIOUS
        <4>2. [p \in Owner |-> [i \in 0 .. (req'[p] - 1) |-> p]] =
              [p \in Owner |-> IF p = o THEN Promise!Own(o, n) ELSE F[p]]
          <5>1. ASSUME NEW p \in Owner
                PROVE  [i \in 0 .. (req'[p] - 1) |-> p] =
                       IF p = o THEN Promise!Own(o, n) ELSE F[p]
            BY <3>1, <4>1, Zenon
          <5>2. PICK G, H : /\ G = [p \in Owner |-> [i \in 0 .. (req'[p] - 1) |-> p]]
                            /\ H = [p \in Owner |-> IF p = o THEN Promise!Own(o, n) ELSE F[p]]
            OBVIOUS
          <5>3. \A p \in Owner : G[p] = H[p]
            BY <5>1, <5>2, Zenon
          <5>4. DOMAIN G = Owner /\ DOMAIN H = Owner /\ G = [p \in Owner |-> G[p]]
                  /\ H = [p \in Owner |-> H[p]]
            BY <5>2, Zenon
          <5> QED
            BY <5>2, <5>3, <5>4, Zenon
        <4>3. [F EXCEPT ![o] = Promise!Own(o, n)] =
              [p \in Owner |-> IF p = o THEN Promise!Own(o, n) ELSE F[p]]
          BY <4>1
        <4> QED
          BY <4>1, <4>2, <4>3, Zenon
    <2> QED
      BY <2>1, <2>2, <2>3
  <1>7. Promise!Grantable(o, r)
    <2>1. a > 0 /\ a % ALIGN = 0
      BY <1>4, HeapFacts, HeapAssumption
    <2>2. a .. (a + n - 1) \subseteq Bytes
      BY <1>4, HeapFacts, HeapAssumption DEF Bytes
    <2>3. ASSUME NEW p \in Owner \ {o}, ptr[p] # 0
          PROVE  /\ ptr[p] # a
                 /\ (ptr[p] .. (ptr[p] + req[p] - 1)) \cap (a .. (a + n - 1)) = {}
      BY <2>3, <1>4 DEF NULL
    <2> QED
      BY <2>1, <2>2, <2>3 DEF Promise!Grantable, Promise!Span, Promise!Holds
  <1>8. a \in Bytes \cup {1 + b : b \in Bytes}
    <2>1. a - 1 \in Bytes /\ a = 1 + (a - 1)
      BY <1>4, HeapFacts, HeapAssumption DEF Bytes
    <2> QED
      BY <2>1
  <1> QED
    BY <1>5, <1>6, <1>7, <1>8 DEF Promise!Grant

\* A stretch that nobody holds, long enough for a request and its overhead,
\* would have served the request.
LEMMA NoRoom ==
  ASSUME NEW h, NEW at, NEW len, NEW m, Kept(h, at, len, m), NEW n \in Nat,
         \A b \in DOMAIN h.blocks : h.blocks[b].free => h.blocks[b].size < Align16(n),
         NEW a \in Bytes, NEW l, l = n + 3 * (HDR + ALIGN - 1),
         a .. (a + l - 1) \subseteq Bytes,
         \A p \in Owner : at[p] # NULL =>
           /\ at[p] \notin a .. (a + l - 1)
           /\ a \notin at[p] .. (at[p] + len[p] - 1)
  PROVE  FALSE
  <1>1. /\ HDR \in Nat /\ ALIGN \in Nat /\ HDR > 0 /\ ALIGN > 0 /\ HeapAddr \in Nat
        /\ a \in Nat /\ HeapAddr <= a /\ HeapEnd \in Nat /\ l \in Nat /\ l > 0
    BY HeapFacts, HeapAssumption DEF Bytes
  <1>2. a + l <= HeapEnd
    <2>1. a + l - 1 \in Bytes
      BY <1>1
    <2> QED
      BY <2>1, <1>1 DEF Bytes
  <1>3. ASSUME NEW c \in Taken(h.blocks)
        PROVE  /\ c + HDR < a \/ a + l <= c + HDR
               /\ c + HDR <= a => End(h.blocks, c) <= a + HDR + 2 * (ALIGN - 1)
    <2>1. PICK p \in Owner : at[p] # NULL /\ at[p] = c + HDR
      BY DEF Kept
    <2>2. c \in Nat
      BY ListFacts DEF Kept, SoundHeap, WellFormed, Taken
    <2>3. c = at[p] - HDR
      BY <2>1, <2>2, <1>1
    <2>4. /\ len[p] \in Nat /\ End(h.blocks, c) \in Nat
          /\ End(h.blocks, c) < at[p] + Align16(len[p]) + HDR + ALIGN
      BY <2>1, <2>3, RegionFacts
    <2>5. Align16(len[p]) \in Nat /\ Align16(len[p]) < len[p] + ALIGN
      BY <2>4, AlignFacts
    <2>6. /\ c + HDR \notin a .. (a + l - 1)
          /\ a \notin (c + HDR) .. (c + HDR + len[p] - 1)
      BY <2>1
    <2>7. c + HDR < a \/ a + l <= c + HDR
      BY <2>2, <2>6, <1>1
    <2>8. ASSUME c + HDR <= a PROVE End(h.blocks, c) <= a + HDR + 2 * (ALIGN - 1)
      <3>1. c + HDR + len[p] <= a
        BY <2>2, <2>4, <2>6, <2>8, <1>1
      <3>2. End(h.blocks, c) < c + HDR + Align16(len[p]) + HDR + ALIGN
        BY <2>1, <2>4
      <3> QED
        BY <3>1, <3>2, <2>2, <2>4, <2>5, <1>1
    <2> QED
      BY <2>7, <2>8
  <1>4. WellFormed(h.blocks) /\ Separated(h.blocks)
    BY DEF Kept, SoundHeap
  <1>5. PICK d \in DOMAIN h.blocks : h.blocks[d].free /\ Align16(n) <= h.blocks[d].size
    BY <1>1, <1>2, <1>3, <1>4, Vacancy
  <1>6. h.blocks[d].size < Align16(n)
    BY <1>5
  <1>7. h.blocks[d].size \in Nat /\ Align16(n) \in Nat
    BY <1>4, Neighbours, AlignFacts
  <1> QED
    BY <1>5, <1>6, <1>7

\* The empty heap serves every request up to its capacity.
LEMMA EmptyServes ==
  ASSUME NEW n \in Nat, n <= ((HeapEnd - HeapStart - HDR) \div ALIGN) * ALIGN
  PROVE  \E b \in DOMAIN MemInit.blocks :
           MemInit.blocks[b].free /\ Align16(n) <= MemInit.blocks[b].size
  <1> DEFINE size == HeapSize - (HeapStart - HeapAddr) - HDR
             k == (HeapEnd - HeapStart - HDR) \div ALIGN
  <1>1. size = HeapEnd - HeapStart - HDR /\ size \in Nat
    BY HeapFacts, HeapAssumption DEF HeapEnd
  <1>2. k \in Nat /\ k * ALIGN <= size
    <2>1. k = size \div ALIGN
      BY <1>1
    <2> HIDE DEF size, k
    <2> QED
      BY <2>1, <1>1, DivFacts, HeapFacts
  <1>3. /\ MemInit.blocks[HeapStart] = Header(TRUE, size, NULL, NULL)
        /\ HeapStart \in DOMAIN MemInit.blocks
    BY DEF MemInit
  <1> HIDE DEF size
  <1>4. MemInit.blocks[HeapStart].free /\ MemInit.blocks[HeapStart].size = size
    BY <1>3 DEF Header
  <1>5. n <= k * ALIGN
    OBVIOUS
  <1> HIDE DEF k
  <1>6. Multiple(k * ALIGN)
    BY <1>2 DEF Multiple
  <1>7. Align16(n) <= k * ALIGN
    BY <1>5, <1>6, AlignLeast
  <1>8. k * ALIGN \in Nat /\ Align16(n) \in Nat
    BY <1>2, HeapFacts, AlignFacts, SMTT(30)
  <1>9. Align16(n) <= size
    BY <1>1, <1>2, <1>7, <1>8
  <1> QED
    BY <1>3, <1>4, <1>9

\* A refused call is one that the promise lets the allocator refuse.
LEMMA RefusePromised ==
  ASSUME PromiseInv, NEW n \in Nat, UNCHANGED <<ptr, req, mem>>, refused' = {n},
         \A b \in DOMAIN heap.blocks : heap.blocks[b].free => heap.blocks[b].size < Align16(n)
  PROVE  Promise!Refuse(n)
  <1> DEFINE cap == ((HeapEnd - HeapStart - HDR) \div ALIGN) * ALIGN
             l == n + 3 * (HDR + ALIGN - 1)
  <1>1. Kept(heap, ptr, req, mem)
    BY KeptNow
  <1>2. n > cap \/ \E p \in Owner : ptr[p] # 0
    <2> SUFFICES ASSUME ~(n > cap), \A p \in Owner : ptr[p] = NULL PROVE FALSE
      BY DEF NULL
    <2>1. SoundHeap(heap) /\ Taken(heap.blocks) = {}
      BY <1>1 DEF Kept
    <2>2. heap = MemInit
      BY <2>1, OneFreeBlock
    <2>3. n <= cap
      <3>1. HeapEnd - HeapStart - HDR \in Nat
        BY HeapFacts
      <3>2. (HeapEnd - HeapStart - HDR) \div ALIGN \in Nat
        BY <3>1, DivFacts, HeapFacts
      <3> QED
        BY <3>2, HeapFacts
    <2>4. PICK b \in DOMAIN MemInit.blocks :
            MemInit.blocks[b].free /\ Align16(n) <= MemInit.blocks[b].size
      BY <2>3, EmptyServes
    <2>5. MemInit.blocks[b].size < Align16(n)
      BY <2>2, <2>4
    <2>6. MemInit.blocks[b].size \in Nat /\ Align16(n) \in Nat
      BY MemInitLemma, Neighbours, AlignFacts DEF SoundHeap
    <2> QED
      BY <2>4, <2>5, <2>6
  <1>3. ASSUME NEW a \in Bytes, a .. (a + l - 1) \subseteq Bytes,
               \A p \in Owner : ptr[p] # NULL =>
                 /\ ptr[p] \notin a .. (a + l - 1)
                 /\ a \notin ptr[p] .. (ptr[p] + req[p] - 1)
        PROVE  FALSE
    BY <1>1, <1>3, NoRoom
  <1>4. ~\E a \in Bytes : Promise!Vacant(a, l)
    <2>1. ASSUME NEW a \in Bytes, Promise!Vacant(a, l) PROVE FALSE
      <3>1. /\ a .. (a + l - 1) \subseteq Bytes
            /\ \A p \in Owner : ptr[p] # NULL =>
                 /\ ptr[p] \notin a .. (a + l - 1)
                 /\ a \notin ptr[p] .. (ptr[p] + req[p] - 1)
        BY <2>1 DEF Promise!Vacant, Promise!Holds, Promise!Span, NULL
      <3> QED
        BY <3>1, <1>3
    <2> QED
      BY <2>1
  <1> QED
    BY <1>2, <1>4 DEF Promise!Refuse, Promise!Holds

\* A freed region is one released.
LEMMA ReleasePromised ==
  ASSUME PromiseInv, PromiseInv', NEW o \in Owner, DoFree(o)
  PROVE  Promise!Release(o)
  <1>1. /\ ptr \in [Owner -> Nat] /\ req \in [Owner -> Nat]
        /\ AsWritten(ptr, req, mem) /\ AsWritten(ptr', req', mem')
    BY KeptNow, RegularRegions, RegularNext DEF Kept
  <1>2. /\ ptr[o] # 0 /\ refused' = {}
        /\ ptr' = [ptr EXCEPT ![o] = 0] /\ req' = [req EXCEPT ![o] = 0]
    BY DEF DoFree, NULL
  <1>3. [p \in Owner |-> [addr |-> ptr'[p], len |-> req'[p]]] =
        [[p \in Owner |-> [addr |-> ptr[p], len |-> req[p]]] EXCEPT ![o] = Promise!None]
    BY <1>1, <1>2 DEF Promise!None
  <1>4. [p \in Owner |-> [i \in 0 .. (req'[p] - 1) |-> mem'[ptr'[p] + i]]] =
        [[p \in Owner |-> [i \in 0 .. (req[p] - 1) |-> mem[ptr[p] + i]]]
           EXCEPT ![o] = Promise!Own(o, 0)]
    <2>1. [p \in Owner |-> [i \in 0 .. (req[p] - 1) |-> mem[ptr[p] + i]]] =
          [p \in Owner |-> [i \in 0 .. (req[p] - 1) |-> p]]
      BY <1>1 DEF AsWritten
    <2>2. [p \in Owner |-> [i \in 0 .. (req'[p] - 1) |-> mem'[ptr'[p] + i]]] =
          [p \in Owner |-> [i \in 0 .. (req'[p] - 1) |-> p]]
      BY <1>1 DEF AsWritten
    <2>3. [p \in Owner |-> [i \in 0 .. (req'[p] - 1) |-> p]] =
          [[p \in Owner |-> [i \in 0 .. (req[p] - 1) |-> p]] EXCEPT ![o] = Promise!Own(o, 0)]
      <3>1. ASSUME NEW p \in Owner
            PROVE  [i \in 0 .. (req'[p] - 1) |-> p] =
                   IF p = o THEN Promise!Own(o, 0) ELSE [i \in 0 .. (req[p] - 1) |-> p]
        BY <1>1, <1>2 DEF Promise!Own
      <3> QED
        BY <3>1
    <2> QED
      BY <2>1, <2>2, <2>3
  <1>5. Promise!Holds(o)
    BY <1>2 DEF Promise!Holds
  <1> QED
    BY <1>2, <1>3, <1>4, <1>5 DEF Promise!Release

\* malloc obtains a region or is refused.
LEMMA MallocPromised ==
  ASSUME PromiseInv, PromiseInv', NEW o \in Owner, NEW n \in Requests, DoMalloc(o, n)
  PROVE  Promise!Obtain(o, n) \/ Promise!Refuse(n)
  <1> DEFINE r == Malloc(heap, n)
  <1>1. n \in Nat /\ SoundHeap(heap) /\ ptr[o] = 0
    BY IInvFacts, OwnerAssumption DEF PromiseInv, DoMalloc, NULL
  <1>2. CASE Accepted(o, n, r, Stored(mem, r.heap.blocks), 0)
    <2>1. Promise!Grant(o, n)
      BY <1>1, <1>2, GrantPromised DEF Accepted
    <2> QED
      BY <2>1, <1>1 DEF Promise!Obtain, Promise!Holds
  <1>3. CASE Rejected(n, r)
    <2>1. \A b \in DOMAIN heap.blocks : heap.blocks[b].free => heap.blocks[b].size < Align16(n)
      BY <1>1, <1>3, MallocRefused DEF Rejected
    <2> QED
      BY <2>1, <1>1, <1>3, RefusePromised DEF Rejected
  <1> QED
    BY <1>2, <1>3 DEF DoMalloc

\* realloc resizes a region or is refused.
LEMMA ReallocPromised ==
  ASSUME PromiseInv, PromiseInv', NEW o \in Owner, NEW n \in Requests, DoRealloc(o, n)
  PROVE  Promise!Resize(o, n) \/ Promise!Refuse(n)
  <1> DEFINE r == Realloc(heap, ptr[o], n)
  <1>1. n \in Nat /\ SoundHeap(heap) /\ ptr[o] # NULL
    BY IInvFacts, OwnerAssumption DEF PromiseInv, DoRealloc
  <1>2. CASE Accepted(o, n, r, Moved(mem, ptr[o], n, r), req[o])
    <2>1. Promise!Grant(o, n)
      BY <1>1, <1>2, GrantPromised DEF Accepted
    <2> QED
      BY <2>1, <1>1 DEF Promise!Resize, Promise!Holds, NULL
  <1>3. CASE Rejected(n, r)
    <2>1. PICK b \in Taken(heap.blocks) : ptr[o] = b + HDR
      <3>1. ptr[o] - HDR \in Taken(heap.blocks) /\ ptr[o] \in Nat
        BY <1>1, IInvFacts DEF PromiseInv, Blocks
      <3>2. ptr[o] = (ptr[o] - HDR) + HDR
        BY <3>1, HeapFacts
      <3> QED
        BY <3>1, <3>2
    <2>2. \A c \in DOMAIN heap.blocks : heap.blocks[c].free => heap.blocks[c].size < Align16(n)
      BY <2>1, <1>1, <1>3, ReallocRefused DEF Rejected
    <2> QED
      BY <2>2, <1>1, <1>3, RefusePromised DEF Rejected
  <1> QED
    BY <1>2, <1>3 DEF DoRealloc

\* The inductive invariant of the refinement.
LEMMA PromiseNext ==
  ASSUME PromiseInv, [Next]_vars, IInv'
  PROVE  PromiseInv'
  <1>1. AlignedList(heap.blocks)'
    BY AlignedNext DEF PromiseInv
  <1>2. ASSUME NEW o \in Owner, NEW n \in Requests, DoMalloc(o, n)
        PROVE  DataIntact' /\ Frugal'
    BY <1>2, MallocKeeps, MallocFrugal DEF PromiseInv
  <1>3. ASSUME NEW o \in Owner, NEW n \in Requests, DoRealloc(o, n)
        PROVE  DataIntact' /\ Frugal'
    BY <1>3, ReallocKeeps, ReallocFrugal DEF PromiseInv
  <1>4. ASSUME NEW o \in Owner, DoFree(o)
        PROVE  DataIntact' /\ Frugal'
    BY <1>4, FreeKeeps, FreeFrugal DEF PromiseInv
  <1>5. CASE UNCHANGED vars
    BY <1>5 DEF vars, PromiseInv, DataIntact, Frugal, Live, Blocks
  <1> QED
    BY <1>1, <1>2, <1>3, <1>4, <1>5 DEF Next, PromiseInv

\* Every step is one that the promise allows, or none that it sees.
LEMMA StepPromised ==
  ASSUME PromiseInv, PromiseInv', [Next]_vars
  PROVE  [Promise!Next]_(Promise!vars)
  <1>1. ASSUME NEW o \in Owner, NEW n \in Requests, DoMalloc(o, n)
        PROVE  Promise!Next
    BY <1>1, MallocPromised DEF Promise!Next
  <1>2. ASSUME NEW o \in Owner, NEW n \in Requests, DoRealloc(o, n)
        PROVE  Promise!Next
    BY <1>2, ReallocPromised DEF Promise!Next
  <1>3. ASSUME NEW o \in Owner, DoFree(o)
        PROVE  Promise!Next
    BY <1>3, ReleasePromised DEF Promise!Next
  <1>4. CASE UNCHANGED vars
    BY <1>4 DEF vars, Promise!vars
  <1> QED
    BY <1>1, <1>2, <1>3, <1>4 DEF Next

\* malloc, realloc and free keep what mem.h promises, whatever the sizes and
\* the order of the calls: regions are aligned, apart and keep their bytes,
\* and a call is refused only when there is no room.
THEOREM Refinement == Spec => Implements
  <1>1. Init => PromiseInv
    <2> SUFFICES ASSUME Init PROVE PromiseInv
      OBVIOUS
    <2>1. IInv
      BY InitIInv
    <2>2. DataIntact /\ Frugal
      BY DEF Init, DataIntact, Frugal, Live
    <2>3. AlignedList(heap.blocks)
      BY AlignedFacts DEF Init, MemInit, AlignedList
    <2> QED
      BY <2>1, <2>2, <2>3 DEF PromiseInv
  <1>2. PromiseInv /\ [Next]_vars /\ IInv' => PromiseInv'
    BY PromiseNext
  <1>3. Init => Promise!Init
    BY PromiseInit
  <1>4. PromiseInv /\ PromiseInv' /\ [Next]_vars => [Promise!Next]_(Promise!vars)
    BY StepPromised
  <1> QED
    BY <1>1, <1>2, <1>3, <1>4, Invariance, PTL DEF Spec, Implements, Promise!Spec
=============================================================================
