--------------------------- MODULE ImageLoadProofs ---------------------------
(***************************************************************************)
(* Theorems about ImageLoad, for every heap, sector size, split threshold, *)
(* width of the sector count and partition length.  The inductive          *)
(* invariant IInv says of every step what the packet asks for, which       *)
(* sectors are in place so far, and that the heap is the one of the start  *)
(* with at most the buffer on top.                                         *)
(***************************************************************************)
EXTENDS ImageLoad, BlockListProofs

-----------------------------------------------------------------------------
\* What the loader holds on the heap.
Held == IF pc \in {"kernel", "copy"} THEN {buffer.ptr} ELSE {}

HeapOwned == SoundHeap(before) /\ Holding(heap, before, Held)

\* What the packet asks for while the third-stage loader is read.
Packet ==
  /\ pc = "tsl"  => dap = [lba |-> tsl.start_lba, sectors |-> Length(tsl) % WORD, offset |-> 0]
  /\ pc = "head" => /\ dap = [lba |-> tsl.start_lba, sectors |-> MANY, offset |-> 0]
                    /\ Length(tsl) % WORD = MANY + 1
  /\ pc = "tail" => /\ dap = [lba |-> tsl.start_lba, sectors |-> 1, offset |-> MANY]
                    /\ Length(tsl) % WORD = MANY + 1

\* The first n sectors of the TSL partition are at their places.
FirstInPlace(n) == \A k \in 0 .. (n - 1) : k < MANY => low[k] = tsl.start_lba + k

TslInPlace ==
  /\ pc = "tail" => FirstInPlace(MANY)
  /\ HasTsl => FirstInPlace(Length(tsl) % WORD)

\* How far the copy of the kernel has come.
Copying ==
  /\ pc \in {"tsl", "head", "tail", "buffer"} => i = 0
  /\ pc = "kernel" => dap.lba = kernel.start_lba + i
  /\ pc = "copy" => /\ dap.lba = kernel.start_lba + i
                    /\ buffer.lba = dap.lba /\ i < Length(kernel)

Partitions ==
  /\ limit \in {MANY, MANY + 1}
  /\ tsl.start_lba \in Nat /\ kernel.start_lba \in Nat
  /\ Length(tsl) \in Nat \ {0} /\ Length(kernel) \in Nat \ {0}

IInv ==
  /\ TypeOK /\ Partitions /\ HeapOwned
  /\ Packet /\ TslInPlace
  /\ KernelExact /\ Copying

-----------------------------------------------------------------------------
\* A number below the modulus is its own remainder.
LEMMA Below ==
  ASSUME NEW k \in Nat, NEW n \in Nat, k < n
  PROVE  k % n = k
  OBVIOUS

\* A remainder is below the modulus.
LEMMA Remainder ==
  ASSUME NEW k \in Nat, NEW n \in Nat \ {0}
  PROVE  k % n \in 0 .. (n - 1)
  OBVIOUS

\* An interval from 0 grows with its end.
LEMMA Interval ==
  ASSUME NEW m \in Nat, NEW n \in Nat, m <= n
  PROVE  0 .. (m - 1) \subseteq 0 .. (n - 1)
  OBVIOUS

\* The heap an earlier caller leaves is sound.
LEMMA HeapsSound ==
  ASSUME NEW h \in Heaps
  PROVE  SoundHeap(h)
  <1>1. SoundHeap(MemInit)
    BY MemInitLemma
  <1>2. ASSUME NEW s \in Earlier PROVE SoundHeap(Malloc(MemInit, s).heap)
    <2>1. s \in Nat
      BY ImageLoadAssumption
    <2> QED
      BY <1>1, <2>1, MallocLemma DEF Took
  <1> QED
    BY <1>1, <1>2 DEF Heaps

-----------------------------------------------------------------------------
\* What the invariant says that the steps rely on.
LEMMA IInvFacts ==
  ASSUME IInv
  PROVE  /\ low \in [0 .. (SEGMENT - 1) -> Nat \cup {JUNK}]
         /\ buffer \in [ptr : Nat, lba : Nat \cup {JUNK}]
         /\ dap \in [lba : Nat, sectors : 0 .. (WORD - 1), offset : 0 .. (SEGMENT - 1)]
         /\ limit \in Nat /\ limit <= SEGMENT
         /\ SEGMENT \in Nat \ {0} /\ MANY \in Nat /\ MANY < SEGMENT
         /\ WORD \in Nat /\ SEGMENT < WORD
         /\ i \in Nat /\ i <= Length(kernel) /\ Length(kernel) \in Nat
         /\ tsl.start_lba \in Nat /\ kernel.start_lba \in Nat
         /\ SoundHeap(before) /\ Holding(heap, before, Held)
  BY ImageLoadAssumption DEF IInv, TypeOK, Partitions, HeapOwned, SEGMENT

\* Memory after the first n sectors of a transfer to offset 0, or after the
\* one sector behind the first MANY.
LEMMA TransferredFacts ==
  ASSUME IInv, NEW n \in Nat
  PROVE  /\ Transferred(n) \in [0 .. (SEGMENT - 1) -> Nat \cup {JUNK}]
         /\ dap.offset = 0 /\ n <= SEGMENT =>
              \A a \in 0 .. (n - 1) : Transferred(n)[a] = dap.lba + a
         /\ dap.offset = MANY /\ n <= 1 =>
              \A a \in 0 .. (MANY - 1) : Transferred(n)[a] = low[a]
  <1>1. DOMAIN low = 0 .. (SEGMENT - 1) /\ dap.lba \in Nat /\ dap.offset \in Nat
    BY IInvFacts
  <1>2. \A a \in DOMAIN low :
          Transferred(n)[a] = IF \E k \in 0 .. (n - 1) : a = (dap.offset + k) % SEGMENT
                              THEN dap.lba + (CHOOSE k \in 0 .. (n - 1) :
                                                a = (dap.offset + k) % SEGMENT)
                              ELSE low[a]
    BY Zenon DEF Transferred
  <1>3. DOMAIN Transferred(n) = DOMAIN low
    BY Zenon DEF Transferred
  <1>4. ASSUME NEW a \in DOMAIN low PROVE Transferred(n)[a] \in Nat \cup {JUNK}
    <2>1. CASE \E k \in 0 .. (n - 1) : a = (dap.offset + k) % SEGMENT
      <3> DEFINE c == CHOOSE k \in 0 .. (n - 1) : a = (dap.offset + k) % SEGMENT
      <3>1. c \in 0 .. (n - 1)
        BY <2>1
      <3>2. Transferred(n)[a] = dap.lba + c
        BY <1>2, <2>1
      <3> HIDE DEF c
      <3> QED
        BY <1>1, <3>1, <3>2
    <2>2. CASE ~\E k \in 0 .. (n - 1) : a = (dap.offset + k) % SEGMENT
      BY <1>2, <2>2, IInvFacts
    <2> QED
      BY <2>1, <2>2
  <1>5. Transferred(n) \in [0 .. (SEGMENT - 1) -> Nat \cup {JUNK}]
    <2>1. Transferred(n) = [a \in DOMAIN low |-> Transferred(n)[a]]
      BY Zenon DEF Transferred
    <2> QED
      BY <1>1, <1>4, <2>1
  <1>6. ASSUME dap.offset = 0, n <= SEGMENT, NEW a \in 0 .. (n - 1)
        PROVE  Transferred(n)[a] = dap.lba + a
    <2>1. \A k \in 0 .. (n - 1) : (dap.offset + k) % SEGMENT = k
      <3> SUFFICES ASSUME NEW k \in 0 .. (n - 1) PROVE (dap.offset + k) % SEGMENT = k
        OBVIOUS
      <3>1. k \in Nat /\ k < SEGMENT /\ dap.offset + k = k
        BY <1>6, IInvFacts
      <3> QED
        BY <3>1, Below, IInvFacts
    <2>2. a \in DOMAIN low
      BY <1>1, <1>6, IInvFacts
    <2>3. (CHOOSE k \in 0 .. (n - 1) : a = (dap.offset + k) % SEGMENT) = a
      BY <2>1
    <2> QED
      BY <1>2, <2>1, <2>2, <2>3
  <1>7. ASSUME dap.offset = MANY, n <= 1, NEW a \in 0 .. (MANY - 1)
        PROVE  Transferred(n)[a] = low[a]
    <2>1. a \in DOMAIN low /\ a # MANY
      <3>1. MANY \in Nat /\ SEGMENT \in Nat /\ MANY < SEGMENT
        BY IInvFacts
      <3> QED
        BY <1>1, <3>1
    <2>2. \A k \in 0 .. (n - 1) : (dap.offset + k) % SEGMENT = MANY
      <3> SUFFICES ASSUME NEW k \in 0 .. (n - 1) PROVE (dap.offset + k) % SEGMENT = MANY
        OBVIOUS
      <3>1. dap.offset + k = MANY
        <4>1. MANY \in Nat
          BY IInvFacts
        <4>2. k = 0
          BY <1>7
        <4> QED
          BY <1>7, <4>1, <4>2
      <3> QED
        BY <3>1, Below, IInvFacts
    <2> QED
      BY <1>2, <2>1, <2>2
  <1> QED
    BY <1>5, <1>6, <1>7

LEMMA InitIInv ==
  ASSUME Init
  PROVE  IInv
  <1>1. PICK s \in TslSizes, k \in KernelSizes :
          tsl = Partition(10, s) /\ kernel = Partition(10 + s, k)
    BY DEF Init
  <1>2. s \in Nat \ {0} /\ k \in Nat \ {0}
    BY ImageLoadAssumption
  <1>3. /\ tsl.start_lba = 10 /\ Length(tsl) = s
        /\ kernel.start_lba = 10 + s /\ Length(kernel) = k
    BY <1>1, <1>2 DEF Partition, Length
  <1>4. Partitions
    BY <1>2, <1>3 DEF Init, Partitions
  <1>5. Length(tsl) % WORD \in 0 .. (WORD - 1)
    <2>1. WORD \in Nat \ {0}
      BY ImageLoadAssumption
    <2> QED
      BY <1>2, <1>3, <2>1, Remainder
  <1>6. SEGMENT \in Nat \ {0}
    BY ImageLoadAssumption DEF SEGMENT
  <1>7. DOMAIN high = {} /\ i = 0
    BY DEF Init
  <1>8. TypeOK
    BY <1>2, <1>3, <1>5, <1>6, <1>7 DEF Init, TypeOK, JUNK, NULL
  <1>9. HeapOwned
    BY HeapsSound, HoldingNothing DEF Init, HeapOwned, Held
  <1>10. Packet /\ TslInPlace /\ Copying
    BY DEF Init, Packet, TslInPlace, HasTsl, Copying
  <1>11. KernelExact
    BY <1>7 DEF Init, KernelExact
  <1> QED
    BY <1>4, <1>8, <1>9, <1>10, <1>11 DEF IInv

-----------------------------------------------------------------------------
(***************************************************************************)
(* Every step keeps the invariant.                                         *)
(***************************************************************************)
\* A transfer asked for succeeds, or fails after some of it.
LEMMA CallSucceedsLow ==
  ASSUME IInv, CallSucceeds
  PROVE  /\ low' \in [0 .. (SEGMENT - 1) -> Nat \cup {JUNK}]
         /\ dap.offset = 0 => \A a \in 0 .. (dap.sectors - 1) : low'[a] = dap.lba + a
         /\ dap.offset = MANY /\ dap.sectors = 1 =>
              \A a \in 0 .. (MANY - 1) : low'[a] = low[a]
  <1>1. dap.sectors \in Nat /\ dap.sectors <= SEGMENT /\ low' = Transferred(dap.sectors)
    BY IInvFacts DEF CallSucceeds
  <1>2. dap.sectors = 1 => dap.sectors <= 1
    OBVIOUS
  <1> QED
    BY <1>1, <1>2, TransferredFacts

LEMMA CallFailsLow ==
  ASSUME IInv, CallFails
  PROVE  low' \in [0 .. (SEGMENT - 1) -> Nat \cup {JUNK}]
  <1>1. PICK n \in 0 .. (dap.sectors - 1) : low' = Transferred(n)
    BY DEF CallFails
  <1>2. n \in Nat
    OBVIOUS
  <1> QED
    BY <1>1, <1>2, TransferredFacts

\* The steps that read the third-stage loader leave all else alone.
LEMMA ReadingStep ==
  ASSUME IInv, pc \in {"tsl", "head", "tail"}, pc' \in {"head", "tail", "buffer", "halt"},
         UNCHANGED <<machine, heap, high, buffer, i>>,
         low' \in [0 .. (SEGMENT - 1) -> Nat \cup {JUNK}],
         dap' \in [lba : Nat, sectors : 0 .. (WORD - 1), offset : 0 .. (SEGMENT - 1)],
         Packet', TslInPlace'
  PROVE  IInv'
  <1>1. TypeOK'
    BY DEF IInv, TypeOK, machine, Length
  <1>2. Partitions'
    BY DEF IInv, Partitions, machine, Length
  <1>3. HeapOwned'
    BY DEF IInv, HeapOwned, Held, machine
  <1>4. Holding(heap, before, {}) /\ SoundHeap(before)
    BY DEF IInv, HeapOwned, Held
  <1>5. heap = before
    BY <1>4, HoldingReturned
  <1>6. KernelExact'
    BY <1>5 DEF IInv, KernelExact, machine, Length
  <1>7. Copying'
    BY DEF IInv, Copying, machine
  <1> QED
    BY <1>1, <1>2, <1>3, <1>6, <1>7 DEF IInv

LEMMA ReadTslStep ==
  ASSUME IInv, ReadTsl
  PROVE  IInv'
  <1>1. /\ dap = [lba |-> tsl.start_lba, sectors |-> Length(tsl) % WORD, offset |-> 0]
        /\ pc = "tsl" /\ UNCHANGED <<machine, heap, high, buffer, i>>
    BY DEF ReadTsl, IInv, Packet
  <1>2. dap.lba = tsl.start_lba /\ dap.sectors = Length(tsl) % WORD /\ dap.offset = 0
    BY <1>1
  <1>3. UNCHANGED tsl /\ Length(tsl)' = Length(tsl)
    BY <1>1 DEF machine, Length
  <1>4. CASE CallSucceeds /\ pc' = "buffer" /\ UNCHANGED dap
    <2>1. FirstInPlace(Length(tsl) % WORD)'
      BY <1>2, <1>3, <1>4, CallSucceedsLow DEF FirstInPlace
    <2>2. Packet' /\ TslInPlace'
      BY <1>4, <2>1 DEF Packet, TslInPlace
    <2> QED
      BY <1>1, <1>4, <2>2, CallSucceedsLow, ReadingStep, IInvFacts
  <1>5. CASE /\ CallFails /\ dap.sectors = MANY + 1
             /\ dap' = [dap EXCEPT !.sectors = MANY] /\ pc' = "head"
    <2>1. dap' = [lba |-> tsl.start_lba, sectors |-> MANY, offset |-> 0]
      BY <1>1, <1>5
    <2>2. Packet' /\ TslInPlace'
      BY <1>2, <1>3, <1>5, <2>1 DEF Packet, TslInPlace, HasTsl
    <2>3. dap' \in [lba : Nat, sectors : 0 .. (WORD - 1), offset : 0 .. (SEGMENT - 1)]
      BY <2>1, IInvFacts
    <2> QED
      BY <1>1, <1>5, <2>2, <2>3, CallFailsLow, ReadingStep
  <1>6. CASE CallFails /\ pc' = "halt" /\ UNCHANGED dap
    <2>1. Packet' /\ TslInPlace'
      BY <1>6 DEF Packet, TslInPlace, HasTsl
    <2> QED
      BY <1>1, <1>6, <2>1, CallFailsLow, ReadingStep, IInvFacts
  <1> QED
    BY <1>4, <1>5, <1>6 DEF ReadTsl

LEMMA ReadHeadStep ==
  ASSUME IInv, ReadHead
  PROVE  IInv'
  <1>1. /\ dap = [lba |-> tsl.start_lba, sectors |-> MANY, offset |-> 0]
        /\ Length(tsl) % WORD = MANY + 1
        /\ pc = "head" /\ UNCHANGED <<machine, heap, high, buffer, i>>
    BY DEF ReadHead, IInv, Packet
  <1>2. dap.lba = tsl.start_lba /\ dap.sectors = MANY /\ dap.offset = 0
    BY <1>1
  <1>3. UNCHANGED tsl /\ Length(tsl)' = Length(tsl)
    BY <1>1 DEF machine, Length
  <1>4. CASE CallSucceeds /\ dap' = Tail /\ pc' = "tail"
    <2>1. FirstInPlace(MANY)'
      BY <1>2, <1>3, <1>4, CallSucceedsLow DEF FirstInPlace
    <2>2. (0 + MANY) % SEGMENT = MANY
      <3>1. MANY \in Nat /\ SEGMENT \in Nat /\ MANY < SEGMENT /\ 0 + MANY = MANY
        BY IInvFacts
      <3> QED
        BY <3>1, Below
    <2>3. dap' = [lba |-> tsl.start_lba, sectors |-> 1, offset |-> MANY]
      BY <1>1, <1>4, <2>2 DEF Tail
    <2>4. Packet' /\ TslInPlace'
      BY <1>1, <1>3, <1>4, <2>1, <2>3 DEF Packet, TslInPlace, HasTsl
    <2>5. dap' \in [lba : Nat, sectors : 0 .. (WORD - 1), offset : 0 .. (SEGMENT - 1)]
      BY <2>3, IInvFacts
    <2> QED
      BY <1>1, <1>4, <2>4, <2>5, CallSucceedsLow, ReadingStep
  <1>5. CASE CallFails /\ pc' = "halt" /\ UNCHANGED dap
    <2>1. Packet' /\ TslInPlace'
      BY <1>5 DEF Packet, TslInPlace, HasTsl
    <2> QED
      BY <1>1, <1>5, <2>1, CallFailsLow, ReadingStep, IInvFacts
  <1> QED
    BY <1>4, <1>5 DEF ReadHead

\* The last sector goes behind the others.
LEMMA ReadTailStep ==
  ASSUME IInv, ReadTail
  PROVE  IInv'
  <1>1. /\ dap.lba = tsl.start_lba /\ dap.sectors = 1 /\ dap.offset = MANY
        /\ Length(tsl) % WORD = MANY + 1 /\ FirstInPlace(MANY)
        /\ pc = "tail" /\ UNCHANGED <<machine, heap, high, buffer, i, dap>>
    BY DEF ReadTail, IInv, Packet, TslInPlace
  <1>2. UNCHANGED tsl /\ Length(tsl)' = Length(tsl)
    BY <1>1 DEF machine, Length
  <1>3. CASE CallSucceeds /\ pc' = "buffer"
    <2>1. FirstInPlace(MANY + 1)'
      <3>1. \A a \in 0 .. (MANY - 1) : low'[a] = low[a]
        BY <1>1, <1>3, CallSucceedsLow
      <3>2. \A a \in 0 .. (MANY - 1) : a < MANY => low[a] = tsl.start_lba + a
        BY <1>1 DEF FirstInPlace
      <3>3. MANY \in Nat
        BY IInvFacts
      <3>4. ASSUME NEW k \in 0 .. ((MANY + 1) - 1), k < MANY
            PROVE  low'[k] = tsl'.start_lba + k
        <4>1. k \in 0 .. (MANY - 1)
          BY <3>3, <3>4
        <4> QED
          BY <1>2, <3>1, <3>2, <3>4, <4>1
      <3>5. (\A k \in 0 .. ((MANY + 1) - 1) : k < MANY => low[k] = tsl.start_lba + k)'
        BY <3>4
      <3> QED
        BY <3>5 DEF FirstInPlace
    <2>2. Packet' /\ TslInPlace'
      BY <1>1, <1>2, <1>3, <2>1 DEF Packet, TslInPlace
    <2> QED
      BY <1>1, <1>3, <2>2, CallSucceedsLow, ReadingStep, IInvFacts
  <1>4. CASE CallFails /\ pc' = "halt"
    <2>1. Packet' /\ TslInPlace'
      BY <1>4 DEF Packet, TslInPlace, HasTsl
    <2> QED
      BY <1>1, <1>4, <2>1, CallFailsLow, ReadingStep, IInvFacts
  <1> QED
    BY <1>3, <1>4 DEF ReadTail

-----------------------------------------------------------------------------
\* The steps of load_kernel leave the third-stage loader alone.
LEMMA KernelStep ==
  ASSUME IInv, pc \in {"buffer", "kernel", "copy"}, pc' \in {"kernel", "copy", "loaded", "halt"},
         UNCHANGED <<machine, low>>,
         TypeOK', HeapOwned', KernelExact', Copying'
  PROVE  IInv'
  <1>1. Partitions' /\ Length(tsl)' = Length(tsl)
    BY DEF IInv, Partitions, machine, Length
  <1>2. FirstInPlace(Length(tsl) % WORD)
    BY DEF IInv, TslInPlace, HasTsl
  <1>3. FirstInPlace(Length(tsl) % WORD)'
    BY <1>1, <1>2 DEF FirstInPlace, machine
  <1>4. Packet' /\ TslInPlace'
    BY <1>3 DEF Packet, TslInPlace, HasTsl
  <1> QED
    BY <1>1, <1>4 DEF IInv

LEMMA AllocateBufferStep ==
  ASSUME IInv, AllocateBuffer
  PROVE  IInv'
  <1> DEFINE b == Malloc(heap, SECTOR)
  <1>1. /\ pc = "buffer" /\ UNCHANGED <<machine, low, high, i>>
        /\ heap' = b.heap /\ buffer' = [buffer EXCEPT !.ptr = b.ptr]
        /\ \/ b.ptr = NULL /\ pc' = "halt" /\ UNCHANGED dap
           \/ /\ b.ptr # NULL
              /\ dap' = [lba |-> kernel.start_lba, sectors |-> 1, offset |-> 0]
              /\ pc' = "kernel"
    BY DEF AllocateBuffer
  <1>2. SECTOR \in Nat /\ SoundHeap(before) /\ Holding(heap, before, {})
    BY <1>1, ImageLoadAssumption, IInvFacts DEF Held
  <1>3. i = 0 /\ heap = before /\ DOMAIN high = {}
    BY <1>1, <1>2, HoldingReturned DEF IInv, Copying, KernelExact
  <1>4. \/ b.ptr = NULL /\ b.heap = heap
        \/ b.ptr \in Nat /\ b.ptr # NULL /\ Holding(b.heap, before, {b.ptr})
    <2>1. \/ b.ptr = NULL /\ b.heap = heap
          \/ b.ptr \in Nat /\ b.ptr # NULL /\ Holding(b.heap, before, {} \cup {b.ptr})
      BY <1>2, HoldingMalloc
    <2>2. {} \cup {b.ptr} = {b.ptr}
      OBVIOUS
    <2> QED
      BY <2>1, <2>2, Zenon
  <1> HIDE DEF b
  <1>5. b.ptr \in Nat
    BY <1>4 DEF NULL
  <1>6. buffer'.ptr = b.ptr /\ buffer' \in [ptr : Nat, lba : Nat \cup {JUNK}]
    <2>1. buffer \in [ptr : Nat, lba : Nat \cup {JUNK}] /\ buffer' = [buffer EXCEPT !.ptr = b.ptr]
      BY <1>1, IInvFacts
    <2> QED
      BY <1>5, <2>1
  <1>7. dap' \in [lba : Nat, sectors : 0 .. (WORD - 1), offset : 0 .. (SEGMENT - 1)]
    BY <1>1, IInvFacts, SMTT(30)
  <1>8. TypeOK'
    BY <1>1, <1>6, <1>7 DEF IInv, TypeOK, machine, Length
  <1>9. HeapOwned'
    BY <1>1, <1>2, <1>4, <1>6 DEF HeapOwned, Held, machine
  <1>10. KernelExact'
    BY <1>1, <1>3, <1>4 DEF IInv, KernelExact, machine, Length
  <1>11. Copying'
    BY <1>1, <1>3, IInvFacts DEF Copying, machine
  <1> QED
    BY <1>1, <1>8, <1>9, <1>10, <1>11, KernelStep

LEMMA ReadSectorStep ==
  ASSUME IInv, ReadSector
  PROVE  IInv'
  <1>1. /\ pc = "kernel" /\ i < Length(kernel) /\ pc' = "copy"
        /\ buffer' = [buffer EXCEPT !.lba = dap.lba]
        /\ UNCHANGED <<machine, heap, low, high, dap, i>>
    BY DEF ReadSector, SectorsLeft
  <1>2. /\ buffer'.ptr = buffer.ptr /\ buffer'.lba = dap.lba
        /\ buffer' \in [ptr : Nat, lba : Nat \cup {JUNK}]
    BY <1>1, IInvFacts
  <1>3. TypeOK'
    BY <1>1, <1>2 DEF IInv, TypeOK, machine, Length
  <1>4. HeapOwned'
    BY <1>1, <1>2 DEF IInv, HeapOwned, Held, machine
  <1>5. KernelExact'
    BY <1>1 DEF IInv, KernelExact, machine, Length
  <1>6. Copying'
    BY <1>1, <1>2 DEF IInv, Copying, machine, Length
  <1> QED
    BY <1>1, <1>3, <1>4, <1>5, <1>6, KernelStep

\* Freeing the buffer gives back the heap of the start.
LEMMA BufferFreed ==
  ASSUME IInv, pc = "kernel"
  PROVE  Free(heap, buffer.ptr) = before
  <1>1. SoundHeap(before) /\ Holding(heap, before, {buffer.ptr})
    BY IInvFacts DEF Held
  <1>2. Holding(Free(heap, buffer.ptr), before, {buffer.ptr} \ {buffer.ptr})
    BY <1>1, HoldingFree
  <1>3. {buffer.ptr} \ {buffer.ptr} = {}
    OBVIOUS
  <1> QED
    BY <1>1, <1>2, <1>3, HoldingReturned

\* load_kernel returns: what it copied stays, its buffer is freed.
LEMMA ReturningStep ==
  ASSUME IInv, pc = "kernel", pc' \in {"loaded", "halt"},
         pc' = "loaded" => i = Length(kernel),
         heap' = Free(heap, buffer.ptr),
         UNCHANGED <<machine, low, high, buffer, dap, i>>
  PROVE  IInv'
  <1>1. heap' = before' /\ SoundHeap(before)
    BY BufferFreed, IInvFacts DEF machine
  <1>2. TypeOK'
    BY DEF IInv, TypeOK, machine, Length
  <1>3. HeapOwned'
    BY <1>1, HoldingNothing DEF HeapOwned, Held, machine
  <1>4. KernelExact'
    BY <1>1 DEF IInv, KernelExact, machine, Length
  <1>5. Copying'
    BY DEF Copying
  <1> QED
    BY <1>2, <1>3, <1>4, <1>5, KernelStep

LEMMA CopySectorStep ==
  ASSUME IInv, CopySector
  PROVE  IInv'
  <1>1. /\ pc = "copy" /\ pc' = "kernel"
        /\ high' = [a \in DOMAIN high \cup {i} |-> IF a = i THEN buffer.lba ELSE high[a]]
        /\ i' = i + 1 /\ dap' = [dap EXCEPT !.lba = @ + 1]
        /\ UNCHANGED <<machine, heap, low, buffer>>
    BY DEF CopySector, Advance
  <1>2. /\ dap.lba = kernel.start_lba + i /\ buffer.lba = dap.lba /\ i < Length(kernel)
        /\ DOMAIN high = 0 .. (i - 1)
        /\ \A k \in DOMAIN high : high[k] = kernel.start_lba + k
    BY <1>1 DEF IInv, Copying, KernelExact
  <1>3. /\ dap'.lba = dap.lba + 1
        /\ dap' \in [lba : Nat, sectors : 0 .. (WORD - 1), offset : 0 .. (SEGMENT - 1)]
    <2>1. dap \in [lba : Nat, sectors : 0 .. (WORD - 1), offset : 0 .. (SEGMENT - 1)]
      BY IInvFacts
    <2>2. dap' = [dap EXCEPT !.lba = @ + 1]
      BY <1>1
    <2> QED
      BY <2>1, <2>2
  <1>4. DOMAIN high' = 0 .. (i' - 1)
    <2>1. DOMAIN high' = (0 .. (i - 1)) \cup {i}
      BY <1>1, <1>2
    <2>2. i \in Nat
      BY IInvFacts
    <2>3. (0 .. (i - 1)) \cup {i} = 0 .. ((i + 1) - 1)
      BY <2>2
    <2> QED
      BY <1>1, <2>1, <2>3
  <1>5. ASSUME NEW k \in DOMAIN high'
        PROVE  high'[k] = kernel.start_lba + k
    <2>1. k \in DOMAIN high \cup {i} /\ high'[k] = IF k = i THEN buffer.lba ELSE high[k]
      BY <1>1
    <2>2. CASE k = i
      BY <1>2, <2>1, <2>2
    <2>3. CASE k # i
      BY <1>2, <2>1, <2>3
    <2> QED
      BY <2>2, <2>3
  <1>6. TypeOK'
    <2> DEFINE n == Length(kernel)
    <2>0. i \in Nat /\ n \in Nat /\ i < n /\ i' = i + 1
      BY <1>1, <1>2, IInvFacts
    <2> HIDE DEF n
    <2>1. i' \in 0 .. n
      BY <2>0
    <2>2. DOMAIN high' \subseteq 0 .. (n - 1)
      <3>1. i' \in Nat /\ i' <= n /\ n \in Nat
        BY <2>0
      <3>2. 0 .. (i' - 1) \subseteq 0 .. (n - 1)
        BY <3>1, Interval
      <3> QED
        BY <1>4, <3>2, Zenon
    <2>3. \A a \in DOMAIN high' : high'[a] \in Nat
      <3>1. kernel.start_lba \in Nat /\ DOMAIN high' \subseteq Nat
        BY <1>4, IInvFacts
      <3> QED
        BY <3>1, <1>5
    <2> QED
      BY <1>1, <1>3, <2>1, <2>2, <2>3 DEF IInv, TypeOK, machine, Length, n
  <1>7. HeapOwned'
    BY <1>1 DEF IInv, HeapOwned, Held, machine
  <1>8. KernelExact'
    BY <1>1, <1>4, <1>5 DEF KernelExact, machine
  <1>9. Copying'
    <2>1. dap'.lba = (kernel.start_lba + i) + 1 /\ i' = i + 1
      BY <1>1, <1>2, <1>3
    <2>2. kernel.start_lba \in Nat /\ i \in Nat
      BY IInvFacts
    <2>3. dap'.lba = kernel.start_lba + i'
      BY <2>1, <2>2
    <2> QED
      BY <1>1, <2>3 DEF Copying, machine
  <1> QED
    BY <1>1, <1>6, <1>7, <1>8, <1>9, KernelStep

\* IInv is an invariant of the loader.
THEOREM Invariance == Spec => []IInv
  <1>1. Init => IInv
    BY InitIInv
  <1>2. IInv /\ [Next]_vars => IInv'
    <2> SUFFICES ASSUME IInv, [Next]_vars PROVE IInv'
      OBVIOUS
    <2>1. CASE ReadTsl
      BY <2>1, ReadTslStep
    <2>2. CASE ReadHead
      BY <2>2, ReadHeadStep
    <2>3. CASE ReadTail
      BY <2>3, ReadTailStep
    <2>4. CASE AllocateBuffer
      BY <2>4, AllocateBufferStep
    <2>5. CASE ReadSector
      BY <2>5, ReadSectorStep
    <2>6. CASE ReadSectorFails
      BY <2>6, ReturningStep DEF ReadSectorFails
    <2>7. CASE CopySector
      BY <2>7, CopySectorStep
    <2>8. CASE Finish
      <3>1. i = Length(kernel)
        BY <2>8, IInvFacts DEF Finish, SectorsLeft
      <3> QED
        BY <2>8, <3>1, ReturningStep DEF Finish
    <2>9. CASE UNCHANGED vars
      BY <2>9 DEF IInv, TypeOK, Partitions, HeapOwned, Held, Packet, TslInPlace, FirstInPlace,
                  HasTsl, KernelExact, Copying, Length, vars, machine
    <2> QED
      BY <2>1, <2>2, <2>3, <2>4, <2>5, <2>6, <2>7, <2>8, <2>9 DEF Next, Returned
  <1> QED
    BY <1>1, <1>2, PTL DEF Spec

\* Every variable stays in its type: in particular no request for a sector
\* count or an offset leaves the 16 bits of the packet.
THEOREM TypeCorrect == Spec => []TypeOK
  <1>1. IInv => TypeOK
    BY DEF IInv
  <1> QED
    BY <1>1, Invariance, PTL

\* Whatever split the BIOS forces, all sectors but the 128th of the third
\* stage arrive at their places.
THEOREM TslRead == Spec => []TslFirstSectors
  <1>1. IInv => TslFirstSectors
    <2> SUFFICES ASSUME IInv, HasTsl, Length(tsl) < WORD, NEW k \in 0 .. (Length(tsl) - 1), k < MANY
                 PROVE  low[k] = tsl.start_lba + k
      BY DEF TslFirstSectors
    <2>1. Length(tsl) \in Nat /\ WORD \in Nat
      BY IInvFacts DEF IInv, Partitions
    <2>2. Length(tsl) % WORD = Length(tsl)
      BY <2>1, Below
    <2> QED
      BY <2>2 DEF IInv, TslInPlace, FirstInPlace
  <1> QED
    BY <1>1, Invariance, PTL

\* The kernel's sectors arrive in order, each at its place, none twice and
\* none left out, and on every way out of load_kernel the heap is what it was.
THEOREM KernelLoaded == Spec => []KernelExact
  <1>1. IInv => KernelExact
    BY DEF IInv
  <1> QED
    BY <1>1, Invariance, PTL
=============================================================================
