------------------------------ MODULE MemoryMap ------------------------------
(***************************************************************************)
(* get_memory_map (SSL/src/mem.c): the BIOS memory map is asked for entry  *)
(* by entry and kept as a doubly linked list on the loader's heap.  Any    *)
(* BIOS call may fail, a firmware whose cookies never come back to 0 keeps *)
(* the loop going until the heap is full, and both failures take the list  *)
(* down again node by node.                                                *)
(***************************************************************************)
EXTENDS BlockList

CONSTANTS
  MapSize,    \* sizeof(memory_map)
  NodeSize,   \* sizeof(memory_map_node)
  Earlier,    \* sizes one of which an earlier caller may hold on the heap
  Entries,    \* contents of an E820 entry
  BLANK,      \* an entry of zeros
  Cookies     \* continuation values of the firmware other than 0

ASSUME MemoryMapAssumption ==
  /\ MapSize \in Nat
  /\ NodeSize \in Nat
  /\ Earlier \subseteq Nat
  /\ 0 \notin Cookies

VARIABLES
  firmware,   \* cookie -> the entry and the next cookie the BIOS returns
  before,     \* the heap at the call
  heap,
  map,        \* the memory_map: its address, list and count
  nodes,      \* address -> the memory_map_node there
  node,       \* the local variable node
  offset,     \* the local variable offset
  pc          \* start, first, query, unwind, discard, done or failed

vars == <<firmware, before, heap, map, nodes, node, offset, pc>>

NoMap == [at |-> NULL, list |-> NULL, count |-> 0]

\* A node after memset, linked behind prev.
Node(prev) == [entry |-> BLANK, next |-> NULL, prev |-> prev]

Firmwares == [Cookies \cup {0} -> [entry : Entries, next : Cookies \cup {0}]]

\* Heaps on which get_memory_map may be called: ssl_entry calls it on the one
\* mem_init made.
Heaps == {MemInit} \cup {Malloc(MemInit, s).heap : s \in Earlier}

Init ==
  /\ firmware \in Firmwares
  /\ before \in Heaps
  /\ heap = before
  /\ map = NoMap
  /\ nodes = << >>
  /\ node = NULL
  /\ offset = 0
  /\ pc = "start"

-----------------------------------------------------------------------------
\* Allocate the map.
Start ==
  /\ pc = "start"
  /\ LET m == Malloc(heap, MapSize)
     IN  /\ heap' = m.heap
         /\ \/ m.ptr = NULL /\ pc' = "failed" /\ UNCHANGED map
            \/ m.ptr # NULL /\ pc' = "first" /\ map' = [map EXCEPT !.at = m.ptr]
  /\ UNCHANGED <<firmware, before, nodes, node, offset>>

\* Allocate its first node.
First ==
  /\ pc = "first"
  /\ LET n == Malloc(heap, NodeSize)
     IN  /\ heap' = n.heap
         /\ \/ n.ptr = NULL /\ pc' = "discard" /\ UNCHANGED <<map, nodes, node, offset>>
            \/ /\ n.ptr # NULL
               /\ map' = [map EXCEPT !.list = n.ptr, !.count = 1]
               /\ nodes' = [a \in {n.ptr} |-> Node(NULL)]
               /\ node' = n.ptr
               /\ offset' = 0
               /\ pc' = "query"
  /\ UNCHANGED <<firmware, before>>

\* bios_get_e820 fails.
QueryFails ==
  /\ pc = "query"
  /\ pc' = "unwind"
  /\ UNCHANGED <<firmware, before, heap, map, nodes, node, offset>>

\* node->next = new; new->prev = node
Appended(filled, new) ==
  [a \in DOMAIN filled \cup {new} |->
     IF a = new THEN Node(node)
     ELSE IF a = node THEN [filled[a] EXCEPT !.next = new] ELSE filled[a]]

\* Mutant: the first node is not counted.
ExtendUncounted(filled, n) ==
  /\ nodes' = Appended(filled, n.ptr)
  /\ node' = n.ptr
  /\ map' = [map EXCEPT !.count = Cardinality(DOMAIN nodes)]
  /\ pc' = "query"

\* Append the node that malloc returned.
Extend(filled, n) ==
  /\ nodes' = Appended(filled, n.ptr)
  /\ node' = n.ptr
  /\ map' = [map EXCEPT !.count = @ + 1]
  /\ pc' = "query"

\* Mutant: the entry is asked for again until there is memory.
ExhaustedRetries(filled) ==
  /\ nodes' = filled
  /\ pc' = "query"
  /\ UNCHANGED <<map, node>>

\* There is no memory for the next node.
Exhausted(filled) ==
  /\ nodes' = filled
  /\ pc' = "unwind"
  /\ UNCHANGED <<map, node>>

\* bios_get_e820 fills the current node; unless it was the last entry the
\* next node is allocated.
Query ==
  /\ pc = "query"
  /\ LET answer == firmware[offset]
         filled == [nodes EXCEPT ![node].entry = answer.entry]
         n      == Malloc(heap, NodeSize)
     IN  /\ offset' = answer.next
         /\ \/ /\ answer.next = 0
               /\ nodes' = filled
               /\ pc' = "done"
               /\ UNCHANGED <<heap, map, node>>
            \/ /\ answer.next # 0 /\ n.ptr = NULL
               /\ heap' = n.heap
               /\ Exhausted(filled)
            \/ /\ answer.next # 0 /\ n.ptr # NULL
               /\ heap' = n.heap
               /\ Extend(filled, n)
  /\ UNCHANGED <<firmware, before>>

\* while (node->prev): step back and free the node behind.
Unwind ==
  /\ pc = "unwind" /\ nodes[node].prev # NULL
  /\ LET up   == nodes[node].prev
         down == nodes[up].next
     IN  /\ node' = up
         /\ heap' = Free(heap, down)
         /\ nodes' = [a \in DOMAIN nodes \ {down} |-> nodes[a]]
  /\ UNCHANGED <<firmware, before, map, offset, pc>>

\* The first node goes last, before the map.
Abandon ==
  /\ pc = "unwind" /\ nodes[node].prev = NULL
  /\ heap' = Free(heap, node)
  /\ nodes' = [a \in DOMAIN nodes \ {node} |-> nodes[a]]
  /\ pc' = "discard"
  /\ UNCHANGED <<firmware, before, map, node, offset>>

\* Mutant: the map is not freed.
DiscardLeaky ==
  /\ pc = "discard"
  /\ map' = NoMap
  /\ pc' = "failed"
  /\ UNCHANGED <<firmware, before, heap, nodes, node, offset>>

\* free(mem_map); return NULL
Discard ==
  /\ pc = "discard"
  /\ heap' = Free(heap, map.at)
  /\ map' = NoMap
  /\ pc' = "failed"
  /\ UNCHANGED <<firmware, before, nodes, node, offset>>

\* The caller has the map or NULL.
Returned == pc \in {"done", "failed"} /\ UNCHANGED vars

Next ==
  \/ Start \/ First \/ QueryFails \/ Query
  \/ Unwind \/ Abandon \/ Discard \/ Returned

\* The loader runs alone on the processor: it never stops between two steps.
Spec == Init /\ [][Next]_vars /\ WF_vars(Next)

-----------------------------------------------------------------------------
(***************************************************************************)
(* Properties.                                                             *)
(***************************************************************************)
TypeOK ==
  /\ firmware \in Firmwares
  /\ IsList(heap.blocks) /\ heap.max_alloc \in Nat
  /\ map \in [at : Nat, list : Nat, count : Nat]
  /\ nodes \in [DOMAIN nodes -> [entry : Entries \cup {BLANK}, next : Nat, prev : Nat]]
  /\ node \in Nat
  /\ offset \in Cookies \cup {0}
  /\ pc \in {"start", "first", "query", "unwind", "discard", "done", "failed"}

Allocated(h) == {b + HDR : b \in {c \in DOMAIN h.blocks : ~h.blocks[c].free}}

\* Beyond what was on the heap before, exactly the map and the nodes that can
\* still be reached are allocated: nothing leaks, and nothing freed is used. A
\* failed call leaves the heap as it found it, however many nodes it had
\* allocated and wherever it failed.
OwnsExactly ==
  /\ Allocated(heap) = Allocated(before) \cup DOMAIN nodes \cup ({map.at} \ {NULL})
  /\ pc \in {"query", "unwind"} => node \in DOMAIN nodes
  /\ \A a \in DOMAIN nodes : /\ nodes[a].prev \in DOMAIN nodes \cup {NULL}
                             /\ a # node => nodes[a].next \in DOMAIN nodes
  /\ pc = "failed" => heap = before

\* The nodes on the list, from its head to its end.
IsListed(order) ==
  /\ order[1] = map.list
  /\ \A k \in 1 .. (map.count - 1) : order[k + 1] = nodes[order[k]].next
  /\ nodes[order[map.count]].next = NULL

\* The cookies the firmware is asked with, from 0 until it returns 0.
IsTold(cookie) ==
  /\ cookie[1] = 0
  /\ \A k \in 1 .. (map.count - 1) : /\ firmware[cookie[k]].next # 0
                                     /\ cookie[k + 1] = firmware[cookie[k]].next
  /\ firmware[cookie[map.count]].next = 0

\* The map handed out is the firmware's, in its order, none missing and none
\* left blank, and count is its length.
MapComplete ==
  pc = "done" =>
    /\ map.count > 0
    /\ \E order \in [1 .. map.count -> DOMAIN nodes] :
         /\ IsListed(order)
         /\ \E cookie \in [1 .. map.count -> Cookies \cup {0}] :
              /\ IsTold(cookie)
              /\ \A k \in 1 .. map.count :
                   nodes[order[k]].entry = firmware[cookie[k]].entry

\* The call returns, even if the firmware never tells the last entry.
Terminates == <>(pc \in {"done", "failed"})
=============================================================================
