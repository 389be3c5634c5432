--------------------------- MODULE MemoryMapProofs ---------------------------
(***************************************************************************)
(* Theorems about MemoryMap, for every heap, node size and firmware.  The  *)
(* nodes are the ones of a chain that ends in node: links and back links   *)
(* agree, nothing points back at the last node, and whoever follows the    *)
(* links comes to it.  So taking the list down from its end meets every    *)
(* node, each while it is still allocated.                                 *)
(***************************************************************************)
EXTENDS MemoryMap, BlockListProofs

-----------------------------------------------------------------------------
\* What get_memory_map holds on the heap.
Owned == DOMAIN nodes \cup ({map.at} \ {NULL})

HeapOwned == /\ SoundHeap(before) /\ Holding(heap, before, Owned)
             /\ map.at \notin DOMAIN nodes

\* A set of nodes no link leads out of, except from the last node.
Closed(S) == \A a \in S : a # node => nodes[a].next \in S

Chain ==
  /\ \A a \in DOMAIN nodes : /\ nodes[a].prev \in (DOMAIN nodes \cup {NULL}) \ {node}
                             /\ nodes[a].prev # NULL => nodes[nodes[a].prev].next = a
  /\ \A a \in DOMAIN nodes \ {node} : /\ nodes[a].next \in DOMAIN nodes
                                      /\ nodes[nodes[a].next].prev = a
  /\ \A S \in SUBSET DOMAIN nodes : S # {} /\ Closed(S) => node \in S

\* How far the call has come.
Stage ==
  /\ pc \in {"start", "failed"} => map.at = NULL
  /\ pc \in {"start", "first", "discard", "failed"} => DOMAIN nodes = {}
  /\ pc \in {"query", "unwind"} => node \in DOMAIN nodes
  /\ pc \in {"first", "query", "unwind", "discard"} => map.at # NULL

IInv == TypeOK /\ HeapOwned /\ Chain /\ Stage

-----------------------------------------------------------------------------
\* The heap an earlier caller leaves is sound.
LEMMA HeapsSound ==
  ASSUME NEW h \in Heaps
  PROVE  SoundHeap(h)
  <1>1. SoundHeap(MemInit)
    BY MemInitLemma
  <1>2. ASSUME NEW s \in Earlier PROVE SoundHeap(Malloc(MemInit, s).heap)
    <2>1. s \in Nat
      BY MemoryMapAssumption
    <2> QED
      BY <1>1, <2>1, MallocLemma DEF Took
  <1> QED
    BY <1>1, <1>2 DEF Heaps

\* The type of a set of nodes.
NodeType == [entry : Entries \cup {BLANK}, next : Nat, prev : Nat]

\* A step that keeps the heap held has a well-formed heap.
LEMMA HeapTyped ==
  ASSUME NEW h, NEW P, Holding(h, before, P)
  PROVE  IsList(h.blocks) /\ h.max_alloc \in Nat
  BY DEF Holding, SoundHeap, WellFormed

LEMMA InitIInv ==
  ASSUME Init
  PROVE  IInv
  <1>1. DOMAIN nodes = {} /\ nodes \in [DOMAIN nodes -> NodeType]
    BY DEF Init
  <1>2. SoundHeap(before) /\ heap = before
    BY HeapsSound DEF Init
  <1>3. map = NoMap /\ map.at = NULL /\ map \in [at : Nat, list : Nat, count : Nat]
    BY DEF Init, NoMap, NULL
  <1>4. Owned = {}
    BY <1>1, <1>3 DEF Owned
  <1>5. HeapOwned
    BY <1>1, <1>2, <1>4, HoldingNothing DEF HeapOwned
  <1>6. TypeOK
    BY <1>1, <1>3, <1>5, HeapTyped DEF Init, TypeOK, NodeType, HeapOwned, NULL
  <1>7. Chain
    BY <1>1 DEF Chain
  <1>8. Stage
    BY <1>1, <1>3 DEF Init, Stage
  <1> QED
    BY <1>5, <1>6, <1>7, <1>8 DEF IInv

-----------------------------------------------------------------------------
(***************************************************************************)
(* Every step keeps the invariant.                                         *)
(***************************************************************************)
\* malloc for the loader: no memory and no change, or a block nobody holds.
LEMMA Allocation ==
  ASSUME HeapOwned, NEW n \in Nat, NEW r, r = Malloc(heap, n)
  PROVE  \/ r.ptr = NULL /\ r.heap = heap
         \/ /\ r.ptr \in Nat /\ r.ptr # NULL /\ r.ptr \notin Owned
            /\ Holding(r.heap, before, Owned \cup {r.ptr})
  <1>1. Owned \subseteq Pointers(heap)
    BY DEF HeapOwned, Holding
  <1> QED
    BY <1>1, HoldingMalloc DEF HeapOwned

LEMMA StartStep ==
  ASSUME IInv, Start
  PROVE  IInv'
  <1> DEFINE m == Malloc(heap, MapSize)
  <1>1. /\ pc = "start" /\ UNCHANGED <<firmware, before, nodes, node, offset>>
        /\ heap' = m.heap
        /\ \/ m.ptr = NULL /\ pc' = "failed" /\ UNCHANGED map
           \/ m.ptr # NULL /\ pc' = "first" /\ map' = [map EXCEPT !.at = m.ptr]
    BY DEF Start
  <1>2. /\ HeapOwned /\ map.at = NULL /\ DOMAIN nodes = {} /\ Owned = {}
        /\ map \in [at : Nat, list : Nat, count : Nat]
    BY <1>1 DEF IInv, Stage, Owned, TypeOK
  <1>3. \/ m.ptr = NULL /\ m.heap = heap
        \/ m.ptr \in Nat /\ m.ptr # NULL /\ Holding(m.heap, before, {m.ptr})
    <2>1. MapSize \in Nat
      BY MemoryMapAssumption
    <2>2. Owned \cup {m.ptr} = {m.ptr}
      BY <1>2
    <2>3. \/ m.ptr = NULL /\ m.heap = heap
          \/ m.ptr \in Nat /\ m.ptr # NULL /\ Holding(m.heap, before, Owned \cup {m.ptr})
      BY <1>2, <2>1, Allocation
    <2> QED
      BY <2>2, <2>3, Zenon
  <1> HIDE DEF m
  <1>4. map' \in [at : Nat, list : Nat, count : Nat] /\ map'.at = m.ptr
    BY <1>1, <1>2, <1>3
  <1>5. Owned' = {m.ptr} \ {NULL}
    BY <1>1, <1>2, <1>4 DEF Owned
  <1>6. HeapOwned'
    <2>1. CASE m.ptr = NULL
      <3>1. Owned' = {} /\ heap' = heap
        BY <1>1, <1>3, <1>5, <2>1
      <3> QED
        BY <1>1, <1>2, <3>1 DEF HeapOwned
    <2>2. CASE m.ptr # NULL
      <3>1. Owned' = {m.ptr}
        BY <1>5, <2>2
      <3> QED
        BY <1>1, <1>2, <1>3, <2>2, <3>1 DEF HeapOwned
    <2> QED
      BY <2>1, <2>2
  <1>7. TypeOK'
    BY <1>1, <1>4, <1>6, HeapTyped DEF IInv, TypeOK, HeapOwned
  <1>8. Chain'
    BY <1>1, <1>2 DEF Chain
  <1>9. Stage'
    BY <1>1, <1>2, <1>4 DEF Stage
  <1> QED
    BY <1>6, <1>7, <1>8, <1>9 DEF IInv

LEMMA FirstStep ==
  ASSUME IInv, First
  PROVE  IInv'
  <1> DEFINE n == Malloc(heap, NodeSize)
  <1>1. /\ pc = "first" /\ UNCHANGED <<firmware, before>> /\ heap' = n.heap
        /\ \/ n.ptr = NULL /\ pc' = "discard" /\ UNCHANGED <<map, nodes, node, offset>>
           \/ /\ n.ptr # NULL /\ map' = [map EXCEPT !.list = n.ptr, !.count = 1]
              /\ nodes' = [a \in {n.ptr} |-> Node(NULL)] /\ node' = n.ptr /\ offset' = 0
              /\ pc' = "query"
    BY DEF First
  <1>2. /\ HeapOwned /\ TypeOK /\ map.at # NULL /\ DOMAIN nodes = {} /\ Owned = {map.at}
        /\ map \in [at : Nat, list : Nat, count : Nat]
    BY <1>1 DEF IInv, Stage, Owned, TypeOK
  <1>3. \/ n.ptr = NULL /\ n.heap = heap
        \/ /\ n.ptr \in Nat /\ n.ptr # NULL /\ n.ptr \notin Owned
           /\ Holding(n.heap, before, Owned \cup {n.ptr})
    BY <1>2, Allocation, MemoryMapAssumption
  <1> HIDE DEF n
  <1>4. CASE n.ptr = NULL
    <2>1. UNCHANGED <<firmware, before, heap, map, nodes, node, offset>> /\ pc' = "discard"
      BY <1>1, <1>3, <1>4
    <2> QED
      BY <1>1, <1>2, <2>1 DEF IInv, TypeOK, HeapOwned, Owned, Chain, Closed, Stage
  <1>5. CASE n.ptr # NULL
    <2>a. /\ map' = [map EXCEPT !.list = n.ptr, !.count = 1]
          /\ nodes' = [a \in {n.ptr} |-> Node(NULL)] /\ node' = n.ptr /\ offset' = 0
          /\ pc' = "query"
      BY <1>1, <1>5
    <2>b. n.ptr \in Nat
      BY <1>3, <1>5
    <2>1. /\ map'.at = map.at /\ map' \in [at : Nat, list : Nat, count : Nat]
          /\ nodes' = [a \in {n.ptr} |-> Node(NULL)] /\ node' = n.ptr /\ offset' = 0
          /\ pc' = "query" /\ n.ptr \in Nat
      BY <1>2, <2>a, <2>b
    <2>2. DOMAIN nodes' = {n.ptr} /\ nodes'[n.ptr] = Node(NULL)
      BY <2>1
    <2>3. Owned' = Owned \cup {n.ptr}
      BY <1>2, <2>1, <2>2 DEF Owned
    <2>4. HeapOwned'
      BY <1>1, <1>2, <1>3, <1>5, <2>1, <2>2, <2>3 DEF HeapOwned
    <2>5. Node(NULL) \in NodeType
      BY DEF Node, NodeType, NULL
    <2>6. nodes' \in [DOMAIN nodes' -> NodeType]
      BY <2>1, <2>2, <2>5
    <2>7. TypeOK'
      BY <1>1, <1>2, <2>1, <2>4, <2>6, HeapTyped DEF TypeOK, HeapOwned, NodeType
    <2>8. Chain'
      <3>1. nodes'[n.ptr].prev = NULL
        BY <2>2 DEF Node
      <3> QED
        BY <1>5, <2>1, <2>2, <3>1 DEF Chain
    <2>9. Stage'
      BY <1>2, <2>1, <2>2 DEF Stage
    <2> QED
      BY <2>4, <2>7, <2>8, <2>9 DEF IInv
  <1> QED
    BY <1>4, <1>5

LEMMA QueryFailsStep ==
  ASSUME IInv, QueryFails
  PROVE  IInv'
  BY DEF QueryFails, IInv, TypeOK, HeapOwned, Owned, Chain, Closed, Stage

\* Filling in an entry changes no link.
LEMMA FilledFacts ==
  ASSUME IInv, pc = "query", NEW e \in Entries, NEW filled, filled = [nodes EXCEPT ![node].entry = e]
  PROVE  /\ DOMAIN filled = DOMAIN nodes
         /\ \A a \in DOMAIN nodes : filled[a].next = nodes[a].next /\ filled[a].prev = nodes[a].prev
         /\ filled \in [DOMAIN nodes -> NodeType]
  <1>1. node \in DOMAIN nodes /\ nodes \in [DOMAIN nodes -> NodeType]
    BY DEF IInv, Stage, TypeOK, NodeType
  <1> QED
    BY <1>1 DEF NodeType

\* A step that changes no link keeps the chain.
LEMMA SameChain ==
  ASSUME Chain, UNCHANGED node, DOMAIN nodes' = DOMAIN nodes,
         \A a \in DOMAIN nodes : nodes'[a].next = nodes[a].next /\ nodes'[a].prev = nodes[a].prev
  PROVE  Chain'
  <1>1. \A a \in DOMAIN nodes' :
          /\ nodes'[a].prev \in (DOMAIN nodes' \cup {NULL}) \ {node'}
          /\ nodes'[a].prev # NULL => nodes'[nodes'[a].prev].next = a
    BY DEF Chain
  <1>2. \A a \in DOMAIN nodes' \ {node'} : /\ nodes'[a].next \in DOMAIN nodes'
                                          /\ nodes'[nodes'[a].next].prev = a
    BY DEF Chain
  <1>3. ASSUME NEW S \in SUBSET DOMAIN nodes', S # {}, Closed(S)'
        PROVE  node' \in S
    <2>1. Closed(S)
      BY <1>3 DEF Closed
    <2> QED
      BY <1>3, <2>1 DEF Chain
  <1> QED
    BY <1>1, <1>2, <1>3 DEF Chain

\* The new node becomes the end of the chain.
LEMMA ExtendedChain ==
  ASSUME IInv, pc = "query", NEW filled, DOMAIN filled = DOMAIN nodes,
         \A a \in DOMAIN nodes : filled[a].next = nodes[a].next /\ filled[a].prev = nodes[a].prev,
         filled \in [DOMAIN nodes -> NodeType],
         NEW new \in Nat \ {NULL}, new \notin DOMAIN nodes,
         nodes' = Appended(filled, new), node' = new
  PROVE  /\ DOMAIN nodes' = DOMAIN nodes \cup {new}
         /\ nodes' \in [DOMAIN nodes' -> NodeType]
         /\ Chain'
  <1>1. /\ node \in DOMAIN nodes /\ NULL \notin DOMAIN nodes /\ Chain /\ node # new
        /\ DOMAIN nodes' = DOMAIN nodes \cup {new}
    <2>1. DOMAIN nodes \subseteq Pointers(heap) /\ SoundHeap(heap)
      BY DEF IInv, HeapOwned, Holding, Owned
    <2>2. NULL \notin DOMAIN nodes
      BY <2>1, PointerFacts
    <2> QED
      BY <2>2 DEF IInv, Stage, Appended
  <1>2. nodes'[new] = Node(node)
    BY DEF Appended
  <1>3. \A a \in DOMAIN nodes : /\ nodes'[a].prev = nodes[a].prev
                                /\ nodes'[a].next = IF a = node THEN new ELSE nodes[a].next
                                /\ nodes'[a] \in NodeType
    BY <1>1 DEF Appended, NodeType
  <1>4. nodes'[new].prev = node /\ nodes'[new] \in NodeType
    BY <1>2 DEF Node, NodeType, NULL, IInv, TypeOK
  <1>5. nodes' \in [DOMAIN nodes' -> NodeType]
    <2>1. nodes' = [a \in DOMAIN nodes' |-> nodes'[a]]
      BY Zenon DEF Appended
    <2> QED
      BY <1>1, <1>3, <1>4, <2>1
  <1>6. \A a \in DOMAIN nodes' :
          /\ nodes'[a].prev \in (DOMAIN nodes' \cup {NULL}) \ {node'}
          /\ nodes'[a].prev # NULL => nodes'[nodes'[a].prev].next = a
    <2>1. ASSUME NEW a \in DOMAIN nodes
          PROVE  /\ nodes'[a].prev \in (DOMAIN nodes' \cup {NULL}) \ {node'}
                 /\ nodes'[a].prev # NULL => nodes'[nodes'[a].prev].next = a
      <3>1. /\ nodes[a].prev \in (DOMAIN nodes \cup {NULL}) \ {node}
            /\ nodes[a].prev # NULL => nodes[nodes[a].prev].next = a
        BY <1>1 DEF Chain
      <3> QED
        BY <1>1, <1>3, <3>1
    <2>2. /\ nodes'[new].prev \in (DOMAIN nodes' \cup {NULL}) \ {node'}
          /\ nodes'[nodes'[new].prev].next = new
      BY <1>1, <1>3, <1>4
    <2> QED
      BY <1>1, <2>1, <2>2
  <1>7. \A a \in DOMAIN nodes' \ {node'} : /\ nodes'[a].next \in DOMAIN nodes'
                                          /\ nodes'[nodes'[a].next].prev = a
    <2> SUFFICES ASSUME NEW a \in DOMAIN nodes
                 PROVE  /\ nodes'[a].next \in DOMAIN nodes'
                        /\ nodes'[nodes'[a].next].prev = a
      BY <1>1
    <2>1. CASE a = node
      BY <2>1, <1>1, <1>3, <1>4
    <2>2. CASE a # node
      <3>1. nodes[a].next \in DOMAIN nodes /\ nodes[nodes[a].next].prev = a
        BY <2>2, <1>1 DEF Chain
      <3> QED
        BY <2>2, <3>1, <1>1, <1>3
    <2> QED
      BY <2>1, <2>2
  <1>8. ASSUME NEW S \in SUBSET DOMAIN nodes', S # {}, Closed(S)'
        PROVE  node' \in S
    <2> SUFFICES ASSUME new \notin S PROVE FALSE
      OBVIOUS
    <2>1. S \in SUBSET DOMAIN nodes
      BY <1>1, <1>8
    <2>2. node \notin S
      BY <1>1, <1>3, <1>8 DEF Closed
    <2>3. Closed(S)
      BY <1>3, <1>8, <2>1 DEF Closed
    <2> QED
      BY <1>1, <1>8, <2>1, <2>2, <2>3 DEF Chain
  <1> QED
    BY <1>1, <1>5, <1>6, <1>7, <1>8 DEF Chain

LEMMA QueryStep ==
  ASSUME IInv, Query
  PROVE  IInv'
  <1> DEFINE answer == firmware[offset]
             filled == [nodes EXCEPT ![node].entry = answer.entry]
             n      == Malloc(heap, NodeSize)
  <1>1. /\ pc = "query" /\ UNCHANGED <<firmware, before>> /\ offset' = answer.next
        /\ \/ /\ nodes' = filled /\ pc' = "done" /\ UNCHANGED <<heap, map, node>>
           \/ /\ n.ptr = NULL /\ heap' = n.heap
              /\ nodes' = filled /\ pc' = "unwind" /\ UNCHANGED <<map, node>>
           \/ /\ n.ptr # NULL /\ heap' = n.heap
              /\ nodes' = Appended(filled, n.ptr) /\ node' = n.ptr
              /\ map' = [map EXCEPT !.count = @ + 1] /\ pc' = "query"
    BY DEF Query, Extend, Exhausted
  <1>2. /\ HeapOwned /\ TypeOK /\ Chain /\ map.at # NULL /\ node \in DOMAIN nodes
        /\ map \in [at : Nat, list : Nat, count : Nat]
    BY <1>1 DEF IInv, Stage, TypeOK
  <1>3. answer.entry \in Entries /\ answer.next \in Cookies \cup {0}
    BY <1>2 DEF TypeOK, Firmwares
  <1>4. \/ n.ptr = NULL /\ n.heap = heap
        \/ /\ n.ptr \in Nat /\ n.ptr # NULL /\ n.ptr \notin Owned
           /\ Holding(n.heap, before, Owned \cup {n.ptr})
    BY <1>2, Allocation, MemoryMapAssumption
  <1>5. /\ DOMAIN filled = DOMAIN nodes
        /\ \A a \in DOMAIN nodes : filled[a].next = nodes[a].next /\ filled[a].prev = nodes[a].prev
        /\ filled \in [DOMAIN nodes -> NodeType]
    BY <1>1, <1>3, FilledFacts
  <1> HIDE DEF answer, filled, n
  <1>6. CASE nodes' = filled /\ pc' \in {"done", "unwind"} /\ UNCHANGED <<heap, map, node>>
    <2>1. HeapOwned'
      BY <1>1, <1>2, <1>5, <1>6 DEF HeapOwned, Owned
    <2>2. TypeOK'
      BY <1>1, <1>2, <1>3, <1>5, <1>6 DEF TypeOK, NodeType
    <2>3. Chain'
      BY <1>2, <1>5, <1>6, SameChain
    <2>4. Stage'
      BY <1>2, <1>5, <1>6 DEF Stage
    <2> QED
      BY <2>1, <2>2, <2>3, <2>4 DEF IInv
  <1>7. CASE /\ n.ptr # NULL /\ heap' = n.heap /\ nodes' = Appended(filled, n.ptr) /\ node' = n.ptr
             /\ map' = [map EXCEPT !.count = @ + 1] /\ pc' = "query"
    <2>1. /\ n.ptr \in Nat \ {NULL} /\ n.ptr \notin Owned
          /\ Holding(heap', before, Owned \cup {n.ptr})
      BY <1>4, <1>7
    <2>2. n.ptr \notin DOMAIN nodes /\ n.ptr # map.at
      BY <1>2, <2>1 DEF Owned
    <2>3. map'.at = map.at /\ map' \in [at : Nat, list : Nat, count : Nat]
      BY <1>2, <1>7
    <2>4. /\ DOMAIN nodes' = DOMAIN nodes \cup {n.ptr}
          /\ nodes' \in [DOMAIN nodes' -> NodeType]
          /\ Chain'
      BY <1>1, <1>5, <1>7, <2>1, <2>2, ExtendedChain
    <2>5. Owned' = Owned \cup {n.ptr}
      BY <2>3, <2>4 DEF Owned
    <2>6. HeapOwned'
      BY <1>1, <1>2, <2>1, <2>2, <2>3, <2>4, <2>5 DEF HeapOwned
    <2>7. TypeOK'
      BY <1>1, <1>2, <1>3, <1>7, <2>1, <2>3, <2>4, <2>6, HeapTyped DEF TypeOK, NodeType, HeapOwned
    <2>8. Stage'
      BY <1>2, <1>7, <2>3, <2>4 DEF Stage
    <2> QED
      BY <2>4, <2>6, <2>7, <2>8 DEF IInv
  <1> QED
    BY <1>1, <1>4, <1>6, <1>7

\* Nodes are never at NULL.
LEMMA NodesNotNull ==
  ASSUME IInv
  PROVE  NULL \notin DOMAIN nodes
  <1>1. DOMAIN nodes \subseteq Pointers(heap) /\ SoundHeap(heap)
    BY DEF IInv, HeapOwned, Holding, Owned
  <1> QED
    BY <1>1, PointerFacts

\* Stepping back frees the node that was the end, and the one before it is
\* the end of what is left.
LEMMA UnwindStep ==
  ASSUME IInv, Unwind
  PROVE  IInv'
  <1> DEFINE up == nodes[node].prev
  <1>1. /\ pc = "unwind" /\ up # NULL /\ node' = up
        /\ UNCHANGED <<firmware, before, map, offset, pc>>
        /\ heap' = Free(heap, nodes[up].next)
        /\ nodes' = [a \in DOMAIN nodes \ {nodes[up].next} |-> nodes[a]]
    BY DEF Unwind
  <1>2. HeapOwned /\ TypeOK /\ Chain /\ map.at # NULL /\ node \in DOMAIN nodes
    BY <1>1 DEF IInv, Stage
  <1>3. up \in DOMAIN nodes /\ up # node /\ nodes[up].next = node
    BY <1>1, <1>2 DEF Chain
  <1>4. DOMAIN nodes' = DOMAIN nodes \ {node} /\ \A a \in DOMAIN nodes' : nodes'[a] = nodes[a]
    BY <1>1, <1>3
  <1>5. Owned' = Owned \ {node}
    BY <1>1, <1>2, <1>4 DEF Owned, HeapOwned
  <1>6. HeapOwned'
    <2>1. Holding(Free(heap, node), before, Owned \ {node})
      BY <1>2, HoldingFree DEF HeapOwned, Owned
    <2> QED
      BY <1>1, <1>2, <1>3, <1>4, <1>5, <2>1 DEF HeapOwned
  <1>7. TypeOK'
    <2>1. nodes' \in [DOMAIN nodes' -> NodeType]
      BY <1>1, <1>2, <1>4 DEF TypeOK, NodeType
    <2>2. node' \in Nat
      BY <1>1, <1>2 DEF TypeOK
    <2> QED
      BY <1>1, <1>2, <1>6, <2>1, <2>2, HeapTyped DEF TypeOK, NodeType, HeapOwned
  <1>8. \A a \in DOMAIN nodes' :
          /\ nodes'[a].prev \in (DOMAIN nodes' \cup {NULL}) \ {node'}
          /\ nodes'[a].prev # NULL => nodes'[nodes'[a].prev].next = a
    <2> SUFFICES ASSUME NEW a \in DOMAIN nodes, a # node
                 PROVE  /\ nodes[a].prev \in ((DOMAIN nodes \ {node}) \cup {NULL}) \ {up}
                        /\ nodes[a].prev # NULL => nodes[nodes[a].prev].next = a
      BY <1>1, <1>4
    <2>1. /\ nodes[a].prev \in (DOMAIN nodes \cup {NULL}) \ {node}
          /\ nodes[a].prev # NULL => nodes[nodes[a].prev].next = a
      BY <1>2 DEF Chain
    <2> QED
      BY <1>1, <1>3, <2>1
  <1>9. \A a \in DOMAIN nodes' \ {node'} : /\ nodes'[a].next \in DOMAIN nodes'
                                          /\ nodes'[nodes'[a].next].prev = a
    <2> SUFFICES ASSUME NEW a \in DOMAIN nodes, a # node, a # up
                 PROVE  /\ nodes[a].next \in DOMAIN nodes \ {node}
                        /\ nodes[nodes[a].next].prev = a
      BY <1>1, <1>4
    <2>1. nodes[a].next \in DOMAIN nodes /\ nodes[nodes[a].next].prev = a
      BY <1>2 DEF Chain
    <2> QED
      BY <2>1
  <1>10. ASSUME NEW S \in SUBSET DOMAIN nodes', S # {}, Closed(S)'
         PROVE  node' \in S
    <2> SUFFICES ASSUME up \notin S PROVE FALSE
      BY <1>1
    <2>1. S \in SUBSET DOMAIN nodes /\ node \notin S
      BY <1>4, <1>10
    <2>2. Closed(S)
      BY <1>1, <1>4, <1>10, <2>1 DEF Closed
    <2> QED
      BY <1>2, <1>10, <2>1, <2>2 DEF Chain
  <1>11. Chain'
    BY <1>8, <1>9, <1>10 DEF Chain
  <1>12. Stage'
    BY <1>1, <1>2, <1>3, <1>4 DEF Stage
  <1> QED
    BY <1>6, <1>7, <1>11, <1>12 DEF IInv

\* When there is no node to step back to, the end is the only node.
LEMMA AbandonStep ==
  ASSUME IInv, Abandon
  PROVE  IInv'
  <1>1. /\ pc = "unwind" /\ nodes[node].prev = NULL /\ pc' = "discard"
        /\ UNCHANGED <<firmware, before, map, node, offset>>
        /\ heap' = Free(heap, node)
        /\ nodes' = [a \in DOMAIN nodes \ {node} |-> nodes[a]]
    BY DEF Abandon
  <1>2. HeapOwned /\ TypeOK /\ Chain /\ map.at # NULL /\ node \in DOMAIN nodes
    BY <1>1 DEF IInv, Stage
  <1>3. DOMAIN nodes = {node}
    <2> DEFINE S == DOMAIN nodes \ {node}
    <2>1. Closed(S)
      <3> SUFFICES ASSUME NEW a \in S PROVE nodes[a].next \in S
        BY DEF Closed
      <3>1. nodes[a].next \in DOMAIN nodes /\ nodes[nodes[a].next].prev = a /\ a # NULL
        BY <1>2, NodesNotNull DEF Chain
      <3> QED
        BY <1>1, <3>1
    <2>2. S = {}
      BY <1>2, <2>1 DEF Chain
    <2> QED
      BY <1>2, <2>2
  <1>4. DOMAIN nodes' = {}
    BY <1>1, <1>3
  <1>5. Owned' = Owned \ {node}
    BY <1>1, <1>2, <1>3, <1>4 DEF Owned, HeapOwned
  <1>6. HeapOwned'
    <2>1. Holding(Free(heap, node), before, Owned \ {node})
      BY <1>2, HoldingFree DEF HeapOwned, Owned
    <2> QED
      BY <1>1, <1>2, <1>4, <1>5, <2>1 DEF HeapOwned
  <1>7. TypeOK'
    <2>1. nodes' \in [DOMAIN nodes' -> NodeType]
      BY <1>1, <1>4
    <2> QED
      BY <1>1, <1>2, <1>6, <2>1, HeapTyped DEF TypeOK, NodeType, HeapOwned
  <1>8. Chain'
    BY <1>4 DEF Chain
  <1>9. Stage'
    BY <1>1, <1>2, <1>4 DEF Stage
  <1> QED
    BY <1>6, <1>7, <1>8, <1>9 DEF IInv

LEMMA DiscardStep ==
  ASSUME IInv, Discard
  PROVE  IInv'
  <1>1. /\ pc = "discard" /\ pc' = "failed" /\ heap' = Free(heap, map.at) /\ map' = NoMap
        /\ UNCHANGED <<firmware, before, nodes, node, offset>>
    BY DEF Discard
  <1>2. HeapOwned /\ TypeOK /\ Chain /\ map.at # NULL /\ DOMAIN nodes = {} /\ Owned = {map.at}
    BY <1>1 DEF IInv, Stage, Owned
  <1>3. map'.at = NULL /\ map' \in [at : Nat, list : Nat, count : Nat]
    BY <1>1 DEF NoMap, NULL
  <1>4. Owned' = {} /\ Owned \ {map.at} = {}
    BY <1>1, <1>2, <1>3 DEF Owned
  <1>5. HeapOwned'
    <2>1. Holding(Free(heap, map.at), before, Owned \ {map.at})
      BY <1>2, HoldingFree DEF HeapOwned
    <2> QED
      BY <1>1, <1>2, <1>4, <2>1, Zenon DEF HeapOwned
  <1>6. TypeOK'
    BY <1>1, <1>2, <1>3, <1>5, HeapTyped DEF TypeOK, HeapOwned
  <1>7. Chain' /\ Stage'
    BY <1>1, <1>2, <1>3 DEF Chain, Closed, Stage
  <1> QED
    BY <1>5, <1>6, <1>7 DEF IInv

\* IInv is an invariant of get_memory_map.
THEOREM Invariance == Spec => []IInv
  <1>1. Init => IInv
    BY InitIInv
  <1>2. IInv /\ [Next]_vars => IInv'
    <2> SUFFICES ASSUME IInv, [Next]_vars PROVE IInv'
      OBVIOUS
    <2>1. CASE Start
      BY <2>1, StartStep
    <2>2. CASE First
      BY <2>2, FirstStep
    <2>3. CASE QueryFails
      BY <2>3, QueryFailsStep
    <2>4. CASE Query
      BY <2>4, QueryStep
    <2>5. CASE Unwind
      BY <2>5, UnwindStep
    <2>6. CASE Abandon
      BY <2>6, AbandonStep
    <2>7. CASE Discard
      BY <2>7, DiscardStep
    <2>8. CASE UNCHANGED vars
      BY <2>8 DEF IInv, TypeOK, HeapOwned, Owned, Chain, Closed, Stage, vars
    <2> QED
      BY <2>1, <2>2, <2>3, <2>4, <2>5, <2>6, <2>7, <2>8 DEF Next, Returned
  <1> QED
    BY <1>1, <1>2, PTL DEF Spec

\* The map, its nodes and the heap keep their types.
THEOREM TypeCorrect == Spec => []TypeOK
  <1>1. IInv => TypeOK
    BY DEF IInv
  <1> QED
    BY <1>1, Invariance, PTL

\* Whatever the firmware tells and wherever memory runs out, exactly what can
\* be reached is allocated, and a failed call gives back the heap it was given.
THEOREM NothingLeaks == Spec => []OwnsExactly
  <1>1. IInv => OwnsExactly
    <2> SUFFICES ASSUME IInv PROVE OwnsExactly
      OBVIOUS
    <2>1. Allocated(heap) = Pointers(heap) /\ Allocated(before) = Pointers(before)
      BY DEF Allocated, Pointers, Taken
    <2>2. Allocated(heap) = Allocated(before) \cup DOMAIN nodes \cup ({map.at} \ {NULL})
      BY <2>1 DEF IInv, HeapOwned, Holding, Owned
    <2>3. ASSUME pc = "failed" PROVE heap = before
      <3>1. Owned = {}
        BY <2>3 DEF IInv, Stage, Owned
      <3> QED
        BY <3>1, HoldingReturned DEF IInv, HeapOwned
    <2>4. /\ pc \in {"query", "unwind"} => node \in DOMAIN nodes
          /\ \A a \in DOMAIN nodes : /\ nodes[a].prev \in DOMAIN nodes \cup {NULL}
                                     /\ a # node => nodes[a].next \in DOMAIN nodes
      BY DEF IInv, Stage, Chain
    <2> QED
      BY <2>2, <2>3, <2>4 DEF OwnsExactly
  <1> QED
    BY <1>1, Invariance, PTL

-----------------------------------------------------------------------------
(***************************************************************************)
(* What the map says: the nodes in the order of the list go along with the *)
(* cookies in the order of the firmware.                                   *)
(***************************************************************************)
\* While the firmware is asked: all nodes but the last are filled, and the
\* last one waits for the entry of the next cookie.
Walk(order, cookie) ==
  /\ order[1] = map.list /\ cookie[1] = 0
  /\ order[map.count] = node /\ cookie[map.count] = offset /\ nodes[node].next = NULL
  /\ \A k \in 1 .. (map.count - 1) :
       /\ order[k] # node /\ order[k + 1] = nodes[order[k]].next
       /\ firmware[cookie[k]].next # 0 /\ cookie[k + 1] = firmware[cookie[k]].next
       /\ nodes[order[k]].entry = firmware[cookie[k]].entry

Walked ==
  /\ map.count > 0
  /\ \E order \in [1 .. map.count -> DOMAIN nodes] :
       \E cookie \in [1 .. map.count -> Cookies \cup {0}] : Walk(order, cookie)

MapInv == /\ pc = "query" => Walked
          /\ MapComplete

\* The first node waits for the entry of cookie 0.
LEMMA FirstMap ==
  ASSUME IInv, First, pc' = "query"
  PROVE  Walked'
  <1> DEFINE n == Malloc(heap, NodeSize).ptr
  <1>1. /\ map' = [map EXCEPT !.list = n, !.count = 1] /\ node' = n /\ offset' = 0
        /\ nodes' = [a \in {n} |-> Node(NULL)]
    BY DEF First
  <1> HIDE DEF n
  <1>2. map'.list = n /\ map'.count = 1
    BY <1>1 DEF IInv, TypeOK
  <1>3. DOMAIN nodes' = {n} /\ nodes'[n].next = NULL
    BY <1>1 DEF Node
  <1>4. PICK order, cookie : order = [k \in 1 .. 1 |-> n] /\ cookie = [k \in 1 .. 1 |-> 0]
    OBVIOUS
  <1>5. /\ order \in [1 .. map'.count -> DOMAIN nodes']
        /\ cookie \in [1 .. map'.count -> Cookies \cup {0}]
        /\ order[1] = n /\ cookie[1] = 0
    BY <1>2, <1>3, <1>4
  <1>6. Walk(order, cookie)'
    BY <1>1, <1>2, <1>3, <1>5 DEF Walk
  <1> QED
    BY <1>2, <1>5, <1>6 DEF Walked

\* The last entry fills the last node, and the map is complete.
LEMMA LastEntry ==
  ASSUME NEW order \in [1 .. map.count -> DOMAIN nodes],
         NEW cookie \in [1 .. map.count -> Cookies \cup {0}],
         Walk(order, cookie), TypeOK, map.count > 0, node \in DOMAIN nodes,
         firmware[offset].next = 0, pc' = "done", UNCHANGED <<firmware, map, node>>,
         nodes' = [nodes EXCEPT ![node].entry = firmware[offset].entry]
  PROVE  MapComplete'
  <1>1. /\ map.count \in Nat /\ map.count \in 1 .. map.count
        /\ \A k \in 1 .. map.count : k \in 1 .. (map.count - 1) \/ k = map.count
        /\ \A k \in 1 .. (map.count - 1) : k \in 1 .. map.count
    BY DEF TypeOK
  <1>2. /\ DOMAIN nodes' = DOMAIN nodes
        /\ nodes'[node].entry = firmware[offset].entry
        /\ \A a \in DOMAIN nodes : /\ nodes'[a].next = nodes[a].next
                                   /\ a # node => nodes'[a].entry = nodes[a].entry
    BY DEF TypeOK
  <1>3. (IsListed(order) /\ IsTold(cookie))'
    BY <1>1, <1>2 DEF Walk, IsListed, IsTold
  <1>4. ASSUME NEW k \in 1 .. map.count
        PROVE  nodes'[order[k]].entry = firmware[cookie[k]].entry
    <2>1. CASE k = map.count
      BY <1>2, <2>1 DEF Walk
    <2>2. CASE k \in 1 .. (map.count - 1)
      BY <1>2, <2>2 DEF Walk
    <2> QED
      BY <1>1, <2>1, <2>2
  <1>5. /\ order \in [1 .. map'.count -> DOMAIN nodes']
        /\ cookie \in [1 .. map'.count -> Cookies \cup {0}] /\ map'.count > 0
    BY <1>2
  <1>6. (\A k \in 1 .. map.count : nodes[order[k]].entry = firmware[cookie[k]].entry)'
    BY <1>4
  <1>7. (\E told \in [1 .. map.count -> Cookies \cup {0}] :
           /\ IsTold(told)
           /\ \A k \in 1 .. map.count : nodes[order[k]].entry = firmware[told[k]].entry)'
    BY <1>3, <1>5, <1>6 DEF IsTold
  <1>8. (\E listed \in [1 .. map.count -> DOMAIN nodes] :
           /\ IsListed(listed)
           /\ \E told \in [1 .. map.count -> Cookies \cup {0}] :
                /\ IsTold(told)
                /\ \A k \in 1 .. map.count : nodes[listed[k]].entry = firmware[told[k]].entry)'
    BY <1>3, <1>5, <1>7 DEF IsListed
  <1> QED
    BY <1>5, <1>8 DEF MapComplete

\* Another entry fills the last node, and the node behind it waits for the
\* next one.
LEMMA AnotherEntry ==
  ASSUME NEW order \in [1 .. map.count -> DOMAIN nodes],
         NEW cookie \in [1 .. map.count -> Cookies \cup {0}],
         Walk(order, cookie), TypeOK, map.count > 0, node \in DOMAIN nodes,
         firmware[offset].next # 0, offset' = firmware[offset].next,
         NEW new, new \notin DOMAIN nodes,
         nodes' = Appended([nodes EXCEPT ![node].entry = firmware[offset].entry], new),
         node' = new, map' = [map EXCEPT !.count = @ + 1], UNCHANGED firmware
  PROVE  Walked'
  <1> DEFINE n == map.count
             filled == [nodes EXCEPT ![node].entry = firmware[offset].entry]
  <1>1. /\ n \in Nat /\ n > 0 /\ map'.count = n + 1 /\ map'.list = map.list /\ new # node
        /\ offset \in Cookies \cup {0} /\ firmware[offset].next \in Cookies \cup {0}
    BY DEF TypeOK, Firmwares
  <1>2. /\ DOMAIN filled = DOMAIN nodes
        /\ filled[node] = [nodes[node] EXCEPT !.entry = firmware[offset].entry]
        /\ \A a \in DOMAIN nodes \ {node} : filled[a] = nodes[a]
    BY DEF TypeOK
  <1>3. nodes[node] \in [entry : Entries \cup {BLANK}, next : Nat, prev : Nat]
    BY DEF TypeOK
  <1> HIDE DEF filled
  <1>4. /\ DOMAIN nodes' = DOMAIN nodes \cup {new}
        /\ nodes'[new] = Node(node)
        /\ nodes'[node] = [filled[node] EXCEPT !.next = new]
        /\ \A a \in DOMAIN nodes \ {node} : nodes'[a] = filled[a]
    BY <1>1, <1>2 DEF Appended, filled
  <1>5. /\ nodes'[new].next = NULL
        /\ nodes'[node].next = new /\ nodes'[node].entry = firmware[offset].entry
    <2>1. filled[node].entry = firmware[offset].entry
      BY <1>2, <1>3
    <2>2. /\ DOMAIN filled[node] = {"entry", "next", "prev"}
      BY <1>2, <1>3
    <2>3. nodes'[node].next = new /\ nodes'[node].entry = filled[node].entry
      BY <1>4, <2>2
    <2> QED
      BY <1>4, <2>1, <2>3 DEF Node
  <1>6. PICK order_, cookie_ :
          /\ order_ = [k \in 1 .. (n + 1) |-> IF k = n + 1 THEN new ELSE order[k]]
          /\ cookie_ = [k \in 1 .. (n + 1) |->
                          IF k = n + 1 THEN firmware[offset].next ELSE cookie[k]]
    OBVIOUS
  <1>7. /\ \A k \in 1 .. n : /\ k \in 1 .. (n + 1) /\ k # n + 1
                             /\ k \in 1 .. (n - 1) \/ k = n
        /\ \A k \in 1 .. (n - 1) : k \in 1 .. n /\ k + 1 \in 1 .. n
        /\ n + 1 \in 1 .. (n + 1) /\ 1 \in 1 .. n /\ (n + 1) - 1 = n
    BY <1>1
  <1> HIDE DEF n
  <1>8. /\ order_[n + 1] = new /\ cookie_[n + 1] = firmware[offset].next
        /\ \A k \in 1 .. n : order_[k] = order[k] /\ cookie_[k] = cookie[k]
    BY <1>6, <1>7
  <1>9. /\ order_ \in [1 .. map'.count -> DOMAIN nodes']
        /\ cookie_ \in [1 .. map'.count -> Cookies \cup {0}]
    BY <1>1, <1>4, <1>6, <1>7 DEF n
  <1>10. ASSUME NEW k \in 1 .. n
         PROVE  /\ order_[k] # node' /\ order_[k + 1] = nodes'[order_[k]].next
                /\ firmware'[cookie_[k]].next # 0
                /\ cookie_[k + 1] = firmware'[cookie_[k]].next
                /\ nodes'[order_[k]].entry = firmware'[cookie_[k]].entry
    <2>1. order[k] \in DOMAIN nodes /\ order_[k] # node'
      BY <1>8 DEF n
    <2>2. CASE k = n
      <3>1. order_[k] = node /\ cookie_[k] = offset
        BY <1>8, <2>2 DEF Walk, n
      <3> QED
        BY <1>5, <1>8, <2>1, <2>2, <3>1
    <2>3. CASE k \in 1 .. (n - 1)
      <3>1. /\ order[k] # node /\ order[k + 1] = nodes[order[k]].next
            /\ firmware[cookie[k]].next # 0 /\ cookie[k + 1] = firmware[cookie[k]].next
            /\ nodes[order[k]].entry = firmware[cookie[k]].entry
        BY <2>3 DEF Walk, n
      <3>2. nodes'[order[k]] = nodes[order[k]]
        BY <1>2, <1>4, <2>1, <3>1
      <3>3. /\ order_[k] = order[k] /\ order_[k + 1] = order[k + 1]
            /\ cookie_[k] = cookie[k] /\ cookie_[k + 1] = cookie[k + 1]
        BY <1>7, <1>8, <2>3
      <3> QED
        BY <2>1, <3>1, <3>2, <3>3
    <2> QED
      BY <1>7, <2>2, <2>3
  <1>11. order_[1] = map'.list /\ cookie_[1] = 0
    BY <1>1, <1>7, <1>8 DEF Walk
  <1>12. order_[map'.count] = node' /\ cookie_[map'.count] = offset' /\ nodes'[node'].next = NULL
    BY <1>1, <1>5, <1>8
  <1>13. map'.count - 1 = n
    BY <1>1, <1>7
  <1>14. Walk(order_, cookie_)'
    BY <1>10, <1>11, <1>12, <1>13 DEF Walk
  <1>15. map'.count > 0
    BY <1>1
  <1> QED
    BY <1>9, <1>14, <1>15 DEF Walked

\* An answer fills the last node, and ends the list or gives it another node.
LEMMA QueryMap ==
  ASSUME IInv, MapInv, Query
  PROVE  MapInv'
  <1> DEFINE answer == firmware[offset]
             filled == [nodes EXCEPT ![node].entry = answer.entry]
             n      == Malloc(heap, NodeSize)
  <1>1. /\ pc = "query" /\ UNCHANGED firmware /\ offset' = answer.next
        /\ \/ /\ answer.next = 0 /\ nodes' = filled /\ pc' = "done" /\ UNCHANGED <<map, node>>
           \/ pc' = "unwind"
           \/ /\ answer.next # 0 /\ n.ptr # NULL
              /\ nodes' = Appended(filled, n.ptr) /\ node' = n.ptr
              /\ map' = [map EXCEPT !.count = @ + 1] /\ pc' = "query"
    BY DEF Query, Extend, Exhausted
  <1>2. HeapOwned /\ TypeOK /\ node \in DOMAIN nodes /\ map.count > 0
    BY <1>1 DEF IInv, Stage, MapInv, Walked
  <1>3. PICK order \in [1 .. map.count -> DOMAIN nodes],
             cookie \in [1 .. map.count -> Cookies \cup {0}] : Walk(order, cookie)
    BY <1>1 DEF MapInv, Walked
  <1>4. CASE answer.next = 0 /\ nodes' = filled /\ pc' = "done" /\ UNCHANGED <<map, node>>
    <2>1. MapComplete'
      BY <1>1, <1>2, <1>3, <1>4, LastEntry
    <2> QED
      BY <1>4, <2>1 DEF MapInv
  <1>5. CASE pc' = "unwind"
    BY <1>5 DEF MapInv, MapComplete
  <1>6. CASE /\ answer.next # 0 /\ n.ptr # NULL
             /\ nodes' = Appended(filled, n.ptr) /\ node' = n.ptr
             /\ map' = [map EXCEPT !.count = @ + 1] /\ pc' = "query"
    <2>1. n.ptr \notin DOMAIN nodes
      BY <1>2, <1>6, Allocation, MemoryMapAssumption DEF Owned
    <2>2. Walked'
      BY <1>1, <1>2, <1>3, <1>6, <2>1, AnotherEntry
    <2> QED
      BY <1>6, <2>2 DEF MapInv, MapComplete
  <1> QED
    BY <1>1, <1>4, <1>5, <1>6

\* The map get_memory_map returns is the firmware's, entry by entry.
THEOREM MapRead == Spec => []MapComplete
  <1>1. Init => MapInv
    BY DEF Init, MapInv, MapComplete
  <1>2. IInv /\ MapInv /\ [Next]_vars => MapInv'
    <2> SUFFICES ASSUME IInv, MapInv, [Next]_vars PROVE MapInv'
      OBVIOUS
    <2>1. CASE First
      <3>1. pc' \in {"query", "discard"}
        BY <2>1 DEF First
      <3> QED
        BY <2>1, <3>1, FirstMap DEF MapInv, MapComplete
    <2>2. CASE Query
      BY <2>2, QueryMap
    <2>3. CASE Start \/ QueryFails \/ Unwind \/ Abandon \/ Discard
      <3>1. pc' \in {"first", "unwind", "discard", "failed"}
        BY <2>3 DEF Start, QueryFails, Unwind, Abandon, Discard
      <3> QED
        BY <3>1 DEF MapInv, MapComplete
    <2>4. CASE UNCHANGED vars
      BY <2>4 DEF MapInv, MapComplete, IsListed, IsTold, Walked, Walk, vars
    <2> QED
      BY <2>1, <2>2, <2>3, <2>4 DEF Next, Returned
  <1>3. MapInv => MapComplete
    BY DEF MapInv
  <1> QED
    BY <1>1, <1>2, <1>3, Invariance, PTL DEF Spec
=============================================================================
