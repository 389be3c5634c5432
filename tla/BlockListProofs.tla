--------------------------- MODULE BlockListProofs ---------------------------
(***************************************************************************)
(* What the operators of BlockList do to a well-formed list: splitting,    *)
(* merging and marking keep it well formed, and the lists malloc, realloc  *)
(* and free build from a list without free neighbours have none; malloc,   *)
(* realloc and free on a sound heap; and the heap as a function of what is *)
(* allocated.                                                              *)
(***************************************************************************)
EXTENDS BlockList, WellFoundedInduction, TLAPS

WellFormed(B) == IsList(B) /\ Linked(B) /\ Disjoint(B)

-----------------------------------------------------------------------------
(***************************************************************************)
(* Numbers.                                                                *)
(***************************************************************************)
\* Division by a granule rounds down by less than the granule.
LEMMA DivFacts ==
  ASSUME NEW a \in Nat, NEW n \in Nat, n > 0
  PROVE  /\ a \div n \in Nat
         /\ (a \div n) * n <= a
         /\ a < (a \div n) * n + n
  <1>1. a \div n \in Nat
    OBVIOUS
  <1>2. (a \div n) * n <= a
    OBVIOUS
  <1>3. a < (a \div n) * n + n
    OBVIOUS
  <1> QED
    BY <1>1, <1>2, <1>3

\* _align16 returns the next multiple of the granule.
LEMMA AlignFacts ==
  ASSUME NEW v \in Nat
  PROVE  /\ Align16(v) \in Nat
         /\ v <= Align16(v)
         /\ Align16(v) < v + ALIGN
         /\ \E k \in Nat : Align16(v) = k * ALIGN
  <1> DEFINE w == v + (ALIGN - 1)
             k == w \div ALIGN
  <1>1. w \in Nat /\ ALIGN \in Nat /\ ALIGN > 0
    BY HeapAssumption
  <1>2. k \in Nat /\ k * ALIGN <= w /\ w < k * ALIGN + ALIGN
    BY <1>1, DivFacts
  <1>3. k * ALIGN \in Nat
    BY <1>1, <1>2
  <1>4. Align16(v) = k * ALIGN
    BY DEF Align16
  <1>5. v <= k * ALIGN /\ k * ALIGN < v + ALIGN
    <2> HIDE DEF k
    <2> DEFINE m == k * ALIGN
    <2> SUFFICES v <= m /\ m < v + ALIGN
      OBVIOUS
    <2>1. m \in Nat /\ m <= w /\ w < m + ALIGN
      BY <1>2, <1>3
    <2> QED
      BY <2>1, <1>1
  <1> QED
    BY <1>2, <1>3, <1>4, <1>5

\* Once its start is aligned the heap still holds a header.
LEMMA HeapFacts ==
  /\ HDR \in Nat /\ HDR > 0
  /\ ALIGN \in Nat /\ ALIGN > 0
  /\ HeapStart \in Nat /\ HeapStart > 0
  /\ HeapEnd \in Nat
  /\ HeapStart + HDR <= HeapEnd
  <1>1. HeapStart \in Nat /\ HeapAddr <= HeapStart /\ HeapStart < HeapAddr + ALIGN
    BY HeapAssumption, AlignFacts DEF HeapStart
  <1> QED
    BY <1>1, HeapAssumption DEF HeapEnd

\* The first block of an address-ordered list exists.
LEMMA LeastExists ==
  ASSUME NEW S, S \subseteq Nat, S # {}
  PROVE  /\ Min(S) \in S
         /\ \A x \in S : Min(S) <= x
  <1> DEFINE R == {ss \in Nat \X Nat : ss[1] < ss[2]}
  <1>1. IsWellFoundedOn(R, Nat)
    BY NatLessThanWellFounded, Zenon DEF OpToRel
  <1>2. \E x \in S : \A y \in S : ~ (<<y, x>> \in R)
    <2> HIDE DEF R
    <2> QED
      BY <1>1, WFMin
  <1>3. PICK x \in S : \A y \in S : ~ (<<y, x>> \in R)
    BY <1>2
  <1>4. \A y \in S : x =< y
    <2> SUFFICES ASSUME NEW y \in S PROVE x =< y
      OBVIOUS
    <2>1. <<y, x>> \in Nat \X Nat /\ ~(y < x)
      BY <1>3
    <2> QED
      BY <2>1
  <1>5. Min(S) \in S /\ \A y \in S : Min(S) =< y
    BY <1>4 DEF Min
  <1> QED
    BY <1>5

\* So does the largest of a set of sizes.
LEMMA GreatestExists ==
  ASSUME NEW S, NEW bound \in Nat, S \subseteq 0 .. bound, S # {}
  PROVE  /\ Max(S) \in S
         /\ \A x \in S : x <= Max(S)
  <1> DEFINE T == {bound - x : x \in S}
  <1>1. T \subseteq Nat /\ T # {}
    <2>1. \A x \in S : bound - x \in Nat
      OBVIOUS
    <2> QED
      BY <2>1
  <1>2. Min(T) \in T /\ \A t \in T : Min(T) <= t
    BY <1>1, LeastExists
  <1>3. PICK x \in S : Min(T) = bound - x
    BY <1>2
  <1>4. \A y \in S : x >= y
    <2> SUFFICES ASSUME NEW y \in S PROVE x >= y
      OBVIOUS
    <2>1. bound - y \in T
      OBVIOUS
    <2>2. bound - x <= bound - y
      BY <2>1, <1>2, <1>3
    <2> QED
      BY <2>2
  <1>5. Max(S) \in S /\ \A y \in S : Max(S) >= y
    <2> HIDE DEF T
    <2> QED
      BY <1>4 DEF Max
  <1> QED
    BY <1>5

-----------------------------------------------------------------------------
(***************************************************************************)
(* SplitBlock.                                                             *)
(***************************************************************************)
\* The types of the header fields.
LEMMA ListFacts ==
  ASSUME NEW B, IsList(B)
  PROVE  /\ DOMAIN B \subseteq Nat
         /\ NULL \notin DOMAIN B
         /\ \A b \in DOMAIN B :
              /\ b >= HeapStart
              /\ B[b] = Header(B[b].free, B[b].size, B[b].next, B[b].prev)
              /\ B[b].free \in BOOLEAN
              /\ B[b].size \in Nat
              /\ B[b].next \in DOMAIN B \cup {NULL}
              /\ B[b].prev \in DOMAIN B \cup {NULL}
              /\ End(B, b) \in Nat
              /\ b < End(B, b)
  BY HeapFacts DEF IsList, Headers, Header, End, NULL

\* C is B with block b cut down to size bytes and a free block new behind it.
SplitInto(B, b, size, new, C) ==
  /\ new \in Nat /\ b < new /\ new \notin DOMAIN B
  /\ C \in [DOMAIN B \cup {new} -> Headers(DOMAIN B \cup {new})]
  /\ C[new].free = TRUE
  /\ C[new].size = B[b].size - size - HDR
  /\ C[new].next = B[b].next
  /\ C[new].prev = b
  /\ C[b].size = size
  /\ C[b].next = new
  /\ \A c \in DOMAIN B : /\ C[c].free = B[c].free
                         /\ c # b => C[c].size = B[c].size /\ C[c].next = B[c].next
                         /\ c = B[b].next => C[c].prev = new
                         /\ c # B[b].next => C[c].prev = B[c].prev

\* SplitBlock writes these fields when the rest is large enough.
LEMMA SplitFields ==
  ASSUME NEW B, WellFormed(B), NEW b \in DOMAIN B, NEW size \in Nat,
         B[b].size >= size + HDR + ALIGN
  PROVE  SplitInto(B, b, size, b + HDR + size, SplitBlock(B, b, size))
  <1> DEFINE rest == B[b].size - size - HDR
             D == DOMAIN B
             S == [B EXCEPT ![b].size = size]
             new == b + HDR + size
             C == SplitBlock(B, b, size)
  <1>1. IsList(B) /\ B \in [D -> Headers(D)] /\ NULL \notin D
    BY ListFacts DEF WellFormed, IsList
  <1>2. /\ rest \in Nat /\ new \in Nat /\ b < new /\ new + HDR + rest = End(B, b)
    BY <1>1, ListFacts, HeapFacts DEF End
  <1>3. new \notin D
    BY <1>1, <1>2, ListFacts, HeapFacts DEF WellFormed, Disjoint, End
  <1>4. /\ S \in [D -> Headers(D)]
        /\ S[b].size = size /\ S[b].next = B[b].next
        /\ \A c \in D : /\ S[c].free = B[c].free /\ S[c].next = B[c].next
                        /\ S[c].prev = B[c].prev
                        /\ c # b => S[c].size = B[c].size
    BY <1>1 DEF Headers
  <1>5. DOMAIN S = D /\ End(S, b) = new
    BY <1>1, <1>4 DEF End
  <1>6. C = AllocateBlock(S, b, rest)
    BY <1>1, ListFacts, HeapFacts DEF SplitBlock
  <1> HIDE DEF S, C
  <1>7. C = [c \in D \cup {new} |->
              IF c = new
              THEN Header(TRUE, rest, B[b].next, b)
              ELSE [S[c] EXCEPT !.next = IF c = b THEN new ELSE @,
                                !.prev = IF c = B[b].next THEN new ELSE @]]
    BY <1>4, <1>5, <1>6 DEF AllocateBlock
  <1> HIDE DEF new, rest
  <1>8. /\ C[new] = Header(TRUE, rest, B[b].next, b)
        /\ \A c \in D : C[c] = [S[c] EXCEPT !.next = IF c = b THEN new ELSE @,
                                           !.prev = IF c = B[b].next THEN new ELSE @]
    BY <1>3, <1>7
  <1>9. /\ C[new].free = TRUE /\ C[new].size = rest
        /\ C[new].next = B[b].next /\ C[new].prev = b
        /\ C[new] \in Headers(D \cup {new})
    <2>1. B[b].next \in D \cup {NULL}
      BY <1>1 DEF Headers
    <2>2. C[new] = Header(TRUE, rest, B[b].next, b)
      BY <1>8
    <2> QED
      BY ONLY <2>1, <2>2, <1>2, b \in D DEF Header, Headers
  <1>10. ASSUME NEW c \in D
         PROVE  /\ C[c].free = S[c].free /\ C[c].size = S[c].size
                /\ c = b => C[c].next = new
                /\ c # b => C[c].next = S[c].next
                /\ c = B[b].next => C[c].prev = new
                /\ c # B[b].next => C[c].prev = S[c].prev
                /\ C[c] \in Headers(D \cup {new})
    <2>1. S[c] \in Headers(D)
      BY <1>4
    <2>2. C[c] = [S[c] EXCEPT !.next = IF c = b THEN new ELSE @,
                              !.prev = IF c = B[b].next THEN new ELSE @]
      BY <1>8
    <2> QED
      BY <2>1, <2>2 DEF Headers
  <1>11. C \in [D \cup {new} -> Headers(D \cup {new})]
    BY <1>7, <1>9, <1>10
  <1>12. C[b].size = size /\ C[b].next = new
    BY <1>4, <1>10
  <1>13. ASSUME NEW c \in D
         PROVE  /\ C[c].free = B[c].free
                /\ c # b => C[c].size = B[c].size /\ C[c].next = B[c].next
                /\ c = B[b].next => C[c].prev = new
                /\ c # B[b].next => C[c].prev = B[c].prev
    BY <1>4, <1>10
  <1>14. SplitInto(B, b, size, new, C)
    BY <1>2, <1>3, <1>9, <1>11, <1>12, <1>13 DEF SplitInto, rest
  <1> QED
    BY <1>14 DEF new, C

\* The list stays well formed.
LEMMA SplitWF ==
  ASSUME NEW B, WellFormed(B), NEW b \in DOMAIN B, NEW size \in Nat,
         B[b].size >= size + HDR + ALIGN,
         NEW C, SplitInto(B, b, size, b + HDR + size, C)
  PROVE  WellFormed(C)
  <1> DEFINE new == b + HDR + size
             D == DOMAIN B
             next == B[b].next
  <1>1. IsList(B) /\ Linked(B) /\ Disjoint(B)
    BY DEF WellFormed
  <1>2. /\ D \subseteq Nat /\ NULL \notin D /\ HeapStart \in D /\ HeapStart # NULL
        /\ \A c \in D : /\ HeapStart <= c /\ c < End(B, c)
                        /\ End(B, c) \in Nat /\ B[c].size \in Nat
                        /\ B[c].next \in D \cup {NULL} /\ B[c].prev \in D \cup {NULL}
    BY <1>1, ListFacts DEF Linked
  <1>3. \A c \in D : End(B, c) <= HeapEnd
    BY <1>1 DEF Linked
  <1>4. /\ new \in Nat /\ b < new /\ new \notin D /\ DOMAIN C = D \cup {new}
        /\ C[new].size = B[b].size - size - HDR /\ C[new].next = next /\ C[new].prev = b
        /\ C[b].size = size /\ C[b].next = new
        /\ \A c \in D : /\ c # b => C[c].size = B[c].size /\ C[c].next = B[c].next
                        /\ c = next => C[c].prev = new
                        /\ c # next => C[c].prev = B[c].prev
    BY DEF SplitInto
  <1>5. /\ End(C, b) = new
        /\ End(C, new) = End(B, b)
        /\ new < End(B, b)
        /\ \A c \in D : c # b => End(C, c) = End(B, c)
    <2>1. End(C, b) = new
      BY <1>4 DEF End
    <2>2. End(C, new) = End(B, b)
      BY <1>2, <1>4, HeapFacts DEF End
    <2>3. new < End(B, b)
      BY <1>2, <1>4, HeapFacts DEF End
    <2>4. \A c \in D : c # b => End(C, c) = End(B, c)
      BY <1>4 DEF End
    <2> QED
      BY <2>1, <2>2, <2>3, <2>4
  <1>6. IsList(C)
    <2>1. D \subseteq HeapStart .. HeapEnd
      BY <1>1 DEF IsList
    <2>2. HeapStart <= new /\ new <= HeapEnd
      BY <1>2, <1>3, <1>4, <1>5, HeapFacts
    <2>3. D \cup {new} \subseteq HeapStart .. HeapEnd
      BY <2>1, <2>2, <1>4, HeapFacts
    <2>4. C \in [D \cup {new} -> Headers(D \cup {new})]
      BY DEF SplitInto
    <2> QED
      BY <2>3, <2>4, <1>4 DEF IsList
  <1>7. \A c \in D : /\ B[c].prev = NULL <=> c = HeapStart
                     /\ B[c].prev # NULL => B[B[c].prev].next = c
                     /\ B[c].next = NULL => End(B, c) = HeapEnd
                     /\ B[c].next # NULL => /\ B[c].next = End(B, c)
                                            /\ B[B[c].next].prev = c
    BY <1>1 DEF Linked
  <1>8. \A c, d \in D : c < d => End(B, c) <= d
    BY <1>1 DEF Disjoint
  <1> HIDE DEF new, next, D
  <1> USE <1>2, <1>4, <1>7
  <1>9. Linked(C)
    <2>1. ASSUME NEW c \in D \cup {new}
          PROVE  End(C, c) <= HeapEnd /\ (C[c].next = NULL => End(C, c) = HeapEnd)
      <3>1. End(C, c) <= HeapEnd
        BY <1>3, <1>5, HeapFacts DEF D
      <3>2. C[c].next = NULL => End(C, c) = HeapEnd
        BY <1>5 DEF D, next, NULL
      <3> QED
        BY <3>1, <3>2
    <2>2. ASSUME NEW c \in D \cup {new}
          PROVE  C[c].prev = NULL <=> c = HeapStart
      BY DEF D, next, NULL
    <2>3. ASSUME NEW c \in D \cup {new}, C[c].prev # NULL
          PROVE  C[C[c].prev].next = c
      <3>1. CASE c = new
        BY <3>1
      <3>2. CASE c \in D /\ c = next
        BY <3>2
      <3>3. CASE c \in D /\ c # next
        <4>1. C[c].prev = B[c].prev /\ B[c].prev \in D /\ B[B[c].prev].next = c
          BY <3>3, <2>3
        <4>2. B[c].prev # b
          BY <4>1, <3>3 DEF next
        <4>3. C[B[c].prev].next = B[B[c].prev].next
          BY ONLY <4>1, <4>2, <1>4
        <4> QED
          BY ONLY <4>1, <4>3
      <3> QED
        BY <3>1, <3>2, <3>3
    <2>4. ASSUME NEW c \in D \cup {new}, C[c].next # NULL
          PROVE  C[c].next = End(C, c) /\ C[C[c].next].prev = c
      <3>1. CASE c = new
        BY <3>1, <2>4, <1>5 DEF next, D
      <3>2. CASE c = b
        BY <3>2, <1>5 DEF D
      <3>3. CASE c \in D /\ c # b
        <4>1. B[c].next \in D /\ B[c].next = End(B, c) /\ B[B[c].next].prev = c
          BY <3>3, <2>4
        <4>2. B[c].next # next
          BY <4>1, <3>3 DEF next, D
        <4> QED
          BY <4>1, <4>2, <3>3, <1>5
      <3> QED
        BY <3>1, <3>2, <3>3
    <2> QED
      BY <2>1, <2>2, <2>3, <2>4 DEF Linked
  <1>10. Disjoint(C)
    <2> SUFFICES ASSUME NEW c \in D \cup {new}, NEW d \in D \cup {new}, c < d
                 PROVE  End(C, c) <= d
      BY DEF Disjoint
    <2>1. CASE c = new
      BY <2>1, <1>5, <1>8 DEF D
    <2>2. CASE c = b
      BY <2>2, <1>5, <1>8 DEF D
    <2>3. CASE c \in D /\ c # b /\ d \in D
      BY <2>3, <1>5, <1>8
    <2>4. CASE c \in D /\ c # b /\ d = new
      <3>1. c < b
        BY <2>4, <1>5, <1>8 DEF D
      <3> QED
        BY <3>1, <2>4, <1>5, <1>8 DEF D
    <2> QED
      BY <2>1, <2>2, <2>3, <2>4
  <1> QED
    BY <1>6, <1>9, <1>10 DEF WellFormed

-----------------------------------------------------------------------------
(***************************************************************************)
(* MergeBlocks.                                                            *)
(***************************************************************************)
\* C is B with the successor of block up appended to it.
MergedInto(B, up, C) ==
  LET down == B[up].next
      D    == DOMAIN B \ {B[up].next}
  IN  /\ C \in [D -> Headers(D)]
      /\ C[up].size = B[up].size + HDR + B[down].size
      /\ C[up].next = B[down].next
      /\ \A c \in D : /\ C[c].free = B[c].free
                      /\ c # up => C[c].size = B[c].size /\ C[c].next = B[c].next
                      /\ c = B[down].next => C[c].prev = up
                      /\ c # B[down].next => C[c].prev = B[c].prev

\* MergeBlocks of a block and its successor writes these fields.
LEMMA MergeFields ==
  ASSUME NEW B, WellFormed(B), NEW up \in DOMAIN B, B[up].next # NULL
  PROVE  MergedInto(B, up, MergeBlocks(B, up, B[up].next))
  <1> DEFINE down == B[up].next
             D == DOMAIN B \ {down}
             C == MergeBlocks(B, up, down)
  <1>1. IsList(B) /\ B \in [DOMAIN B -> Headers(DOMAIN B)] /\ NULL \notin DOMAIN B
    BY ListFacts DEF WellFormed, IsList
  <1>2. \A c \in DOMAIN B : /\ c < End(B, c)
                            /\ B[c].prev # NULL => B[B[c].prev].next = c
                            /\ B[c].next # NULL => /\ B[c].next = End(B, c)
                                                   /\ B[B[c].next].prev = c
    BY <1>1, ListFacts DEF WellFormed, Linked
  <1>3. /\ down \in DOMAIN B /\ down # up /\ B[down].prev = up
        /\ B[down].next # down
    BY <1>1, <1>2, ListFacts DEF Headers
  <1>4. B[up].size + HDR + B[down].size \in Nat
    BY <1>1, <1>3, ListFacts, HeapFacts
  <1>5. C = [c \in D |->
              [B[c] EXCEPT !.size = IF c = up THEN @ + HDR + B[down].size ELSE @,
                           !.next = IF c = up THEN B[down].next ELSE @,
                           !.prev = IF c = B[down].next THEN B[down].prev ELSE @]]
    BY DEF MergeBlocks
  <1>6. \A c \in DOMAIN B : /\ B[c].next \in DOMAIN B \cup {NULL}
                            /\ B[c].prev \in DOMAIN B \cup {NULL}
    BY <1>1, ListFacts
  <1> HIDE DEF C, down, D
  <1>7. ASSUME NEW c \in D
        PROVE  /\ C[c].free = B[c].free
               /\ c = up => C[c].size = B[up].size + HDR + B[down].size
               /\ c # up => C[c].size = B[c].size
               /\ c = up => C[c].next = B[down].next
               /\ c # up => C[c].next = B[c].next
               /\ c = B[down].next => C[c].prev = up
               /\ c # B[down].next => C[c].prev = B[c].prev
               /\ C[c] \in Headers(D)
    <2>1. C[c] = [B[c] EXCEPT !.size = IF c = up THEN @ + HDR + B[down].size ELSE @,
                              !.next = IF c = up THEN B[down].next ELSE @,
                              !.prev = IF c = B[down].next THEN B[down].prev ELSE @]
      BY <1>5
    <2>2. c \in DOMAIN B /\ B[c] \in Headers(DOMAIN B)
      BY <1>1 DEF D
    <2>3. c # up => B[c].next \in D \cup {NULL}
      BY <2>2, <1>2, <1>3, <1>6 DEF D
    <2>4. B[down].next \in D \cup {NULL}
      BY <1>3, <1>6 DEF D
    <2>5. up \in D
      BY <1>3 DEF D
    <2>6. c # B[down].next => B[c].prev \in D \cup {NULL}
      BY <2>2, <1>2, <1>3, <1>6 DEF D
    <2> QED
      BY <2>1, <2>2, <2>3, <2>4, <2>5, <2>6, <1>3, <1>4 DEF Headers
  <1>8. C \in [D -> Headers(D)]
    BY <1>5, <1>7
  <1>9. up \in D
    BY <1>3 DEF D
  <1>10. MergedInto(B, up, C)
    BY <1>7, <1>8, <1>9 DEF MergedInto, D, down
  <1> QED
    BY <1>10 DEF C, down

\* The list stays well formed.
LEMMA MergeWF ==
  ASSUME NEW B, WellFormed(B), NEW up \in DOMAIN B, B[up].next # NULL,
         NEW C, MergedInto(B, up, C)
  PROVE  WellFormed(C) /\ End(C, up) = End(B, B[up].next)
  <1> DEFINE down == B[up].next
             next == B[down].next
             D == DOMAIN B \ {down}
  <1>1. IsList(B) /\ Linked(B) /\ Disjoint(B)
    BY DEF WellFormed
  <1>2. /\ DOMAIN B \subseteq Nat /\ NULL \notin DOMAIN B
        /\ HeapStart \in DOMAIN B /\ HeapStart # NULL
        /\ \A c \in DOMAIN B : /\ HeapStart <= c /\ c < End(B, c)
                               /\ End(B, c) \in Nat /\ B[c].size \in Nat
                               /\ B[c].next \in DOMAIN B \cup {NULL}
                               /\ B[c].prev \in DOMAIN B \cup {NULL}
    BY <1>1, ListFacts DEF Linked
  <1>3. \A c \in DOMAIN B : /\ End(B, c) <= HeapEnd
                            /\ B[c].prev = NULL <=> c = HeapStart
                            /\ B[c].prev # NULL => B[B[c].prev].next = c
                            /\ B[c].next = NULL => End(B, c) = HeapEnd
                            /\ B[c].next # NULL => /\ B[c].next = End(B, c)
                                                   /\ B[B[c].next].prev = c
    BY <1>1 DEF Linked
  <1>4. /\ down \in DOMAIN B /\ down = End(B, up) /\ up < down
        /\ B[down].prev = up /\ down # next
    BY <1>2, <1>3
  <1>5. /\ DOMAIN C = D
        /\ C[up].size = B[up].size + HDR + B[down].size
        /\ C[up].next = next
        /\ \A c \in D : /\ c # up => C[c].size = B[c].size /\ C[c].next = B[c].next
                        /\ c = next => C[c].prev = up
                        /\ c # next => C[c].prev = B[c].prev
    BY DEF MergedInto
  <1>6. /\ End(C, up) = End(B, down)
        /\ \A c \in D : c # up => End(C, c) = End(B, c)
    <2>1. End(C, up) = End(B, down)
      BY <1>2, <1>4, <1>5, HeapFacts DEF End
    <2>2. \A c \in D : c # up => End(C, c) = End(B, c)
      BY <1>5 DEF End
    <2> QED
      BY <2>1, <2>2
  <1>7. IsList(C)
    BY <1>1, <1>5 DEF IsList, MergedInto
  <1>8. \A c, d \in DOMAIN B : c < d => End(B, c) <= d
    BY <1>1 DEF Disjoint
  <1>9. up \in D /\ D \subseteq DOMAIN B /\ \A c \in DOMAIN B : c # down => c \in D
    BY <1>4
  <1>10. next # NULL => next \in D /\ B[next].prev = down
    BY <1>2, <1>3, <1>4
  <1>11. down # HeapStart
    BY <1>2, <1>4
  <1> HIDE DEF D, next, down
  <1> USE <1>2, <1>3, <1>4, <1>5, <1>9
  <1>12. Linked(C)
    <2>1. ASSUME NEW c \in D
          PROVE  End(C, c) <= HeapEnd /\ (C[c].next = NULL => End(C, c) = HeapEnd)
      BY <1>6 DEF next
    <2>2. ASSUME NEW c \in D
          PROVE  C[c].prev = NULL <=> c = HeapStart
      BY <1>10
    <2>3. ASSUME NEW c \in D, C[c].prev # NULL
          PROVE  C[C[c].prev].next = c
      <3>1. CASE c = next
        BY <3>1
      <3>2. CASE c # next
        <4>1. C[c].prev = B[c].prev /\ B[c].prev \in DOMAIN B /\ B[B[c].prev].next = c
          BY <3>2, <2>3
        <4>2. B[c].prev # down
          BY ONLY <4>1, <3>2 DEF next
        <4>3. B[c].prev # up
          BY <4>1 DEF down, D
        <4>4. C[B[c].prev].next = B[B[c].prev].next
          BY ONLY <4>1, <4>2, <4>3, <1>5, <1>9
        <4> QED
          BY ONLY <4>1, <4>4
      <3> QED
        BY <3>1, <3>2
    <2>4. ASSUME NEW c \in D, C[c].next # NULL
          PROVE  C[c].next = End(C, c) /\ C[C[c].next].prev = c
      <3>1. CASE c = up
        <4>1. next # NULL
          BY <3>1, <2>4
        <4> QED
          BY <4>1, <3>1, <1>6, <1>10 DEF next
      <3>2. CASE c # up
        <4>1. B[c].next \in DOMAIN B /\ B[c].next = End(B, c) /\ B[B[c].next].prev = c
          BY <3>2, <2>4
        <4>2. B[c].next # down
          BY <4>1, <3>2
        <4>3. B[c].next # next
          BY <4>1, <1>10, <2>4 DEF D
        <4>4. C[B[c].next].prev = c
          BY ONLY <4>1, <4>2, <4>3, <1>5, <1>9
        <4> QED
          BY <4>1, <4>4, <3>2, <1>6
      <3> QED
        BY <3>1, <3>2
    <2>5. HeapStart \in D
      BY <1>11
    <2> QED
      BY <2>1, <2>2, <2>3, <2>4, <2>5 DEF Linked
  <1>13. Disjoint(C)
    <2> SUFFICES ASSUME NEW c \in D, NEW d \in D, c < d
                 PROVE  End(C, c) <= d
      BY DEF Disjoint
    <2>1. CASE c = up
      <3>1. d # down
        BY DEF D
      <3>2. down < d
        <4>1. c \in DOMAIN B /\ d \in DOMAIN B /\ c = up
          BY <2>1, <1>9
        <4>2. down <= d
          BY <4>1, <1>4, <1>8
        <4>3. d \in Nat /\ down \in Nat
          BY <4>1, <1>2, <1>4
        <4> QED
          BY ONLY <4>2, <4>3, <3>1
      <3> QED
        BY <3>2, <2>1, <1>6, <1>8
    <2>2. CASE c # up
      BY <2>2, <1>6, <1>8
    <2> QED
      BY <2>1, <2>2
  <1>14. WellFormed(C)
    BY <1>7, <1>12, <1>13 DEF WellFormed
  <1> QED
    BY <1>14, <1>6 DEF down

-----------------------------------------------------------------------------
(***************************************************************************)
(* SetFree.                                                                *)
(***************************************************************************)
\* C is B but for the free flag of block b.
MarkedFrom(B, b, C) ==
  /\ C \in [DOMAIN B -> Headers(DOMAIN B)]
  /\ \A c \in DOMAIN B : /\ C[c].size = B[c].size /\ C[c].next = B[c].next
                         /\ C[c].prev = B[c].prev
                         /\ c # b => C[c].free = B[c].free

\* SetFree changes the flag and nothing else.
LEMMA SetFreeTrue ==
  ASSUME NEW B, IsList(B), NEW b \in DOMAIN B
  PROVE  MarkedFrom(B, b, SetFree(B, b, TRUE)) /\ SetFree(B, b, TRUE)[b].free
  BY DEF IsList, MarkedFrom, SetFree, Headers

\* The same for the flag of an allocated block.
LEMMA SetFreeFalse ==
  ASSUME NEW B, IsList(B), NEW b \in DOMAIN B
  PROVE  MarkedFrom(B, b, SetFree(B, b, FALSE)) /\ ~SetFree(B, b, FALSE)[b].free
  BY DEF IsList, MarkedFrom, SetFree, Headers

\* Setting the flag keeps the list well formed.
LEMMA MarkedWF ==
  ASSUME NEW B, WellFormed(B), NEW b \in DOMAIN B, NEW C, MarkedFrom(B, b, C)
  PROVE  /\ WellFormed(C)
         /\ DOMAIN C = DOMAIN B
         /\ \A c \in DOMAIN B : End(C, c) = End(B, c)
  <1>1. IsList(B) /\ Linked(B)
    BY DEF WellFormed
  <1>2. /\ DOMAIN C = DOMAIN B
        /\ \A c \in DOMAIN B : /\ C[c].size = B[c].size /\ C[c].next = B[c].next
                               /\ C[c].prev = B[c].prev
    BY DEF MarkedFrom
  <1>3. \A c \in DOMAIN B : End(C, c) = End(B, c)
    BY <1>2 DEF End
  <1>4. IsList(C)
    BY <1>1, <1>2 DEF IsList, MarkedFrom
  <1>5. \A c \in DOMAIN B : /\ B[c].next \in DOMAIN B \cup {NULL}
                            /\ B[c].prev \in DOMAIN B \cup {NULL}
    BY <1>1, ListFacts
  <1>6. Linked(C)
    <2>1. ASSUME NEW c \in DOMAIN B
          PROVE  /\ End(C, c) <= HeapEnd
                 /\ C[c].prev = NULL <=> c = HeapStart
                 /\ C[c].prev # NULL => C[C[c].prev].next = c
                 /\ C[c].next = NULL => End(C, c) = HeapEnd
                 /\ C[c].next # NULL => C[c].next = End(C, c) /\ C[C[c].next].prev = c
      <3>1. C[c].prev # NULL => C[B[c].prev].next = B[B[c].prev].next
        BY <1>2, <1>5
      <3>2. C[c].next # NULL => C[B[c].next].prev = B[B[c].next].prev
        BY <1>2, <1>5
      <3> QED
        BY <1>1, <3>1, <3>2, <1>2, <1>3 DEF Linked
    <2> QED
      BY <1>1, <2>1, <1>2 DEF Linked
  <1>7. Disjoint(C)
    BY <1>2, <1>3 DEF WellFormed, Disjoint
  <1> QED
    BY <1>2, <1>3, <1>4, <1>6, <1>7 DEF WellFormed

-----------------------------------------------------------------------------
(***************************************************************************)
(* Which blocks are taken, and which are next to one another.              *)
(***************************************************************************)
Taken(B) == {b \in DOMAIN B : ~B[b].free}

\* Two neighbours are free only if the first of them is block b.
SeparatedBut(B, b) ==
  \A c \in DOMAIN B : B[c].free /\ B[c].next # NULL /\ B[B[c].next].free => c = b

\* C is B with some free blocks joined to block b.
Absorbed(B, b, C) ==
  /\ b \in DOMAIN C /\ DOMAIN C \subseteq DOMAIN B
  /\ B[b].size <= C[b].size
  /\ \A c \in DOMAIN C : /\ C[c].free = B[c].free
                         /\ c # b => C[c].size = B[c].size
  /\ \A c \in DOMAIN B \ DOMAIN C : B[c].free /\ B[c].size <= C[b].size

\* Neighbours as the links give them.
LEMMA Neighbours ==
  ASSUME NEW B, WellFormed(B), NEW b \in DOMAIN B
  PROVE  /\ B[b].free \in BOOLEAN /\ B[b].size \in Nat
         /\ B[b].next # NULL => /\ B[b].next \in DOMAIN B /\ b < B[b].next
                                /\ B[b].next = End(B, b)
                                /\ B[B[b].next].prev = b
         /\ B[b].prev # NULL => /\ B[b].prev \in DOMAIN B /\ B[b].prev < b
                                /\ B[B[b].prev].next = b
  <1>1. IsList(B) /\ Linked(B)
    BY DEF WellFormed
  <1>2. \A c \in DOMAIN B : /\ c \in Nat /\ c < End(B, c)
                            /\ B[c].free \in BOOLEAN /\ B[c].size \in Nat
                            /\ B[c].next \in DOMAIN B \cup {NULL}
                            /\ B[c].prev \in DOMAIN B \cup {NULL}
    BY <1>1, ListFacts
  <1>3. \A c \in DOMAIN B : /\ B[c].prev # NULL => B[B[c].prev].next = c
                            /\ B[c].next # NULL => /\ B[c].next = End(B, c)
                                                   /\ B[B[c].next].prev = c
    BY <1>1 DEF Linked
  <1>4. NULL \notin DOMAIN B
    BY <1>1, ListFacts
  <1>5. B[b].prev # NULL => B[b].prev \in DOMAIN B /\ B[b].prev < b
    <2> SUFFICES ASSUME B[b].prev # NULL
                 PROVE  B[b].prev \in DOMAIN B /\ B[b].prev < b
      OBVIOUS
    <2>1. B[b].prev \in DOMAIN B /\ B[B[b].prev].next = b
      BY <1>2, <1>3
    <2>2. B[B[b].prev].next = End(B, B[b].prev)
      BY ONLY <2>1, <1>3, <1>4, b \in DOMAIN B
    <2> QED
      BY <2>1, <2>2, <1>2
  <1> QED
    BY <1>2, <1>3, <1>5

\* Merging a block with its free successor absorbs that successor.
LEMMA MergeAbsorbs ==
  ASSUME NEW B, WellFormed(B), NEW up \in DOMAIN B, B[up].next # NULL,
         B[B[up].next].free,
         NEW C, C = MergeBlocks(B, up, B[up].next)
  PROVE  /\ WellFormed(C)
         /\ Absorbed(B, up, C)
         /\ C[up].next = B[B[up].next].next
         /\ DOMAIN C = DOMAIN B \ {B[up].next}
         /\ \A c \in DOMAIN C : c # up => C[c].next = B[c].next
  <1> DEFINE down == B[up].next
  <1>1. MergedInto(B, up, C)
    BY MergeFields
  <1>2. WellFormed(C)
    BY <1>1, MergeWF
  <1>3. /\ down \in DOMAIN B /\ up < down /\ up \in Nat
        /\ B[up].size \in Nat /\ B[down].size \in Nat
    BY Neighbours, ListFacts DEF WellFormed
  <1>4. /\ DOMAIN C = DOMAIN B \ {down}
        /\ C[up].size = B[up].size + HDR + B[down].size
        /\ C[up].next = B[down].next
        /\ \A c \in DOMAIN C : /\ C[c].free = B[c].free
                               /\ c # up => C[c].size = B[c].size /\ C[c].next = B[c].next
    BY <1>1 DEF MergedInto
  <1>5. up \in DOMAIN C
    BY <1>3, <1>4
  <1>6. B[up].size <= C[up].size /\ B[down].size <= C[up].size
    BY <1>3, <1>4, HeapFacts
  <1>7. Absorbed(B, up, C)
    BY <1>3, <1>4, <1>5, <1>6 DEF Absorbed
  <1> QED
    BY <1>2, <1>4, <1>7

\* Joining a free block with its free successor leaves no free neighbours
\* when there were none elsewhere.
LEMMA MergeNextSeparates ==
  ASSUME NEW B, WellFormed(B), NEW b \in DOMAIN B, B[b].free, SeparatedBut(B, b)
  PROVE  LET C == MergeNext(B, b)
         IN  WellFormed(C) /\ Separated(C) /\ Absorbed(B, b, C)
  <1>1. CASE B[b].next # NULL /\ B[B[b].next].free
    <2> DEFINE C == MergeBlocks(B, b, B[b].next)
               down == B[b].next
    <2>1. /\ WellFormed(C) /\ Absorbed(B, b, C)
          /\ C[b].next = B[down].next
          /\ DOMAIN C = DOMAIN B \ {down}
          /\ \A c \in DOMAIN C : c # b => C[c].next = B[c].next
      <3>1. C = MergeBlocks(B, b, B[b].next)
        OBVIOUS
      <3> HIDE DEF C
      <3> QED
        BY <1>1, <3>1, MergeAbsorbs
    <2>2. MergeNext(B, b) = C
      BY <1>1 DEF MergeNext
    <2>3. down \in DOMAIN B /\ B[down].prev = b
      BY <1>1, Neighbours
    <2>4. \A c \in DOMAIN C : c \in DOMAIN B /\ C[c].free = B[c].free
      BY <2>1 DEF Absorbed
    <2> HIDE DEF C
    <2>5. Separated(C)
      <3> SUFFICES ASSUME NEW c \in DOMAIN C, C[c].free, C[c].next # NULL,
                          C[C[c].next].free
                   PROVE  FALSE
        BY DEF Separated
      <3>1. C[c].next \in DOMAIN C
        BY <2>1, Neighbours
      <3>2. CASE c = b
        <4>1. B[down].free /\ B[down].next # NULL /\ B[B[down].next].free
          BY <3>1, <3>2, <2>1, <2>4, <1>1
        <4>2. down = b
          BY ONLY <4>1, <2>3, SeparatedBut(B, b) DEF SeparatedBut
        <4> QED
          BY <4>2, <1>1, Neighbours, ListFacts DEF WellFormed
      <3>3. CASE c # b
        <4>1. c \in DOMAIN B /\ B[c].free /\ B[c].next # NULL /\ B[B[c].next].free
          BY <3>1, <3>3, <2>1, <2>4
        <4> QED
          BY ONLY <4>1, <3>3, SeparatedBut(B, b) DEF SeparatedBut
      <3> QED
        BY <3>2, <3>3
    <2> QED
      BY <2>1, <2>2, <2>5
  <1>2. CASE ~(B[b].next # NULL /\ B[B[b].next].free)
    <2>1. MergeNext(B, b) = B
      BY <1>2 DEF MergeNext
    <2>2. Separated(B)
      BY <1>2 DEF Separated, SeparatedBut
    <2>3. Absorbed(B, b, B)
      BY Neighbours DEF Absorbed
    <2> QED
      BY <2>1, <2>2, <2>3
  <1> QED
    BY <1>1, <1>2

\* Absorption is reflexive and transitive.
LEMMA AbsorbedSelf ==
  ASSUME NEW B, WellFormed(B), NEW b \in DOMAIN B
  PROVE  Absorbed(B, b, B)
  BY Neighbours DEF Absorbed

\* The second merge of free absorbs on top of the first.
LEMMA AbsorbedTwice ==
  ASSUME NEW B, WellFormed(B), NEW C, WellFormed(C), NEW E, WellFormed(E), NEW b,
         Absorbed(B, b, C), Absorbed(C, b, E)
  PROVE  Absorbed(B, b, E)
  <1>1. /\ b \in DOMAIN E /\ DOMAIN E \subseteq DOMAIN C /\ DOMAIN C \subseteq DOMAIN B
    BY DEF Absorbed
  <1>2. B[b].size \in Nat /\ C[b].size \in Nat /\ E[b].size \in Nat
    BY <1>1, Neighbours
  <1>3. \A c \in DOMAIN B : B[c].size \in Nat
    BY Neighbours
  <1>4. B[b].size <= E[b].size
    BY <1>2 DEF Absorbed
  <1>5. \A c \in DOMAIN E : E[c].free = B[c].free /\ (c # b => E[c].size = B[c].size)
    BY <1>1 DEF Absorbed
  <1>6. ASSUME NEW c \in DOMAIN B \ DOMAIN E
        PROVE  B[c].free /\ B[c].size <= E[b].size
    <2>1. CASE c \in DOMAIN C
      BY <2>1, <1>1 DEF Absorbed
    <2>2. CASE c \notin DOMAIN C
      BY <2>2, <1>2, <1>3 DEF Absorbed
    <2> QED
      BY <2>1, <2>2
  <1> QED
    BY <1>1, <1>4, <1>5, <1>6 DEF Absorbed

\* The list free leaves behind: the block is free and merged with its free
\* neighbours on both sides.
FreedList(B, b) ==
  LET marked == SetFree(B, b, TRUE)
  IN  MergeNext(MergePrev(marked, b), Holder(marked, b))

\* free gives back the block, keeps the list well formed and leaves no two
\* free neighbours.
LEMMA FreeList ==
  ASSUME NEW B, WellFormed(B), Separated(B), NEW b \in Taken(B),
         NEW C, C = FreedList(B, b),
         NEW block, block = Holder(SetFree(B, b, TRUE), b),
         NEW marked, marked = SetFree(B, b, TRUE)
  PROVE  /\ WellFormed(C) /\ Separated(C)
         /\ block \in DOMAIN C
         /\ Absorbed(marked, block, C)
  <1>1. b \in DOMAIN B /\ ~B[b].free
    BY DEF Taken
  <1>2. /\ WellFormed(marked)
        /\ DOMAIN marked = DOMAIN B
        /\ marked[b].free
        /\ \A c \in DOMAIN B : /\ marked[c].size = B[c].size /\ marked[c].next = B[c].next
                               /\ marked[c].prev = B[c].prev
                               /\ c # b => marked[c].free = B[c].free
    <2>1. MarkedFrom(B, b, marked) /\ marked[b].free
      BY <1>1, SetFreeTrue DEF WellFormed
    <2>2. WellFormed(marked) /\ DOMAIN marked = DOMAIN B
      BY <1>1, <2>1, MarkedWF
    <2> QED
      BY <2>1, <2>2 DEF MarkedFrom
  <1>a. NULL \notin DOMAIN B /\ DOMAIN B \subseteq Nat
    BY ListFacts DEF WellFormed
  <1>b. \A c \in DOMAIN B : marked[c].size \in Nat
    BY <1>2, Neighbours
  <1>3. \A c \in DOMAIN B : marked[c].free /\ B[c].next # NULL /\ marked[B[c].next].free
                              => c = b \/ B[c].next = b
    <2> SUFFICES ASSUME NEW c \in DOMAIN B, marked[c].free, B[c].next # NULL,
                        marked[B[c].next].free, c # b, B[c].next # b
                 PROVE  FALSE
      OBVIOUS
    <2>1. B[c].free /\ B[B[c].next].free
      BY <1>2, Neighbours
    <2> QED
      BY <2>1 DEF Separated
  <1> DEFINE prev == marked[b].prev
             M == MergePrev(marked, b)
  <1>4. C = MergeNext(M, block)
    BY DEF FreedList
  <1>5. /\ block \in DOMAIN M /\ WellFormed(M) /\ M[block].free
        /\ SeparatedBut(M, block) /\ Absorbed(marked, block, M)
    <2>1. CASE prev # NULL /\ marked[prev].free
      <3>1. block = prev
        BY <2>1 DEF Holder
      <3>2. /\ prev \in DOMAIN marked /\ marked[prev].next = b /\ prev # b
        <4>1. prev \in DOMAIN marked /\ prev < b /\ marked[prev].next = b
          BY <1>1, <1>2, <2>1, Neighbours
        <4>2. prev \in Nat /\ b \in Nat
          <5>1. DOMAIN marked = DOMAIN B
            BY <1>2
          <5> HIDE DEF prev
          <5> QED
            BY ONLY <4>1, <1>1, <5>1, <1>a
        <4> HIDE DEF prev
        <4>3. ~(b < b)
          BY <4>2
        <4>4. prev # b
          BY <4>1, <4>3
        <4> QED
          BY <4>1, <4>4
      <3>3. M = MergeBlocks(marked, prev, marked[prev].next)
        BY <2>1, <3>2 DEF MergePrev
      <3>4. marked[marked[prev].next].free /\ marked[prev].next # NULL
        BY <3>2, <1>1, <1>2, <1>a
      <3> HIDE DEF M, prev
      <3>5. /\ WellFormed(M) /\ Absorbed(marked, prev, M)
            /\ M[prev].next = marked[b].next
            /\ DOMAIN M = DOMAIN marked \ {b}
            /\ \A c \in DOMAIN M : c # prev => M[c].next = marked[c].next
        <4>1. /\ WellFormed(M) /\ Absorbed(marked, prev, M)
              /\ M[prev].next = marked[marked[prev].next].next
              /\ DOMAIN M = DOMAIN marked \ {marked[prev].next}
              /\ \A c \in DOMAIN M : c # prev => M[c].next = marked[c].next
          <5>1. WellFormed(marked) /\ prev \in DOMAIN marked
            BY <1>2, <3>2
          <5> QED
            BY ONLY <5>1, <3>3, <3>4, MergeAbsorbs
        <4> QED
          BY <4>1, <3>2
      <3>6. \A c \in DOMAIN M : c \in DOMAIN B /\ c # b /\ M[c].free = marked[c].free
        BY <1>2, <3>5 DEF Absorbed
      <3>7. SeparatedBut(M, prev)
        <4> SUFFICES ASSUME NEW c \in DOMAIN M, c # prev, M[c].free, M[c].next # NULL,
                            M[M[c].next].free
                     PROVE  FALSE
          BY DEF SeparatedBut
        <4>1. M[c].next \in DOMAIN M /\ M[c].next = marked[c].next
          BY <3>5, Neighbours
        <4>2. B[c].next = M[c].next
          BY <4>1, <3>6, <1>2
        <4>3. marked[c].free /\ marked[B[c].next].free
          BY <4>1, <4>2, <3>6
        <4> QED
          BY <4>1, <4>2, <4>3, <3>6, <1>3
      <3> QED
        <4>1. prev \in DOMAIN M /\ M[prev].free
          BY <2>1, <3>5, <3>6 DEF Absorbed, prev
        <4> QED
          BY <4>1, <3>1, <3>5, <3>7
    <2>2. CASE ~(prev # NULL /\ marked[prev].free)
      <3>1. block = b /\ M = marked
        BY <2>2 DEF Holder, MergePrev
      <3>2. SeparatedBut(marked, b)
        <4> SUFFICES ASSUME NEW c \in DOMAIN B, c # b, marked[c].free, B[c].next # NULL,
                            marked[B[c].next].free
                     PROVE  FALSE
          BY <1>2 DEF SeparatedBut
        <4>1. B[c].next = b
          BY <1>3
        <4>2. B[b].prev = c
          BY <4>1, Neighbours
        <4>3. prev = c /\ c # NULL
          BY <4>2, <1>1, <1>2, <1>a
        <4> QED
          BY <4>3, <2>2
      <3>3. Absorbed(marked, b, marked)
        BY <1>1, <1>2, AbsorbedSelf
      <3> HIDE DEF M
      <3> QED
        BY <3>1, <3>2, <3>3, <1>1, <1>2
    <2> QED
      BY <2>1, <2>2
  <1> HIDE DEF M
  <1>6. WellFormed(C) /\ Separated(C) /\ Absorbed(M, block, C)
    BY <1>4, <1>5, MergeNextSeparates
  <1>7. Absorbed(marked, block, C)
    BY <1>2, <1>5, <1>6, AbsorbedTwice
  <1> QED
    BY <1>6, <1>7 DEF Absorbed

\* What SplitBlock leaves: block b with size bytes, a free block behind it.
LEMMA SplitList ==
  ASSUME NEW B, WellFormed(B), NEW b \in DOMAIN B, NEW size \in Nat,
         B[b].size >= size + HDR + ALIGN,
         NEW C, C = SplitBlock(B, b, size),
         NEW new, new = b + HDR + size
  PROVE  /\ WellFormed(C) /\ new \notin DOMAIN B
         /\ DOMAIN C = DOMAIN B \cup {new}
         /\ C[new].free /\ C[new].next = B[b].next
         /\ C[b].size = size /\ C[b].next = new
         /\ \A c \in DOMAIN B : /\ C[c].free = B[c].free
                                /\ c # b => C[c].size = B[c].size /\ C[c].next = B[c].next
  <1>1. SplitInto(B, b, size, b + HDR + size, C)
    BY SplitFields
  <1>2. WellFormed(C)
    BY <1>1, SplitWF
  <1>3. SplitInto(B, b, size, new, C)
    BY <1>1
  <1> QED
    BY <1>2, <1>3 DEF SplitInto

\* malloc takes exactly the block it picked and moves no other.
LEMMA TakeList ==
  ASSUME NEW B, WellFormed(B), Separated(B), NEW b \in DOMAIN B, B[b].free,
         NEW count \in Nat, count <= B[b].size,
         NEW C, C = TakeBlock(B, b, count)
  PROVE  /\ WellFormed(C) /\ Separated(C)
         /\ DOMAIN B \subseteq DOMAIN C
         /\ DOMAIN C \subseteq DOMAIN B \cup {b + HDR + count}
         /\ Taken(C) = Taken(B) \cup {b}
         /\ count <= C[b].size
         /\ \A c \in Taken(B) : C[c].size = B[c].size
  <1> DEFINE marked == SetFree(B, b, FALSE)
             new == b + HDR + count
  <1>1. MarkedFrom(B, b, marked) /\ ~marked[b].free
    BY SetFreeFalse DEF WellFormed
  <1>2. WellFormed(marked) /\ DOMAIN marked = DOMAIN B
    BY <1>1, MarkedWF
  <1>3. C = SplitBlock(marked, b, count)
    BY DEF TakeBlock
  <1> HIDE DEF marked
  <1>4. \A c \in DOMAIN B : /\ marked[c].size = B[c].size /\ marked[c].next = B[c].next
                            /\ c # b => marked[c].free = B[c].free
    BY <1>1 DEF MarkedFrom
  <1>5. \A c \in DOMAIN B : B[c].free \in BOOLEAN /\ B[c].size \in Nat
    BY Neighbours
  <1>6. ASSUME NEW c \in DOMAIN B, marked[c].free, B[c].next # NULL, marked[B[c].next].free
        PROVE  FALSE
    <2>1. c # b /\ B[c].next # b /\ B[c].next \in DOMAIN B
      BY <1>1, <1>6, Neighbours
    <2>2. B[c].free /\ B[B[c].next].free
      BY <2>1, <1>4, <1>6
    <2> QED
      BY <2>2, <1>6 DEF Separated
  <1>7. CASE marked[b].size - count < HDR + ALIGN
    <2>1. C = marked
      BY <1>3, <1>7 DEF SplitBlock
    <2>2. Separated(C)
      BY <2>1, <1>2, <1>4, <1>6 DEF Separated
    <2>3. Taken(C) = Taken(B) \cup {b}
      BY <2>1, <1>1, <1>2, <1>4, <1>5 DEF Taken
    <2> QED
      BY <2>1, <2>2, <2>3, <1>2, <1>4 DEF Taken
  <1>8. CASE ~(marked[b].size - count < HDR + ALIGN)
    <2>1. marked[b].size >= count + HDR + ALIGN
      BY <1>4, <1>5, <1>8, HeapFacts
    <2>2. /\ WellFormed(C) /\ new \notin DOMAIN marked
          /\ DOMAIN C = DOMAIN marked \cup {new}
          /\ C[new].free /\ C[new].next = marked[b].next
          /\ C[b].size = count /\ C[b].next = new
          /\ \A c \in DOMAIN marked :
               /\ C[c].free = marked[c].free
               /\ c # b => C[c].size = marked[c].size /\ C[c].next = marked[c].next
      <3>1. WellFormed(marked) /\ b \in DOMAIN marked
        BY <1>2
      <3>2. SplitInto(marked, b, count, new, C)
        BY <3>1, <1>3, <2>1, SplitFields
      <3>3. WellFormed(C)
        BY <3>1, <3>2, <2>1, SplitWF
      <3> HIDE DEF new
      <3>4. DOMAIN C = DOMAIN marked \cup {new}
        BY <3>2 DEF SplitInto
      <3> QED
        BY <3>2, <3>3, <3>4 DEF SplitInto
    <2> HIDE DEF new
    <2>3. Separated(C)
      <3> SUFFICES ASSUME NEW c \in DOMAIN C, C[c].free, C[c].next # NULL, C[C[c].next].free
                   PROVE  FALSE
        BY DEF Separated
      <3>1. CASE c = new
        <4>1. B[b].next \in DOMAIN B /\ B[b].next # b
          BY <3>1, <2>2, <1>4, Neighbours, ListFacts DEF WellFormed
        <4>2. B[B[b].next].free
          BY <4>1, <3>1, <2>2, <1>2, <1>4
        <4> QED
          BY <4>1, <4>2, <3>1, <2>2, <1>4 DEF Separated
      <3>2. CASE c # new
        <4>1. c \in DOMAIN B /\ c # b /\ marked[c].free /\ C[c].next = B[c].next
          BY <3>2, <2>2, <1>1, <1>2, <1>4
        <4>2. B[c].next \in DOMAIN B
          BY <4>1, Neighbours
        <4>3. marked[B[c].next].free
          BY <4>1, <4>2, <2>2, <1>2
        <4> QED
          BY <4>1, <4>3, <1>6
      <3> QED
        BY <3>1, <3>2
    <2>4. Taken(C) = Taken(B) \cup {b}
      <3>1. \A c \in DOMAIN B : ~C[c].free <=> ~B[c].free \/ c = b
        BY <2>2, <1>1, <1>2, <1>4, <1>5
      <3> QED
        BY <3>1, <2>2, <1>2 DEF Taken
    <2>5. \A c \in Taken(B) : C[c].size = B[c].size
      BY <2>2, <1>2, <1>4 DEF Taken
    <2> QED
      BY <2>2, <2>3, <2>4, <2>5, <1>2 DEF new
  <1> QED
    BY <1>7, <1>8

\* realloc to a smaller size keeps the block, and the rest it cuts off joins
\* a free successor.
LEMMA ShrinkList ==
  ASSUME NEW B, WellFormed(B), Separated(B), NEW b \in Taken(B),
         NEW size \in Nat, B[b].size >= size + HDR + ALIGN,
         NEW C, C = MergeNext(SplitBlock(B, b, size), b + HDR + size)
  PROVE  /\ WellFormed(C) /\ Separated(C)
         /\ DOMAIN C \subseteq DOMAIN B \cup {b + HDR + size}
         /\ Taken(C) = Taken(B)
         /\ C[b].size = size
         /\ \A c \in Taken(B) : c # b => C[c].size = B[c].size
  <1> DEFINE M == SplitBlock(B, b, size)
             new == b + HDR + size
  <1>1. b \in DOMAIN B /\ ~B[b].free
    BY DEF Taken
  <1>2. /\ WellFormed(M) /\ new \notin DOMAIN B
        /\ DOMAIN M = DOMAIN B \cup {new}
        /\ M[new].free /\ M[new].next = B[b].next
        /\ M[b].size = size /\ M[b].next = new
        /\ \A c \in DOMAIN B : /\ M[c].free = B[c].free
                               /\ c # b => M[c].size = B[c].size /\ M[c].next = B[c].next
    <2>1. M = SplitBlock(B, b, size) /\ new = b + HDR + size
      OBVIOUS
    <2> HIDE DEF M, new
    <2> QED
      BY <2>1, <1>1, SplitList
  <1>3. C = MergeNext(M, new)
    OBVIOUS
  <1> HIDE DEF M, new
  <1>4. SeparatedBut(M, new)
    <2> SUFFICES ASSUME NEW c \in DOMAIN M, c # new, M[c].free, M[c].next # NULL,
                        M[M[c].next].free
                 PROVE  FALSE
      BY DEF SeparatedBut
    <2>1. c \in DOMAIN B /\ c # b /\ B[c].free /\ M[c].next = B[c].next
      BY <1>1, <1>2
    <2>2. B[c].next \in DOMAIN B
      BY <2>1, Neighbours
    <2>3. B[B[c].next].free
      BY <2>1, <2>2, <1>2
    <2> QED
      BY <2>1, <2>3 DEF Separated
  <1>5. WellFormed(C) /\ Separated(C) /\ Absorbed(M, new, C)
    BY <1>2, <1>3, <1>4, MergeNextSeparates
  <1>6. /\ DOMAIN C \subseteq DOMAIN M
        /\ \A c \in DOMAIN C : C[c].free = M[c].free /\ (c # new => C[c].size = M[c].size)
        /\ \A c \in DOMAIN M \ DOMAIN C : M[c].free
    BY <1>5 DEF Absorbed
  <1>7. Taken(C) = Taken(B)
    BY <1>2, <1>6 DEF Taken
  <1>8. \A c \in Taken(B) : c \in DOMAIN C /\ c # new /\ c \in DOMAIN B
    BY <1>2, <1>7 DEF Taken
  <1> QED
    BY <1>2, <1>5, <1>6, <1>7, <1>8 DEF new

-----------------------------------------------------------------------------
(***************************************************************************)
(* Heap values.                                                            *)
(***************************************************************************)
SoundHeap(h) ==
  /\ h = [blocks |-> h.blocks, max_alloc |-> h.max_alloc]
  /\ h.max_alloc \in Nat
  /\ WellFormed(h.blocks)
  /\ Separated(h.blocks)
  /\ IsLargest(h.blocks, h.max_alloc)

\* _find_max_block finds the largest size of a well-formed list.
LEMMA FindMaxLemma ==
  ASSUME NEW B, WellFormed(B)
  PROVE  FindMaxBlock(B) \in Nat /\ IsLargest(B, FindMaxBlock(B))
  <1> DEFINE S == {B[b].size : b \in DOMAIN B}
  <1>1. \A b \in DOMAIN B : B[b].size \in 0 .. HeapEnd
    <2> SUFFICES ASSUME NEW b \in DOMAIN B PROVE B[b].size \in 0 .. HeapEnd
      OBVIOUS
    <2>1. B[b].size \in Nat /\ b \in Nat /\ End(B, b) <= HeapEnd
      BY Neighbours, ListFacts DEF WellFormed, Linked
    <2> QED
      BY <2>1, HeapFacts DEF End
  <1>2. S \subseteq 0 .. HeapEnd
    BY <1>1
  <1>3. S # {}
    BY DEF WellFormed, Linked
  <1>5. FindMaxBlock(B) = Max(S)
    BY Zenon DEF FindMaxBlock
  <1> HIDE DEF S
  <1>4. Max(S) \in S /\ \A x \in S : x <= Max(S)
    BY <1>2, <1>3, GreatestExists, HeapFacts
  <1>6. Max(S) \in Nat
    <2>1. Max(S) \in 0 .. HeapEnd
      BY <1>2, <1>4
    <2> QED
      BY <2>1, HeapFacts
  <1>7. \A b \in DOMAIN B : B[b].size \in S
    BY DEF S
  <1>8. PICK b \in DOMAIN B : Max(S) = B[b].size
    BY <1>4 DEF S
  <1> QED
    BY <1>4, <1>5, <1>6, <1>7, <1>8 DEF IsLargest

\* The heap mem_init makes is sound and has no taken block.
LEMMA MemInitLemma ==
  SoundHeap(MemInit) /\ Taken(MemInit.blocks) = {}
  <1> DEFINE size == HeapSize - (HeapStart - HeapAddr) - HDR
             B == [b \in {HeapStart} |-> Header(TRUE, size, NULL, NULL)]
  <1>1. size \in Nat /\ HeapStart + HDR + size = HeapEnd
    BY HeapAssumption, HeapFacts DEF HeapEnd
  <1>2. MemInit = [blocks |-> B, max_alloc |-> size]
    BY DEF MemInit
  <1> HIDE DEF size
  <1>3. DOMAIN B = {HeapStart} /\ B[HeapStart] = Header(TRUE, size, NULL, NULL)
    OBVIOUS
  <1>4. /\ B[HeapStart].free /\ B[HeapStart].size = size
        /\ B[HeapStart].next = NULL /\ B[HeapStart].prev = NULL
    BY <1>3 DEF Header
  <1>5. B \in [{HeapStart} -> Headers({HeapStart})]
    BY <1>1 DEF Header, Headers
  <1> HIDE DEF B
  <1>6. IsList(B)
    <2>1. {HeapStart} \subseteq HeapStart .. HeapEnd
      BY HeapFacts
    <2> QED
      BY <1>3, <1>5, <2>1 DEF IsList
  <1>7. \A b \in DOMAIN B : b = HeapStart
    BY <1>3
  <1>8. HeapStart \in DOMAIN B
    BY <1>3
  <1>9. End(B, HeapStart) = HeapEnd
    BY <1>1, <1>4 DEF End
  <1>10. Linked(B)
    <2>1. HeapEnd <= HeapEnd
      BY HeapFacts
    <2> QED
      BY ONLY <2>1, <1>4, <1>7, <1>8, <1>9 DEF Linked
  <1>11. Disjoint(B)
    <2>1. ~(HeapStart < HeapStart)
      BY HeapFacts
    <2> QED
      BY ONLY <2>1, <1>7 DEF Disjoint
  <1>12. Separated(B) /\ Taken(B) = {}
    BY ONLY <1>4, <1>7 DEF Separated, Taken
  <1>13. IsLargest(B, size)
    <2>1. size <= size
      BY <1>1
    <2> QED
      BY ONLY <2>1, <1>4, <1>7, <1>8 DEF IsLargest
  <1> QED
    BY <1>1, <1>2, <1>6, <1>10, <1>11, <1>12, <1>13 DEF SoundHeap, WellFormed

\* A multiple of the granule.
Multiple(v) == \E k \in Nat : v = k * ALIGN

AlignedList(B) == \A b \in DOMAIN B : Multiple(b)

\* Headers, granules and the start of the heap are aligned, and stay so when
\* sizes rounded by _align16 are added.
LEMMA AlignedFacts ==
  /\ Multiple(HDR) /\ Multiple(HeapStart)
  /\ \A v \in Nat : Multiple(Align16(v))
  /\ \A v, w : Multiple(v) /\ Multiple(w) => Multiple(v + w)
  <1>1. Multiple(HDR)
    <2>1. PICK k \in 1 .. HDR : HDR = k * ALIGN
      BY HeapAssumption
    <2> QED
      BY <2>1, HeapAssumption DEF Multiple
  <1>2. \A v \in Nat : Multiple(Align16(v))
    BY AlignFacts DEF Multiple
  <1>3. Multiple(HeapStart)
    BY <1>2, HeapAssumption DEF HeapStart
  <1>4. ASSUME NEW v, NEW w, Multiple(v), Multiple(w) PROVE Multiple(v + w)
    <2>1. PICK i \in Nat : v = i * ALIGN
      BY <1>4 DEF Multiple
    <2>2. PICK j \in Nat : w = j * ALIGN
      BY <1>4 DEF Multiple
    <2>3. v + w = (i + j) * ALIGN /\ i + j \in Nat
      BY <2>1, <2>2, HeapAssumption
    <2> QED
      BY <2>3 DEF Multiple
  <1> QED
    BY <1>1, <1>2, <1>3, <1>4

\* Heap g is heap h after block b was taken for n bytes.
Took(h, b, n, g) ==
  /\ b \in DOMAIN h.blocks /\ h.blocks[b].free
  /\ SoundHeap(g)
  /\ Taken(g.blocks) = Taken(h.blocks) \cup {b}
  /\ n <= g.blocks[b].size
  /\ Align16(n) <= g.blocks[b].size
  /\ DOMAIN g.blocks \subseteq DOMAIN h.blocks \cup {b + HDR + Align16(n)}
  /\ \A c \in Taken(h.blocks) : g.blocks[c].size = h.blocks[c].size

\* Heap g is heap h after block b was given back.
GaveBack(h, b, g) ==
  /\ SoundHeap(g)
  /\ DOMAIN g.blocks \subseteq DOMAIN h.blocks
  /\ Taken(g.blocks) = Taken(h.blocks) \ {b}
  /\ \A c \in Taken(g.blocks) : g.blocks[c].size = h.blocks[c].size

\* Heap g is heap h after block b was replaced by block d, which may be b.
Replaced(h, b, d, n, g) ==
  /\ SoundHeap(g)
  /\ \/ d = b
     \/ /\ d \notin Taken(h.blocks)
        /\ h.blocks[b].size < Align16(n)
        /\ Took(h, d, Align16(n), Malloc(h, Align16(n)).heap)
  /\ Taken(g.blocks) = (Taken(h.blocks) \ {b}) \cup {d}
  /\ n <= g.blocks[d].size
  /\ \A c \in Taken(h.blocks) : c # b => g.blocks[c].size = h.blocks[c].size
  /\ AlignedList(h.blocks) => AlignedList(g.blocks)

\* Taking a block keeps the list aligned.
LEMMA TookAligned ==
  ASSUME NEW h, NEW b, NEW n \in Nat, NEW g, Took(h, b, n, g), AlignedList(h.blocks)
  PROVE  AlignedList(g.blocks)
  <1>1. Multiple(b + HDR + Align16(n))
    BY AlignedFacts DEF Took, AlignedList
  <1> QED
    BY <1>1 DEF Took, AlignedList

\* malloc returns NULL and changes nothing, or takes one free block.
LEMMA MallocLemma ==
  ASSUME NEW h, SoundHeap(h), NEW n \in Nat, NEW r, r = Malloc(h, n)
  PROVE  \/ r.ptr = NULL /\ r.heap = h
         \/ \E b \in DOMAIN h.blocks :
              r.ptr = b + HDR /\ r.ptr # NULL /\ Took(h, b, n, r.heap)
  <1> DEFINE count == Align16(n)
             fits == Fits(h.blocks, count)
             B == TakeBlock(h.blocks, Min(fits), count)
  <1>1. count \in Nat /\ n <= count
    BY AlignFacts
  <1>2. WellFormed(h.blocks) /\ Separated(h.blocks)
    BY DEF SoundHeap
  <1>3. CASE count > h.max_alloc \/ fits = {}
    <2>1. r = Refused(h)
      BY <1>3 DEF Malloc
    <2> QED
      BY <2>1 DEF Refused
  <1>4. CASE ~(count > h.max_alloc \/ fits = {})
    <2>1. r = [ptr  |-> Min(fits) + HDR,
               heap |-> [blocks |-> B, max_alloc |-> FindMaxBlock(B)]]
      BY <1>4 DEF Malloc
    <2>2. fits # {} /\ fits \subseteq DOMAIN h.blocks /\ DOMAIN h.blocks \subseteq Nat
      BY <1>2, <1>4, ListFacts DEF Fits, WellFormed
    <2>3. Min(fits) \in fits
      BY <2>2, LeastExists
    <2> DEFINE b == Min(fits)
    <2>4. b \in DOMAIN h.blocks /\ h.blocks[b].free /\ count <= h.blocks[b].size
      <3>1. h.blocks[b].size \in Nat
        BY <1>2, <2>2, <2>3, Neighbours
      <3> QED
        BY <1>1, <2>3, <3>1 DEF Fits
    <2>5. B = TakeBlock(h.blocks, b, count)
      OBVIOUS
    <2> HIDE DEF B, b, count, fits
    <2>6. /\ WellFormed(B) /\ Separated(B)
          /\ DOMAIN B \subseteq DOMAIN h.blocks \cup {b + HDR + count}
          /\ Taken(B) = Taken(h.blocks) \cup {b}
          /\ count <= B[b].size
          /\ \A c \in Taken(h.blocks) : B[c].size = h.blocks[c].size
      BY <1>1, <1>2, <2>4, <2>5, TakeList
    <2>7. FindMaxBlock(B) \in Nat /\ IsLargest(B, FindMaxBlock(B))
      BY <2>6, FindMaxLemma
    <2>8. r.heap = [blocks |-> B, max_alloc |-> FindMaxBlock(B)] /\ r.ptr = b + HDR
      BY <2>1 DEF b
    <2>9. SoundHeap(r.heap)
      BY <2>6, <2>7, <2>8 DEF SoundHeap
    <2>10. r.ptr # NULL
      <3>1. b \in Nat
        BY <2>2, <2>4
      <3> QED
        BY <2>8, <3>1, HeapFacts DEF NULL
    <2>11. n <= B[b].size
      <3>1. b \in DOMAIN B
        BY <2>6 DEF Taken
      <3>2. B[b].size \in Nat
        BY <2>6, <3>1, Neighbours
      <3> QED
        BY <1>1, <2>6, <3>2
    <2>12. r.heap.blocks = B
      BY <2>8
    <2>13. Took(h, b, n, r.heap)
      BY <2>4, <2>6, <2>8, <2>9, <2>11, <2>12 DEF Took, count
    <2> QED
      BY <2>4, <2>8, <2>10, <2>13
  <1> QED
    BY <1>3, <1>4

\* free gives back one taken block and keeps max_alloc exact.
LEMMA FreeLemma ==
  ASSUME NEW h, SoundHeap(h), NEW b \in Taken(h.blocks),
         NEW ptr_, ptr_ - HDR = b, NEW g, g = Free(h, ptr_)
  PROVE  GaveBack(h, b, g)
  <1> DEFINE B == h.blocks
             marked == SetFree(B, b, TRUE)
             block == Holder(marked, b)
             C == MergeNext(MergePrev(marked, b), block)
             m == h.max_alloc
             n == IF C[block].size > m THEN C[block].size ELSE m
  <1>1. /\ WellFormed(B) /\ Separated(B) /\ m \in Nat
        /\ \A c \in DOMAIN B : B[c].size <= m
        /\ \E c \in DOMAIN B : B[c].size = m
        /\ b \in DOMAIN B /\ ~B[b].free
    BY DEF SoundHeap, IsLargest, Taken
  <1>2. g = [blocks |-> C, max_alloc |-> n]
    BY DEF Free
  <1>3. C = FreedList(B, b)
    BY DEF FreedList
  <1>4. /\ MarkedFrom(B, b, marked) /\ marked[b].free
        /\ WellFormed(marked) /\ DOMAIN marked = DOMAIN B
    BY <1>1, SetFreeTrue, MarkedWF DEF WellFormed
  <1>5. block = Holder(SetFree(B, b, TRUE), b) /\ marked = SetFree(B, b, TRUE)
    OBVIOUS
  <1> HIDE DEF C, block, marked
  <1>6. /\ WellFormed(C) /\ Separated(C) /\ block \in DOMAIN C
        /\ Absorbed(marked, block, C)
    BY <1>1, <1>3, <1>5, FreeList DEF Taken
  <1>7. \A c \in DOMAIN B : /\ marked[c].size = B[c].size
                            /\ c # b => marked[c].free = B[c].free
    BY <1>4 DEF MarkedFrom
  <1>8. /\ DOMAIN C \subseteq DOMAIN B
        /\ \A c \in DOMAIN C : /\ C[c].free = marked[c].free
                               /\ c # block => C[c].size = B[c].size
        /\ \A c \in DOMAIN B \ DOMAIN C : marked[c].free /\ B[c].size <= C[block].size
        /\ B[block].size <= C[block].size
    BY <1>4, <1>6, <1>7 DEF Absorbed
  <1>9. C[block].size \in Nat /\ \A c \in DOMAIN B : B[c].size \in Nat
    BY <1>1, <1>6, Neighbours
  <1>10. n \in Nat /\ m <= n /\ C[block].size <= n /\ (n = m \/ n = C[block].size)
    BY <1>1, <1>9
  <1>11. IsLargest(C, n)
    <2>1. ASSUME NEW c \in DOMAIN C PROVE C[c].size <= n
      <3>1. CASE c = block
        BY <3>1, <1>10
      <3>2. CASE c # block
        BY <3>2, <1>1, <1>8, <1>9, <1>10
      <3> QED
        BY <3>1, <3>2
    <2>2. \E c \in DOMAIN C : C[c].size = n
      <3>1. CASE n = C[block].size
        BY <3>1, <1>6
      <3>2. CASE n = m /\ n # C[block].size
        <4>1. PICK c \in DOMAIN B : B[c].size = m
          BY <1>1
        <4>2. ~(B[c].size <= C[block].size)
          BY <3>2, <4>1, <1>1, <1>9, <1>10
        <4>3. c \in DOMAIN C /\ c # block
          BY <4>2, <1>8
        <4> QED
          BY <4>1, <4>3, <3>2, <1>8
      <3> QED
        BY <3>1, <3>2, <1>10
    <2> QED
      BY <2>1, <2>2 DEF IsLargest
  <1>12. g.blocks = C /\ g.max_alloc = n
    BY <1>2
  <1> HIDE DEF n
  <1>13. SoundHeap(g)
    BY <1>2, <1>6, <1>10, <1>11, <1>12 DEF SoundHeap
  <1>14. Taken(C) = Taken(B) \ {b}
    <2>1. \A c \in DOMAIN B : c # b /\ ~B[c].free => c \in DOMAIN C
      BY <1>7, <1>8
    <2>2. \A c \in DOMAIN C : ~C[c].free <=> c # b /\ ~B[c].free
      BY <1>4, <1>7, <1>8
    <2> QED
      BY <2>1, <2>2, <1>8 DEF Taken
  <1>15. marked[block].free
    <2>1. C[block].free = marked[block].free
      BY <1>6, <1>8
    <2>2. block = b \/ marked[block].free
      BY DEF block, Holder
    <2> QED
      BY <2>2, <1>4
  <1>16. \A c \in Taken(C) : C[c].size = B[c].size
    BY <1>8, <1>15 DEF Taken
  <1> QED
    BY <1>8, <1>12, <1>13, <1>14, <1>16 DEF GaveBack

\* realloc to a smaller size keeps the block.
LEMMA ShrinkLemma ==
  ASSUME NEW h, SoundHeap(h), NEW b \in Taken(h.blocks),
         NEW ptr_, ptr_ - HDR = b, NEW size \in Nat, size < h.blocks[b].size,
         NEW g, g = Shrink(h, ptr_, size)
  PROVE  /\ SoundHeap(g)
         /\ DOMAIN g.blocks \subseteq DOMAIN h.blocks \cup {b + HDR + size}
         /\ Taken(g.blocks) = Taken(h.blocks)
         /\ size <= g.blocks[b].size
         /\ \A c \in Taken(h.blocks) : c # b => g.blocks[c].size = h.blocks[c].size
  <1> DEFINE B == h.blocks
             C == MergeNext(SplitBlock(B, b, size), b + HDR + size)
  <1>1. WellFormed(B) /\ Separated(B) /\ b \in DOMAIN B /\ B[b].size \in Nat
    BY Neighbours DEF SoundHeap, Taken
  <1>2. CASE B[b].size - size < HDR + ALIGN
    <2>1. g = h
      BY <1>2 DEF Shrink
    <2> QED
      BY <2>1, <1>1
  <1>3. CASE ~(B[b].size - size < HDR + ALIGN)
    <2>1. g = [blocks |-> C, max_alloc |-> FindMaxBlock(C)]
      BY <1>3 DEF Shrink
    <2>2. B[b].size >= size + HDR + ALIGN
      BY <1>1, <1>3, HeapFacts
    <2>3. C = MergeNext(SplitBlock(B, b, size), b + HDR + size)
      OBVIOUS
    <2> HIDE DEF C
    <2>4. /\ WellFormed(C) /\ Separated(C)
          /\ DOMAIN C \subseteq DOMAIN B \cup {b + HDR + size}
          /\ Taken(C) = Taken(B)
          /\ C[b].size = size
          /\ \A c \in Taken(B) : c # b => C[c].size = B[c].size
      BY <1>1, <2>2, <2>3, ShrinkList
    <2>5. FindMaxBlock(C) \in Nat /\ IsLargest(C, FindMaxBlock(C))
      BY <2>4, FindMaxLemma
    <2>6. g.blocks = C /\ g.max_alloc = FindMaxBlock(C)
      BY <2>1
    <2>7. SoundHeap(g)
      BY <2>1, <2>4, <2>5, <2>6 DEF SoundHeap
    <2>8. size <= size
      OBVIOUS
    <2> QED
      BY <2>4, <2>6, <2>7, <2>8
  <1> QED
    BY <1>2, <1>3

\* realloc returns NULL and changes nothing, or leaves the owner with one
\* taken block, the old one or a new one, that holds the new size.
LEMMA ReallocLemma ==
  ASSUME NEW h, SoundHeap(h), NEW b \in Taken(h.blocks),
         NEW ptr_, ptr_ = b + HDR, NEW n \in Nat, NEW r, r = Realloc(h, ptr_, n)
  PROVE  \/ r.ptr = NULL /\ r.heap = h
         \/ \E d \in Taken(r.heap.blocks) :
              r.ptr = d + HDR /\ r.ptr # NULL /\ Replaced(h, b, d, n, r.heap)
  <1> DEFINE new_size == Align16(n)
             old_size == h.blocks[b].size
             new == Malloc(h, new_size)
             B == h.blocks
  <1>1. /\ WellFormed(B) /\ b \in DOMAIN B /\ ~B[b].free
        /\ b \in Nat /\ old_size \in Nat
    BY Neighbours, ListFacts DEF SoundHeap, Taken, WellFormed
  <1>2. new_size \in Nat /\ n <= new_size
    BY AlignFacts
  <1>3. ptr_ - HDR = b /\ ptr_ # NULL
    BY <1>1, HeapFacts DEF NULL
  <1>4. r = CASE old_size > new_size -> [ptr |-> ptr_, heap |-> Shrink(h, ptr_, new_size)]
              [] old_size < new_size -> IF new.ptr = NULL
                                        THEN Refused(h)
                                        ELSE [ptr  |-> new.ptr,
                                              heap |-> Free(new.heap, ptr_)]
              [] OTHER               -> [ptr |-> ptr_, heap |-> h]
    BY <1>3 DEF Realloc
  <1> HIDE DEF new_size
  <1>5. CASE old_size > new_size
    <2>1. r = [ptr |-> ptr_, heap |-> Shrink(h, ptr_, new_size)]
      BY <1>1, <1>2, <1>4, <1>5
    <2>2. /\ r.ptr = b + HDR /\ r.ptr # NULL
          /\ r.heap = Shrink(h, ptr_, new_size)
      BY <2>1, <1>3
    <2>3. new_size < old_size
      BY <1>1, <1>2, <1>5
    <2>4. /\ SoundHeap(r.heap)
          /\ Taken(r.heap.blocks) = Taken(h.blocks)
          /\ new_size <= r.heap.blocks[b].size
          /\ \A c \in Taken(h.blocks) : c # b => r.heap.blocks[c].size = h.blocks[c].size
      BY <2>2, <2>3, <1>2, <1>3, ShrinkLemma
    <2>5. r.heap.blocks[b].size \in Nat
      BY <2>4, Neighbours DEF SoundHeap, Taken
    <2>6. n <= r.heap.blocks[b].size
      BY <2>4, <2>5, <1>2
    <2>8. AlignedList(h.blocks) => AlignedList(r.heap.blocks)
      <3>1. DOMAIN r.heap.blocks \subseteq DOMAIN h.blocks \cup {b + HDR + new_size}
        BY <2>2, <2>3, <1>2, <1>3, ShrinkLemma
      <3>2. Multiple(b) => Multiple(b + HDR + new_size)
        BY AlignedFacts DEF new_size
      <3> QED
        BY <3>1, <3>2, <1>1 DEF AlignedList
    <2>7. Taken(r.heap.blocks) = (Taken(h.blocks) \ {b}) \cup {b}
      BY <2>4
    <2> QED
      BY <2>2, <2>4, <2>6, <2>7, <2>8 DEF Replaced
  <1>6. CASE old_size < new_size
    <2>1. r = IF new.ptr = NULL
              THEN Refused(h)
              ELSE [ptr |-> new.ptr, heap |-> Free(new.heap, ptr_)]
      BY <1>1, <1>2, <1>4, <1>6
    <2>2. CASE new.ptr = NULL
      BY <2>1, <2>2 DEF Refused
    <2>3. CASE new.ptr # NULL
      <3>1. r.ptr = new.ptr /\ r.heap = Free(new.heap, ptr_)
        BY <2>1, <2>3
      <3>2. new = Malloc(h, new_size)
        OBVIOUS
      <3> HIDE DEF new
      <3>a. PICK d \in DOMAIN h.blocks : new.ptr = d + HDR /\ Took(h, d, new_size, new.heap)
        BY <2>3, <3>2, <1>2, MallocLemma
      <3>3. /\ new.ptr = d + HDR /\ h.blocks[d].free
              /\ SoundHeap(new.heap)
              /\ Taken(new.heap.blocks) = Taken(h.blocks) \cup {d}
              /\ new_size <= new.heap.blocks[d].size
              /\ \A c \in Taken(h.blocks) : new.heap.blocks[c].size = h.blocks[c].size
        BY <3>a DEF Took
      <3>4. d \notin Taken(h.blocks) /\ d # b
        BY <3>3, <1>1 DEF Taken
      <3>5. b \in Taken(new.heap.blocks)
        BY <3>3
      <3>6. /\ SoundHeap(r.heap)
            /\ DOMAIN r.heap.blocks \subseteq DOMAIN new.heap.blocks
            /\ Taken(r.heap.blocks) = Taken(new.heap.blocks) \ {b}
            /\ \A c \in Taken(r.heap.blocks) :
                 r.heap.blocks[c].size = new.heap.blocks[c].size
        <4> DEFINE g == Free(new.heap, ptr_)
        <4>1. SoundHeap(new.heap) /\ ptr_ - HDR = b
          BY <3>3, <1>3
        <4>2. g = Free(new.heap, ptr_)
          OBVIOUS
        <4> HIDE DEF g
        <4>3. GaveBack(new.heap, b, g)
          BY <4>1, <4>2, <3>5, FreeLemma
        <4>4. r.heap = g
          BY <4>2, <3>1
        <4> QED
          BY <4>3, <4>4 DEF GaveBack
      <3>7. d \in Taken(r.heap.blocks)
        BY <3>3, <3>4, <3>6
      <3>8. n <= r.heap.blocks[d].size
        <4>1. r.heap.blocks[d].size \in Nat
          BY <3>6, <3>7, Neighbours DEF SoundHeap, Taken
        <4>2. new_size <= r.heap.blocks[d].size
          BY <3>3, <3>6, <3>7
        <4> QED
          BY <4>1, <4>2, <1>2
      <3>9. Taken(r.heap.blocks) = (Taken(h.blocks) \ {b}) \cup {d}
        BY <3>3, <3>4, <3>6
      <3>10. \A c \in Taken(h.blocks) : c # b => r.heap.blocks[c].size = h.blocks[c].size
        BY <3>3, <3>6
      <3> QED
        <4>1. /\ Took(h, d, Align16(n), Malloc(h, Align16(n)).heap)
              /\ h.blocks[b].size < Align16(n)
          BY <3>a, <3>2, <1>6 DEF new_size
        <4>2. AlignedList(h.blocks) => AlignedList(r.heap.blocks)
          BY <3>a, <3>6, <1>2, TookAligned DEF AlignedList
        <4>3. Replaced(h, b, d, n, r.heap)
          BY <4>1, <4>2, <3>4, <3>6, <3>8, <3>9, <3>10 DEF Replaced
        <4> QED
          BY <4>3, <2>3, <3>1, <3>3, <3>7
    <2> QED
      BY <2>2, <2>3
  <1>7. CASE old_size = new_size
    <2>1. r = [ptr |-> ptr_, heap |-> h]
      BY <1>1, <1>2, <1>4, <1>7
    <2>2. r.ptr = b + HDR /\ r.ptr # NULL /\ r.heap = h
      BY <2>1, <1>3
    <2>3. Taken(r.heap.blocks) = (Taken(h.blocks) \ {b}) \cup {b}
      BY <2>2
    <2> QED
      BY <2>2, <2>3, <1>2, <1>7 DEF Replaced
  <1> QED
    BY <1>1, <1>2, <1>5, <1>6, <1>7

-----------------------------------------------------------------------------
(***************************************************************************)
(* How much malloc and realloc give, and when they refuse: a taken block   *)
(* holds the size asked for, rounded, and at most a rest that could not be *)
(* split off; NULL is returned only if no free block holds the size.       *)
(***************************************************************************)
\* _align16 is the least multiple of the granule that holds the size.
LEMMA AlignLeast ==
  ASSUME NEW v \in Nat, NEW m, Multiple(m), v <= m
  PROVE  Align16(v) <= m
  <1>1. PICK k \in Nat : m = k * ALIGN
    BY DEF Multiple
  <1>2. PICK j \in Nat : Align16(v) = j * ALIGN
    BY AlignFacts
  <1>3. j * ALIGN < (k + 1) * ALIGN
    <2>1. j * ALIGN < v + ALIGN
      BY <1>2, AlignFacts
    <2>2. (k + 1) * ALIGN = k * ALIGN + ALIGN /\ k * ALIGN \in Nat /\ j * ALIGN \in Nat
      BY HeapFacts
    <2> QED
      BY <2>1, <2>2, <1>1, HeapFacts
  <1>4. j <= k
    <2>1. ASSUME k + 1 <= j PROVE (k + 1) * ALIGN <= j * ALIGN
      BY <2>1, HeapFacts
    <2> QED
      BY <2>1, <1>3, HeapFacts
  <1>5. j * ALIGN <= k * ALIGN
    BY <1>4, HeapFacts
  <1> QED
    BY <1>1, <1>2, <1>5

\* Rounding twice is rounding once.
LEMMA AlignTwice ==
  ASSUME NEW v \in Nat
  PROVE  Align16(Align16(v)) = Align16(v)
  <1>1. Align16(v) \in Nat /\ Multiple(Align16(v))
    BY AlignFacts, AlignedFacts
  <1>2. Align16(Align16(v)) <= Align16(v)
    BY <1>1, AlignLeast
  <1>3. Align16(v) <= Align16(Align16(v)) /\ Align16(Align16(v)) \in Nat
    BY <1>1, AlignFacts
  <1> QED
    BY <1>1, <1>2, <1>3

\* Splitting leaves a block with less than a header and a granule too much.
LEMMA SplitTight ==
  ASSUME NEW B, WellFormed(B), NEW b \in DOMAIN B, NEW size \in Nat,
         NEW C, C = SplitBlock(B, b, size)
  PROVE  C[b].size < size + HDR + ALIGN
  <1>1. B[b].size \in Nat
    BY Neighbours
  <1>2. CASE B[b].size - size < HDR + ALIGN
    <2>1. C = B
      BY <1>2 DEF SplitBlock
    <2> QED
      BY <2>1, <1>1, <1>2, HeapFacts
  <1>3. CASE ~(B[b].size - size < HDR + ALIGN)
    <2>1. B[b].size >= size + HDR + ALIGN
      BY <1>1, <1>3, HeapFacts
    <2>2. C[b].size = size
      <3>1. SplitInto(B, b, size, b + HDR + size, C)
        BY <2>1, SplitFields
      <3> QED
        BY <3>1 DEF SplitInto
    <2> QED
      BY <2>2, HeapFacts
  <1> QED
    BY <1>2, <1>3

\* malloc returns NULL only if all free blocks are too small.
LEMMA MallocRefused ==
  ASSUME NEW h, SoundHeap(h), NEW n \in Nat, Malloc(h, n).ptr = NULL
  PROVE  \A b \in DOMAIN h.blocks : h.blocks[b].free => h.blocks[b].size < Align16(n)
  <1> DEFINE count == Align16(n)
             fits == Fits(h.blocks, count)
  <1> SUFFICES ASSUME NEW b \in DOMAIN h.blocks, h.blocks[b].free, ~(h.blocks[b].size < count)
               PROVE  FALSE
    OBVIOUS
  <1>1. /\ count \in Nat /\ h.max_alloc \in Nat /\ h.blocks[b].size \in Nat
        /\ h.blocks[b].size <= h.max_alloc
    BY AlignFacts, Neighbours DEF SoundHeap, IsLargest
  <1>2. b \in fits
    BY <1>1 DEF Fits
  <1>3. Min(fits) \in Nat
    <2>1. fits \subseteq Nat /\ fits # {}
      BY <1>2, ListFacts DEF Fits, SoundHeap, WellFormed
    <2> QED
      BY <2>1, LeastExists
  <1>4. ~(count > h.max_alloc \/ fits = {})
    BY <1>1, <1>2
  <1>5. Malloc(h, n).ptr = Min(fits) + HDR
    BY <1>4 DEF Malloc
  <1> HIDE DEF fits
  <1> QED
    BY <1>3, <1>5, HeapFacts DEF NULL

\* malloc gives little more than was asked for.
LEMMA MallocTight ==
  ASSUME NEW h, SoundHeap(h), NEW n \in Nat, NEW r, r = Malloc(h, n), r.ptr # NULL
  PROVE  r.heap.blocks[r.ptr - HDR].size < Align16(n) + HDR + ALIGN
  <1> DEFINE count == Align16(n)
             fits == Fits(h.blocks, count)
             b == Min(fits)
             marked == SetFree(h.blocks, b, FALSE)
             B == TakeBlock(h.blocks, b, count)
  <1>1. ~(count > h.max_alloc \/ fits = {})
    BY DEF Malloc, Refused
  <1>2. r.ptr = b + HDR /\ r.heap.blocks = B
    BY <1>1 DEF Malloc
  <1>3. WellFormed(h.blocks) /\ count \in Nat
    BY AlignFacts DEF SoundHeap
  <1>4. b \in DOMAIN h.blocks /\ b \in Nat
    <2>1. fits \subseteq Nat /\ fits # {} /\ fits \subseteq DOMAIN h.blocks
      BY <1>1, <1>3, ListFacts DEF Fits, WellFormed
    <2> QED
      BY <2>1, LeastExists
  <1>5. B = SplitBlock(marked, b, count)
    BY DEF TakeBlock
  <1>6. r.ptr - HDR = b
    BY <1>2, <1>4, HeapFacts
  <1> HIDE DEF b, B, fits, count
  <1>7. WellFormed(marked) /\ b \in DOMAIN marked
    BY <1>3, <1>4, SetFreeFalse, MarkedWF DEF WellFormed
  <1> HIDE DEF marked
  <1>8. B[b].size < count + HDR + ALIGN
    BY <1>3, <1>5, <1>7, SplitTight
  <1> QED
    BY <1>2, <1>6, <1>8 DEF count

\* The same for realloc.
LEMMA ReallocTight ==
  ASSUME NEW h, SoundHeap(h), NEW b \in Taken(h.blocks), NEW p, p = b + HDR,
         NEW n \in Nat, NEW r, r = Realloc(h, p, n), r.ptr # NULL
  PROVE  r.heap.blocks[r.ptr - HDR].size < Align16(n) + HDR + ALIGN
  <1> DEFINE new_size == Align16(n)
             old_size == h.blocks[b].size
             new == Malloc(h, new_size)
  <1>1. /\ WellFormed(h.blocks) /\ Separated(h.blocks) /\ b \in DOMAIN h.blocks
        /\ b \in Nat /\ old_size \in Nat /\ new_size \in Nat /\ p - HDR = b
    BY Neighbours, ListFacts, AlignFacts, HeapFacts DEF SoundHeap, Taken, WellFormed
  <1>2. r = CASE old_size > new_size -> [ptr |-> p, heap |-> Shrink(h, p, new_size)]
              [] old_size < new_size -> IF new.ptr = NULL
                                        THEN Refused(h)
                                        ELSE [ptr |-> new.ptr, heap |-> Free(new.heap, p)]
              [] OTHER               -> [ptr |-> p, heap |-> h]
    BY <1>1 DEF Realloc
  <1>3. new_size = Align16(n) /\ Align16(new_size) = new_size /\ new = Malloc(h, new_size)
    BY AlignTwice
  <1> HIDE DEF new_size, new
  <1>4. CASE old_size > new_size
    <2>1. r.ptr = p /\ r.heap = Shrink(h, p, new_size)
      BY <1>1, <1>2, <1>4
    <2>2. r.heap.blocks[b].size < new_size + HDR + ALIGN
      <3>1. CASE old_size - new_size < HDR + ALIGN
        <4>1. r.heap = h
          BY <2>1, <3>1, <1>1 DEF Shrink
        <4> QED
          BY <4>1, <3>1, <1>1, HeapFacts
      <3>2. CASE ~(old_size - new_size < HDR + ALIGN)
        <4> DEFINE C == MergeNext(SplitBlock(h.blocks, b, new_size), b + HDR + new_size)
        <4>1. r.heap.blocks = C
          BY <2>1, <3>2, <1>1 DEF Shrink
        <4>2. old_size >= new_size + HDR + ALIGN
          BY <3>2, <1>1, HeapFacts
        <4>3. C[b].size = new_size
          BY <4>2, <1>1, ShrinkList
        <4> HIDE DEF C
        <4> QED
          BY <4>1, <4>3, <1>1, HeapFacts
      <3> QED
        BY <3>1, <3>2
    <2> QED
      BY <2>1, <2>2, <1>1, <1>3
  <1>5. CASE old_size < new_size
    <2>1. new.ptr # NULL /\ r.ptr = new.ptr /\ r.heap = Free(new.heap, p)
      BY <1>1, <1>2, <1>5 DEF Refused
    <2>2. PICK d \in DOMAIN h.blocks : new.ptr = d + HDR /\ Took(h, d, new_size, new.heap)
      BY <2>1, <1>1, <1>3, MallocLemma
    <2>3. /\ SoundHeap(new.heap) /\ Taken(new.heap.blocks) = Taken(h.blocks) \cup {d}
          /\ d \in Nat /\ d # b
      BY <2>2, <1>1, ListFacts DEF Took, WellFormed, Taken
    <2>4. GaveBack(new.heap, b, r.heap)
      <3>1. b \in Taken(new.heap.blocks)
        BY <2>3
      <3> QED
        BY <3>1, <2>1, <2>3, <1>1, FreeLemma
    <2>5. r.heap.blocks[d].size = new.heap.blocks[d].size
      BY <2>3, <2>4 DEF GaveBack
    <2>6. r.ptr - HDR = d /\ new.ptr - HDR = d
      BY <2>1, <2>2, <2>3, HeapFacts
    <2>7. new.heap.blocks[new.ptr - HDR].size < Align16(new_size) + HDR + ALIGN
      BY <2>1, <1>1, <1>3, MallocTight
    <2> QED
      BY <2>5, <2>6, <2>7, <1>3
  <1>6. CASE old_size = new_size
    <2>1. r.ptr = p /\ r.heap = h
      BY <1>1, <1>2, <1>6
    <2> QED
      BY <2>1, <1>1, <1>3, <1>6, HeapFacts
  <1> QED
    BY <1>1, <1>4, <1>5, <1>6

\* realloc returns NULL only if the size grows and all free blocks are too
\* small.
LEMMA ReallocRefused ==
  ASSUME NEW h, SoundHeap(h), NEW b \in Taken(h.blocks), NEW p, p = b + HDR,
         NEW n \in Nat, Realloc(h, p, n).ptr = NULL
  PROVE  \A c \in DOMAIN h.blocks : h.blocks[c].free => h.blocks[c].size < Align16(n)
  <1> DEFINE new_size == Align16(n)
             old_size == h.blocks[b].size
             new == Malloc(h, new_size)
             r == Realloc(h, p, n)
  <1>1. /\ b \in Nat /\ old_size \in Nat /\ new_size \in Nat /\ p - HDR = b /\ p # NULL
    BY Neighbours, ListFacts, AlignFacts, HeapFacts DEF SoundHeap, Taken, WellFormed, NULL
  <1>2. r = CASE old_size > new_size -> [ptr |-> p, heap |-> Shrink(h, p, new_size)]
              [] old_size < new_size -> IF new.ptr = NULL
                                        THEN Refused(h)
                                        ELSE [ptr |-> new.ptr, heap |-> Free(new.heap, p)]
              [] OTHER               -> [ptr |-> p, heap |-> h]
    BY <1>1 DEF Realloc
  <1>3. Align16(new_size) = new_size
    BY AlignTwice
  <1>4. r.ptr = NULL
    OBVIOUS
  <1> HIDE DEF new_size, r
  <1>5. Malloc(h, new_size).ptr = NULL
    <2>1. old_size > new_size \/ old_size < new_size \/ old_size = new_size
      BY <1>1
    <2>2. CASE old_size > new_size
      BY <2>2, <1>1, <1>2, <1>4
    <2>3. CASE old_size < new_size
      BY <2>3, <1>1, <1>2, <1>4
    <2>4. CASE old_size = new_size
      BY <2>4, <1>1, <1>2, <1>4
    <2> QED
      BY <2>1, <2>2, <2>3, <2>4
  <1> QED
    BY <1>1, <1>3, <1>5, MallocRefused DEF new_size

-----------------------------------------------------------------------------
(***************************************************************************)
(* A sound heap is determined by what is allocated: the taken blocks and   *)
(* their sizes.  So a caller that gives back what it took finds the heap   *)
(* as it was, in whatever order it did so.                                 *)
(***************************************************************************)
\* The lists A and B have the same taken blocks.
SameTaken(A, B) ==
  /\ Taken(A) = Taken(B)
  /\ \A b \in Taken(B) : A[b].size = B[b].size

\* What is used below of a list: where its blocks begin and end.
LEMMA Layout ==
  ASSUME NEW B, WellFormed(B), Separated(B)
  PROVE  /\ HeapStart \in DOMAIN B
         /\ \A b \in DOMAIN B :
              /\ b \in Nat /\ b # NULL /\ B[b].size \in Nat /\ B[b].free \in BOOLEAN
              /\ End(B, b) \in Nat /\ b < End(B, b) /\ End(B, b) <= HeapEnd
              /\ B[b].next = NULL => End(B, b) = HeapEnd
              /\ B[b].next # NULL => /\ B[b].next \in DOMAIN B /\ B[b].next = End(B, b)
                                     /\ B[b].free => ~B[B[b].next].free
              /\ b = HeapStart => B[b].prev = NULL
              /\ b # HeapStart => /\ B[b].prev \in DOMAIN B /\ End(B, B[b].prev) = b
                                  /\ B[b].free => ~B[B[b].prev].free
         /\ \A b, c \in DOMAIN B : b < c => End(B, b) <= c
  <1>1. HeapStart \in DOMAIN B /\ NULL \notin DOMAIN B
    BY ListFacts DEF WellFormed, Linked
  <1>2. \A b, c \in DOMAIN B : b < c => End(B, b) <= c
    BY DEF WellFormed, Disjoint
  <1>3. ASSUME NEW b \in DOMAIN B
        PROVE  /\ b \in Nat /\ b # NULL /\ B[b].size \in Nat /\ B[b].free \in BOOLEAN
               /\ End(B, b) \in Nat /\ b < End(B, b) /\ End(B, b) <= HeapEnd
    BY <1>1, ListFacts, HeapFacts DEF WellFormed, Linked, End
  <1>4. ASSUME NEW b \in DOMAIN B
        PROVE  /\ B[b].next = NULL => End(B, b) = HeapEnd
               /\ B[b].next # NULL => /\ B[b].next \in DOMAIN B /\ B[b].next = End(B, b)
                                      /\ B[b].free => ~B[B[b].next].free
    BY Neighbours DEF WellFormed, Linked, Separated
  <1>5. ASSUME NEW b \in DOMAIN B
        PROVE  /\ b = HeapStart => B[b].prev = NULL
               /\ b # HeapStart => /\ B[b].prev \in DOMAIN B /\ End(B, B[b].prev) = b
                                   /\ B[b].free => ~B[B[b].prev].free
    <2>1. B[b].prev = NULL <=> b = HeapStart
      BY DEF WellFormed, Linked
    <2>2. CASE b # HeapStart
      <3> DEFINE p == B[b].prev
      <3>1. p \in DOMAIN B /\ B[p].next = b
        BY <2>1, <2>2, Neighbours
      <3>2. B[p].next # NULL
        BY <1>1, <3>1
      <3>3. End(B, p) = b /\ (B[p].free => ~B[b].free)
        BY <1>4, <3>1, <3>2
      <3> QED
        BY <2>2, <3>1, <3>3
    <2> QED
      BY <2>1, <2>2
  <1> QED
    BY <1>1, <1>2, <1>3, <1>4, <1>5

\* Every block of A begins where a block of B does: a free one behind a taken
\* one, or at the start of the heap.
LEMMA SameDomain ==
  ASSUME NEW A, WellFormed(A), Separated(A),
         NEW B, WellFormed(B), Separated(B), SameTaken(A, B)
  PROVE  \A b \in DOMAIN A : b \in DOMAIN B /\ B[b].free = A[b].free
  <1> SUFFICES ASSUME NEW b \in DOMAIN A PROVE b \in DOMAIN B /\ B[b].free = A[b].free
    OBVIOUS
  <1>1. \A c : c \in DOMAIN A /\ ~A[c].free <=> c \in DOMAIN B /\ ~B[c].free
    BY DEF SameTaken, Taken
  <1>2. A[b].free \in BOOLEAN /\ (b \in DOMAIN B => B[b].free \in BOOLEAN)
    BY Layout
  <1>3. b \in DOMAIN B
    <2>1. CASE ~A[b].free
      BY <2>1, <1>1
    <2>2. CASE b = HeapStart
      BY <2>2, Layout
    <2>3. CASE A[b].free /\ b # HeapStart
      <3> DEFINE p == A[b].prev
      <3>1. p \in DOMAIN A /\ End(A, p) = b /\ ~A[p].free
        BY <2>3, Layout
      <3>2. p \in DOMAIN B /\ ~B[p].free /\ B[p].size = A[p].size
        BY <3>1, <1>1 DEF SameTaken, Taken
      <3>3. End(B, p) = b
        BY <3>1, <3>2 DEF End
      <3>4. b < HeapEnd
        <4>1. b \in Nat /\ End(A, b) \in Nat /\ b < End(A, b) /\ End(A, b) <= HeapEnd
          BY Layout
        <4> QED
          BY <4>1, HeapFacts
      <3>5. B[p].next # NULL
        BY <3>2, <3>3, <3>4, Layout, HeapFacts
      <3> QED
        BY <3>2, <3>3, <3>5, Layout
    <2> QED
      BY <1>2, <2>1, <2>2, <2>3
  <1> QED
    BY <1>1, <1>2, <1>3

\* No block of A is longer than the one of B at its place: behind a free block
\* of B is a taken one, or the end of the heap.
LEMMA SameSizes ==
  ASSUME NEW A, WellFormed(A), Separated(A),
         NEW B, WellFormed(B), Separated(B), SameTaken(A, B),
         NEW b \in DOMAIN A, b \in DOMAIN B, B[b].free = A[b].free
  PROVE  End(A, b) <= End(B, b)
  <1>1. /\ End(A, b) \in Nat /\ End(B, b) \in Nat /\ b < End(B, b)
        /\ End(A, b) <= HeapEnd /\ b \in Nat
    BY Layout
  <1>2. CASE ~A[b].free
    <2>1. A[b].size = B[b].size
      BY <1>2 DEF SameTaken, Taken
    <2> QED
      BY <1>1, <2>1 DEF End
  <1>3. CASE B[b].next = NULL
    BY <1>1, <1>3, Layout
  <1>4. CASE A[b].free /\ B[b].next # NULL
    <2> DEFINE n == B[b].next
    <2>1. n \in DOMAIN B /\ n = End(B, b) /\ ~B[n].free
      BY <1>4, Layout
    <2>2. n \in DOMAIN A
      BY <2>1 DEF SameTaken, Taken
    <2>3. End(A, b) <= n
      BY <1>1, <2>1, <2>2, Layout
    <2> QED
      BY <2>1, <2>3
  <1> QED
    BY <1>2, <1>3, <1>4

\* Two sound heaps with the same taken blocks are the same heap.
LEMMA Canonical ==
  ASSUME NEW g, SoundHeap(g), NEW h, SoundHeap(h), SameTaken(g.blocks, h.blocks)
  PROVE  g = h
  <1> DEFINE A == g.blocks
             B == h.blocks
  <1>1. WellFormed(A) /\ Separated(A) /\ WellFormed(B) /\ Separated(B)
    BY DEF SoundHeap
  <1>2. SameTaken(A, B) /\ SameTaken(B, A)
    BY DEF SameTaken
  <1>3. DOMAIN A = DOMAIN B /\ \A b \in DOMAIN A : B[b].free = A[b].free
    BY <1>1, <1>2, SameDomain
  <1>4. \A b \in DOMAIN A : /\ B[b] = Header(B[b].free, B[b].size, B[b].next, B[b].prev)
                            /\ A[b] = Header(A[b].free, A[b].size, A[b].next, A[b].prev)
    BY <1>1, <1>3, ListFacts DEF WellFormed
  <1>5. A = [b \in DOMAIN A |-> A[b]] /\ B = [b \in DOMAIN B |-> B[b]]
    BY <1>1 DEF WellFormed, IsList
  <1>6. /\ g = [blocks |-> A, max_alloc |-> g.max_alloc]
        /\ h = [blocks |-> B, max_alloc |-> h.max_alloc]
        /\ IsLargest(A, g.max_alloc) /\ IsLargest(B, h.max_alloc)
        /\ g.max_alloc \in Nat /\ h.max_alloc \in Nat
    BY DEF SoundHeap
  <1> HIDE DEF A, B
  <1>7. \A b \in DOMAIN A : End(A, b) = End(B, b)
    <2> SUFFICES ASSUME NEW b \in DOMAIN A PROVE End(A, b) = End(B, b)
      OBVIOUS
    <2>1. End(A, b) <= End(B, b) /\ End(B, b) <= End(A, b)
      BY <1>1, <1>2, <1>3, SameSizes
    <2>2. End(A, b) \in Nat /\ End(B, b) \in Nat
      BY <1>1, <1>3, Layout
    <2> QED
      BY <2>1, <2>2
  <1>8. \A b \in DOMAIN A : A[b].size = B[b].size
    <2> SUFFICES ASSUME NEW b \in DOMAIN A PROVE A[b].size = B[b].size
      OBVIOUS
    <2>1. b \in Nat /\ A[b].size \in Nat /\ B[b].size \in Nat
      BY <1>1, <1>3, Layout
    <2> QED
      BY <2>1, <1>7, HeapFacts DEF End
  <1>9. \A b \in DOMAIN A : A[b].next = B[b].next
    <2> SUFFICES ASSUME NEW b \in DOMAIN A PROVE A[b].next = B[b].next
      OBVIOUS
    <2>1. /\ A[b].next = NULL => End(A, b) = HeapEnd
          /\ B[b].next = NULL => End(B, b) = HeapEnd
          /\ A[b].next # NULL => A[b].next \in DOMAIN A /\ A[b].next = End(A, b)
          /\ B[b].next # NULL => B[b].next \in DOMAIN A /\ B[b].next = End(B, b)
      BY <1>1, <1>3, Layout
    <2>2. HeapEnd \notin DOMAIN A
      <3> SUFFICES ASSUME HeapEnd \in DOMAIN A PROVE FALSE
        OBVIOUS
      <3>1. HeapEnd < End(A, HeapEnd) /\ End(A, HeapEnd) <= HeapEnd /\ End(A, HeapEnd) \in Nat
        BY <1>1, Layout
      <3> QED
        BY <3>1, HeapFacts
    <2> QED
      BY <2>1, <2>2, <1>7
  <1>10. \A b \in DOMAIN A : A[b].prev = B[b].prev
    <2> SUFFICES ASSUME NEW b \in DOMAIN A PROVE A[b].prev = B[b].prev
      OBVIOUS
    <2>1. CASE b = HeapStart
      BY <2>1, <1>1, <1>3, Layout
    <2>2. CASE b # HeapStart
      <3> DEFINE p == A[b].prev
                 q == B[b].prev
      <3>1. p \in DOMAIN A /\ End(A, p) = b /\ q \in DOMAIN A /\ End(A, q) = b
        BY <2>2, <1>1, <1>3, <1>7, Layout
      <3>2. p \in Nat /\ q \in Nat /\ p < b /\ q < b /\ b \in Nat
        BY <3>1, <1>1, Layout
      <3>3. ~(p < q) /\ ~(q < p)
        BY <3>1, <3>2, <1>1, Layout
      <3> QED
        BY <3>2, <3>3
    <2> QED
      BY <2>1, <2>2
  <1>11. A = B
    <2>1. \A b \in DOMAIN A : A[b] = B[b]
      BY <1>3, <1>4, <1>8, <1>9, <1>10
    <2> QED
      BY <1>3, <1>5, <2>1
  <1>12. g.max_alloc = h.max_alloc
    <2>1. PICK b \in DOMAIN A : A[b].size = g.max_alloc
      BY <1>6 DEF IsLargest
    <2>2. PICK c \in DOMAIN A : A[c].size = h.max_alloc
      BY <1>6, <1>11 DEF IsLargest
    <2>3. A[b].size <= h.max_alloc /\ A[c].size <= g.max_alloc
      BY <1>6, <1>11 DEF IsLargest
    <2> QED
      BY <2>1, <2>2, <2>3, <1>6
  <1> QED
    BY <1>6, <1>11, <1>12

-----------------------------------------------------------------------------
(***************************************************************************)
(* The allocator seen by one caller among others: the pointers it holds on *)
(* top of those that were allocated before.                                *)
(***************************************************************************)
\* The pointers that malloc or realloc returned and nobody freed.
Pointers(h) == {b + HDR : b \in Taken(h.blocks)}

\* The bytes at pointer p.
SizeAt(h, p) == h.blocks[p - HDR].size

\* The caller holds the pointers P; everything else is as it was before.
Holding(h, before, P) ==
  /\ SoundHeap(h)
  /\ Pointers(h) = Pointers(before) \cup P
  /\ P \cap Pointers(before) = {}
  /\ \A p \in Pointers(before) : SizeAt(h, p) = SizeAt(before, p)

\* Pointers and taken blocks.
LEMMA PointerFacts ==
  ASSUME NEW h, SoundHeap(h)
  PROVE  /\ NULL \notin Pointers(h)
         /\ \A p \in Pointers(h) : /\ p \in Nat /\ p - HDR \in Nat
                                   /\ p - HDR \in Taken(h.blocks)
                                   /\ p = (p - HDR) + HDR
                                   /\ SizeAt(h, p) \in Nat
         /\ \A b \in Taken(h.blocks) : b \in Nat /\ b + HDR \in Pointers(h) /\ (b + HDR) - HDR = b
  <1>1. \A b \in Taken(h.blocks) : b \in Nat /\ h.blocks[b].size \in Nat
    BY Layout DEF SoundHeap, Taken
  <1>2. ASSUME NEW p \in Pointers(h)
        PROVE  /\ p \in Nat /\ p - HDR \in Nat /\ p # NULL
               /\ p - HDR \in Taken(h.blocks) /\ p = (p - HDR) + HDR
               /\ SizeAt(h, p) \in Nat
    <2>1. PICK b \in Taken(h.blocks) : p = b + HDR
      BY DEF Pointers
    <2>2. b \in Nat /\ p - HDR = b /\ p \in Nat /\ p > 0
      BY <1>1, <2>1, HeapFacts
    <2> QED
      BY <1>1, <2>1, <2>2 DEF NULL, SizeAt
  <1>3. ASSUME NEW b \in Taken(h.blocks)
        PROVE  b \in Nat /\ b + HDR \in Pointers(h) /\ (b + HDR) - HDR = b
    BY <1>1, HeapFacts DEF Pointers
  <1> QED
    BY <1>2, <1>3

\* A caller that has just come holds nothing.
LEMMA HoldingNothing ==
  ASSUME NEW h, SoundHeap(h)
  PROVE  Holding(h, h, {})
  BY DEF Holding

\* A caller that has given everything back finds the heap as it was.
LEMMA HoldingReturned ==
  ASSUME NEW h, NEW before, SoundHeap(before), Holding(h, before, {})
  PROVE  h = before
  <1>1. SoundHeap(h) /\ Pointers(h) = Pointers(before)
    BY DEF Holding
  <1>2. \A b : b \in Taken(h.blocks) <=> b \in Taken(before.blocks)
    <2>1. ASSUME NEW b \in Taken(h.blocks) PROVE b \in Taken(before.blocks)
      BY <1>1, <2>1, PointerFacts
    <2>2. ASSUME NEW b \in Taken(before.blocks) PROVE b \in Taken(h.blocks)
      BY <1>1, <2>2, PointerFacts
    <2> QED
      BY <2>1, <2>2
  <1>3. \A b \in Taken(before.blocks) : h.blocks[b].size = before.blocks[b].size
    <2> SUFFICES ASSUME NEW b \in Taken(before.blocks)
                 PROVE  h.blocks[b].size = before.blocks[b].size
      OBVIOUS
    <2>1. b + HDR \in Pointers(before) /\ (b + HDR) - HDR = b
      BY PointerFacts
    <2>2. SizeAt(h, b + HDR) = SizeAt(before, b + HDR)
      BY <2>1 DEF Holding
    <2> QED
      BY <2>1, <2>2 DEF SizeAt
  <1>4. SameTaken(h.blocks, before.blocks)
    BY <1>2, <1>3 DEF SameTaken
  <1> QED
    BY <1>1, <1>4, Canonical

\* malloc refuses and changes nothing, or returns a pointer nobody holds.
LEMMA HoldingMalloc ==
  ASSUME NEW h, NEW before, SoundHeap(before), NEW P, Holding(h, before, P),
         NEW n \in Nat, NEW r, r = Malloc(h, n)
  PROVE  \/ r.ptr = NULL /\ r.heap = h
         \/ /\ r.ptr \in Nat /\ r.ptr # NULL /\ r.ptr \notin Pointers(h)
            /\ Holding(r.heap, before, P \cup {r.ptr})
            /\ SizeAt(r.heap, r.ptr) >= Align16(n)
            /\ \A p \in P : SizeAt(r.heap, p) = SizeAt(h, p)
  <1> SUFFICES ASSUME ~(r.ptr = NULL /\ r.heap = h)
               PROVE  /\ r.ptr \in Nat /\ r.ptr # NULL /\ r.ptr \notin Pointers(h)
                      /\ Holding(r.heap, before, P \cup {r.ptr})
                      /\ SizeAt(r.heap, r.ptr) >= Align16(n)
                      /\ \A p \in P : SizeAt(r.heap, p) = SizeAt(h, p)
    OBVIOUS
  <1>1. SoundHeap(h)
    BY DEF Holding
  <1>2. PICK b \in DOMAIN h.blocks : r.ptr = b + HDR /\ r.ptr # NULL /\ Took(h, b, n, r.heap)
    BY <1>1, MallocLemma
  <1> DEFINE g == r.heap
  <1> HIDE DEF g
  <1>3. /\ SoundHeap(g) /\ Taken(g.blocks) = Taken(h.blocks) \cup {b} /\ b \notin Taken(h.blocks)
        /\ Align16(n) <= g.blocks[b].size
        /\ \A c \in Taken(h.blocks) : g.blocks[c].size = h.blocks[c].size
    BY <1>2 DEF Took, Taken, g
  <1>4. b \in Nat /\ r.ptr \in Pointers(g) /\ r.ptr - HDR = b /\ r.ptr \in Nat
    BY <1>2, <1>3, PointerFacts
  <1>5. r.ptr \notin Pointers(h)
    BY <1>1, <1>3, <1>4, PointerFacts
  <1>6. Pointers(g) = Pointers(h) \cup {r.ptr}
    <2>1. ASSUME NEW p \in Pointers(g), p # r.ptr PROVE p \in Pointers(h)
      <3>1. p - HDR \in Taken(g.blocks) /\ p = (p - HDR) + HDR
        BY <1>3, PointerFacts
      <3>2. p - HDR \in Taken(h.blocks)
        BY <1>2, <1>3, <2>1, <3>1
      <3> QED
        BY <1>1, <3>1, <3>2, PointerFacts
    <2>2. ASSUME NEW p \in Pointers(h) PROVE p \in Pointers(g)
      BY <1>3 DEF Pointers
    <2> QED
      BY <1>4, <2>1, <2>2
  <1>7. \A p \in Pointers(h) : SizeAt(g, p) = SizeAt(h, p)
    BY <1>1, <1>3, PointerFacts DEF SizeAt
  <1>8. Holding(g, before, P \cup {r.ptr})
    BY <1>3, <1>5, <1>6, <1>7 DEF Holding
  <1>9. SizeAt(g, r.ptr) >= Align16(n)
    <2>1. SizeAt(g, r.ptr) \in Nat /\ Align16(n) \in Nat
      BY <1>3, <1>4, PointerFacts, AlignFacts
    <2> QED
      BY <1>3, <1>4, <2>1 DEF SizeAt
  <1> QED
    BY <1>2, <1>4, <1>5, <1>7, <1>8, <1>9 DEF g, Holding

\* free gives back one pointer.
LEMMA HoldingFree ==
  ASSUME NEW h, NEW before, SoundHeap(before), NEW P, Holding(h, before, P), NEW p \in P
  PROVE  /\ Holding(Free(h, p), before, P \ {p})
         /\ \A q \in P \ {p} : SizeAt(Free(h, p), q) = SizeAt(h, q)
  <1> DEFINE g == Free(h, p)
             b == p - HDR
  <1>1. SoundHeap(h) /\ p \in Pointers(h)
    BY DEF Holding
  <1>2. b \in Taken(h.blocks) /\ p = b + HDR /\ b \in Nat
    BY <1>1, PointerFacts
  <1>3. GaveBack(h, b, g)
    BY <1>1, <1>2, FreeLemma
  <1> HIDE DEF g, b
  <1>4. /\ SoundHeap(g) /\ Taken(g.blocks) = Taken(h.blocks) \ {b}
        /\ \A c \in Taken(g.blocks) : g.blocks[c].size = h.blocks[c].size
    BY <1>3 DEF GaveBack
  <1>5. Pointers(g) = Pointers(h) \ {p}
    <2>1. ASSUME NEW q \in Pointers(g) PROVE q \in Pointers(h) /\ q # p
      <3>1. q - HDR \in Taken(g.blocks) /\ q = (q - HDR) + HDR
        BY <1>4, PointerFacts
      <3>2. q - HDR \in Taken(h.blocks) /\ q - HDR # b
        BY <1>4, <3>1
      <3> QED
        BY <1>1, <3>1, <3>2, PointerFacts DEF b
    <2>2. ASSUME NEW q \in Pointers(h), q # p PROVE q \in Pointers(g)
      <3>1. q - HDR \in Taken(h.blocks) /\ q = (q - HDR) + HDR
        BY <1>1, PointerFacts
      <3>2. q - HDR \in Taken(g.blocks)
        BY <1>2, <1>4, <2>2, <3>1
      <3> QED
        BY <1>4, <3>1, <3>2, PointerFacts
    <2> QED
      BY <2>1, <2>2
  <1>6. \A q \in Pointers(g) : SizeAt(g, q) = SizeAt(h, q)
    BY <1>4, PointerFacts DEF SizeAt
  <1>7. Holding(g, before, P \ {p}) /\ \A q \in P \ {p} : SizeAt(g, q) = SizeAt(h, q)
    BY <1>4, <1>5, <1>6 DEF Holding
  <1> QED
    BY <1>7 DEF g

\* realloc to no more than what is allocated succeeds, in place.
LEMMA HoldingShrink ==
  ASSUME NEW h, NEW before, SoundHeap(before), NEW P, Holding(h, before, P), NEW p \in P,
         NEW n \in Nat, Align16(n) <= SizeAt(h, p), NEW r, r = Realloc(h, p, n)
  PROVE  /\ r.ptr = p
         /\ Holding(r.heap, before, P)
         /\ SizeAt(r.heap, p) >= n
         /\ \A q \in P \ {p} : SizeAt(r.heap, q) = SizeAt(h, q)
  <1> DEFINE g == r.heap
             b == p - HDR
             size == Align16(n)
  <1>1. SoundHeap(h) /\ p \in Pointers(h)
    BY DEF Holding
  <1>2. b \in Taken(h.blocks) /\ p = b + HDR /\ b \in Nat /\ SizeAt(h, p) \in Nat
    BY <1>1, PointerFacts
  <1>3. size \in Nat /\ n <= size /\ SizeAt(h, p) = h.blocks[b].size
    BY AlignFacts DEF SizeAt
  <1>4. /\ r.ptr = p
        /\ g = IF size < h.blocks[b].size THEN Shrink(h, p, size) ELSE h
    <2>1. CASE size < h.blocks[b].size
      <3>1. h.blocks[b].size > size /\ ~(h.blocks[b].size < size)
        BY <2>1, <1>2, <1>3
      <3>2. r = [ptr |-> p, heap |-> Shrink(h, p, size)]
        BY <3>1 DEF Realloc
      <3> QED
        BY <2>1, <3>2
    <2>2. CASE ~(size < h.blocks[b].size)
      <3>1. ~(h.blocks[b].size > size) /\ ~(h.blocks[b].size < size)
        BY <2>2, <1>2, <1>3
      <3>2. r = [ptr |-> p, heap |-> h]
        BY <3>1 DEF Realloc
      <3> QED
        BY <2>2, <3>2
    <2> QED
      BY <2>1, <2>2
  <1> HIDE DEF g, b, size
  <1>5. /\ SoundHeap(g) /\ Taken(g.blocks) = Taken(h.blocks)
        /\ size <= g.blocks[b].size
        /\ \A c \in Taken(h.blocks) : c # b => g.blocks[c].size = h.blocks[c].size
    <2>1. CASE size < h.blocks[b].size
      BY <2>1, <1>1, <1>2, <1>3, <1>4, ShrinkLemma DEF b
    <2>2. CASE ~(size < h.blocks[b].size)
      BY <2>2, <1>1, <1>2, <1>3, <1>4 DEF size
    <2> QED
      BY <2>1, <2>2
  <1>6. Pointers(g) = Pointers(h)
    BY <1>5 DEF Pointers
  <1>7. \A q \in Pointers(h) \ {p} : SizeAt(g, q) = SizeAt(h, q)
    <2> SUFFICES ASSUME NEW q \in Pointers(h) \ {p} PROVE SizeAt(g, q) = SizeAt(h, q)
      OBVIOUS
    <2>1. q - HDR \in Taken(h.blocks) /\ q = (q - HDR) + HDR
      BY <1>1, PointerFacts
    <2>2. q - HDR # b
      BY <1>2, <2>1
    <2> QED
      BY <1>5, <2>1, <2>2 DEF SizeAt
  <1>8. p \notin Pointers(before)
    BY DEF Holding
  <1>9. Holding(g, before, P)
    BY <1>5, <1>6, <1>7, <1>8 DEF Holding
  <1>10. SizeAt(g, p) >= n
    <2>1. SizeAt(g, p) = g.blocks[b].size /\ SizeAt(g, p) \in Nat
      BY <1>1, <1>5, <1>6, PointerFacts DEF SizeAt, b
    <2> QED
      BY <2>1, <1>3, <1>5
  <1> QED
    BY <1>4, <1>7, <1>9, <1>10, <1>1 DEF g, Holding
=============================================================================
