---------------------------- MODULE TslEntryProofs ----------------------------
(***************************************************************************)
(* Theorems about TslEntry and the PE loader in it, for every archive,     *)
(* import graph, firmware and size of the page table.                      *)
(***************************************************************************)
EXTENDS TslEntry, FiniteSetTheorems, TLAPS

-----------------------------------------------------------------------------
(***************************************************************************)
(* Numbers.                                                                *)
(***************************************************************************)
\* A search from the first slot, header or entry on ends at the first match.
LEMMA LeastExists ==
  ASSUME NEW S, S \subseteq Nat, S # {}
  PROVE  Min(S) \in S /\ \A x \in S : Min(S) <= x
  <1> DEFINE Less == {p \in Nat \X Nat : p[1] < p[2]}
  <1>1. IsWellFoundedOn(Less, Nat)
    BY NatLessThanWellFounded, Zenon DEF OpToRel
  <1>2. PICK x \in S : \A y \in S : <<y, x>> \notin Less
    <2> HIDE DEF Less
    <2> QED
      BY <1>1, WFMin
  <1>3. \A y \in S : x <= y
    <2> SUFFICES ASSUME NEW y \in S PROVE x <= y
      OBVIOUS
    <2>1. <<y, x>> \in Nat \X Nat /\ ~(y < x)
      BY <1>2
    <2> QED
      BY <2>1
  <1> QED
    BY <1>3 DEF Min

LEMMA MaxIs ==
  ASSUME NEW S, S \subseteq Nat, NEW m \in S, \A x \in S : x <= m
  PROVE  Max(S) = m
  <1>1. Max(S) \in S /\ Max(S) >= m
    BY DEF Max
  <1>2. Max(S) \in Nat /\ m \in Nat /\ Max(S) <= m
    BY <1>1
  <1> QED
    BY <1>1, <1>2

\* A set of numbers that has 0 and the next number of every one it has has
\* them all.
LEMMA Induction ==
  ASSUME NEW S, 0 \in S, \A n \in Nat : n \in S => n + 1 \in S
  PROVE  \A n \in Nat : n \in S
  <1> SUFFICES ASSUME NEW k \in Nat, k \notin S PROVE FALSE
    OBVIOUS
  <1> DEFINE T == {n \in Nat : n \notin S}
  <1>1. Min(T) \in T /\ \A n \in T : Min(T) <= n
    <2>1. T \subseteq Nat /\ T # {}
      OBVIOUS
    <2> HIDE DEF T
    <2> QED
      BY <2>1, LeastExists
  <1>2. Min(T) # 0 /\ Min(T) \in Nat
    BY <1>1
  <1>3. Min(T) - 1 \in S
    BY <1>1, <1>2
  <1> QED
    BY <1>1, <1>2, <1>3

\* Rounding up to a page.
LEMMA Aligned ==
  ASSUME NEW a \in Nat
  PROVE  /\ align_page(a) \in Nat /\ a <= align_page(a)
         /\ align_page(a) \div PAGE \in Nat
         /\ align_page(a) = (align_page(a) \div PAGE) * PAGE
  <1>1. PICK page, q, r : /\ page = PAGE /\ q = (a + PAGE - 1) \div PAGE
                          /\ r = (a + PAGE - 1) % PAGE
    OBVIOUS
  <1>2. /\ page \in Nat \ {0} /\ q \in Nat /\ r \in 0 .. (page - 1)
        /\ a + page - 1 = q * page + r
    BY <1>1, TslAssumption
  <1>3. align_page(a) = q * page
    BY <1>1 DEF align_page
  <1>4. q * page \in Nat /\ a <= q * page
    BY <1>2
  <1>5. (q * page) \div page = q
    BY <1>2, <1>4
  <1> QED
    BY <1>1, <1>2, <1>3, <1>4, <1>5

\* The page of an address, and the pages of a range.
LEMMA PageFacts ==
  ASSUME NEW a \in Nat, NEW p \in Nat
  PROVE  /\ PageOf(a) \in Nat
         /\ p * PAGE <= a => p <= PageOf(a)
         /\ a < p * PAGE => PageOf(a) < p
  <1>1. PICK page, q, r : page = PAGE /\ q = a \div PAGE /\ r = a % PAGE
    OBVIOUS
  <1>2. page \in Nat \ {0} /\ q \in Nat /\ r \in 0 .. (page - 1) /\ a = q * page + r
    BY <1>1, TslAssumption
  <1>3. p * page <= a => p <= q
    <2> SUFFICES ASSUME p * page <= a, p >= q + 1 PROVE FALSE
      BY <1>2
    <2>1. p * page >= q * page + page
      BY <1>2
    <2> QED
      BY <1>2, <2>1
  <1>4. a < p * page => q < p
    <2> SUFFICES ASSUME a < p * page, q >= p PROVE FALSE
      BY <1>2
    <2>1. q * page >= p * page
      BY <1>2
    <2> QED
      BY <1>2, <2>1
  <1> QED
    BY <1>1, <1>2, <1>3, <1>4 DEF PageOf

-----------------------------------------------------------------------------
(***************************************************************************)
(* The archive.                                                            *)
(***************************************************************************)
LEMMA FileFacts ==
  ASSUME archive \in Archives, NEW k \in DOMAIN archive
  PROVE  /\ k \in Nat
         /\ archive[k].length \in Nat /\ archive[k].stack \in Nat
         /\ archive[k].size \in Nat \ {0} /\ archive[k].entry \in 0 .. (archive[k].size - 1)
         /\ IsTable(archive[k].imports) /\ IsTable(archive[k].exports)
  BY PeLoaderAssumption DEF IsTable

LEMMA TableFacts ==
  ASSUME NEW t, IsTable(t)
  PROVE  /\ DOMAIN t \subseteq Nat \ {0}
         /\ \A i \in Nat \ {0} : i \notin DOMAIN t => \A j \in DOMAIN t : j < i
  BY DEF IsTable

\* The file that ramfs_file finds.
LEMMA FoundFacts ==
  ASSUME archive \in Archives, NEW name, Exists(name)
  PROVE  /\ Min(Matches(name)) \in DOMAIN archive
         /\ IsPrefix(name, ramfs_file(name).name)
         /\ ramfs_file(name) = archive[Min(Matches(name))]
  <1>1. Matches(name) \subseteq Nat /\ Matches(name) # {}
    BY FileFacts DEF Matches, Exists
  <1>2. Min(Matches(name)) \in Matches(name)
    BY <1>1, LeastExists
  <1> QED
    BY <1>2 DEF Matches, ramfs_file

\* What the archive's files make of the sizes and tables of an image.
LEMMA ImportFacts ==
  ASSUME archive \in Archives, NEW name, Exists(name),
         NEW d \in DOMAIN ramfs_file(name).imports
  PROVE  LET import == ramfs_file(name).imports[d]
         IN  /\ import.dll \in Names \ {NoName}
             /\ IsTable(import.symbols)
             /\ Exists(import.dll) /\ ramfs_file(import.dll).exports # <<>> =>
                  \A m \in DOMAIN import.symbols :
                    import.symbols[m].hint \in DOMAIN ramfs_file(import.dll).exports
  <1> DEFINE k == Min(Matches(name))
             import == archive[k].imports[d]
  <1>1. k \in DOMAIN archive /\ ramfs_file(name) = archive[k]
    BY FoundFacts
  <1>2. d \in DOMAIN archive[k].imports
    BY <1>1
  <1> HIDE DEF k
  <1>3. /\ import.dll # NoName /\ IsTable(import.symbols)
        /\ \A j \in DOMAIN archive : \A m \in DOMAIN import.symbols :
             IsPrefix(import.dll, archive[j].name) /\ archive[j].exports # <<>> =>
               import.symbols[m].hint \in DOMAIN archive[j].exports
    BY <1>1, <1>2, PeLoaderAssumption
  <1>4. import.dll \in Names
    BY <1>1, <1>2 DEF Names
  <1>5. ASSUME Exists(import.dll), ramfs_file(import.dll).exports # <<>>,
               NEW m \in DOMAIN import.symbols
        PROVE  import.symbols[m].hint \in DOMAIN ramfs_file(import.dll).exports
    <2> DEFINE j == Min(Matches(import.dll))
    <2>1. /\ j \in DOMAIN archive /\ ramfs_file(import.dll) = archive[j]
          /\ IsPrefix(import.dll, archive[j].name)
      BY <1>5, FoundFacts
    <2> HIDE DEF j
    <2> QED
      BY <1>3, <1>5, <2>1
  <1> QED
    BY <1>1, <1>3, <1>4, <1>5

\* f[k] is where header k + 1 is.
IsHeaders(f, n) ==
  f = [k \in 0 .. n |-> IF k = 0 THEN RAMFS ELSE f[k - 1] + archive[k].length]

LEMMA HeadersExist ==
  ASSUME NEW n \in Nat
  PROVE  \E f : IsHeaders(f, n)
  <1> DEFINE S == {m \in Nat : \E f : IsHeaders(f, m)}
  <1>1. 0 \in S
    <2> DEFINE f == [k \in 0 .. 0 |-> RAMFS]
    <2>1. f = [k \in 0 .. 0 |-> IF k = 0 THEN RAMFS ELSE f[k - 1] + archive[k].length]
      OBVIOUS
    <2>2. IsHeaders(f, 0)
      BY <2>1 DEF IsHeaders
    <2> QED
      BY <2>2
  <1>2. ASSUME NEW m \in Nat, m \in S PROVE m + 1 \in S
    <2>1. PICK f : IsHeaders(f, m)
      BY <1>2
    <2> DEFINE Value(k, h) == IF k = 0 THEN RAMFS ELSE h[k - 1] + archive[k].length
               g == [k \in 0 .. (m + 1) |-> IF k = m + 1 THEN f[m] + archive[k].length ELSE f[k]]
    <2>2. f = [k \in 0 .. m |-> IF k = 0 THEN RAMFS ELSE f[k - 1] + archive[k].length]
      BY <2>1 DEF IsHeaders
    <2>3. \A k \in 0 .. m : f[k] = Value(k, f)
      BY <2>2
    <2>4. \A k \in 0 .. (m + 1) : g[k] = Value(k, g)
      <3> SUFFICES ASSUME NEW k \in 0 .. (m + 1) PROVE g[k] = Value(k, g)
        OBVIOUS
      <3>1. CASE k = m + 1
        <4>1. g[k - 1] = f[m] /\ g[k] = f[m] + archive[k].length /\ k # 0
          BY <3>1
        <4> QED
          BY <4>1
      <3>2. CASE k \in 1 .. m
        <4>1. g[k - 1] = f[k - 1] /\ g[k] = f[k] /\ k # 0
          BY <3>2
        <4> QED
          BY <3>2, <4>1, <2>3
      <3>3. CASE k = 0
        <4>1. g[k] = f[k] /\ f[k] = Value(k, f)
          BY <3>3, <2>3
        <4> QED
          BY <3>3, <4>1
      <3> QED
        BY <3>1, <3>2, <3>3
    <2> HIDE DEF Value
    <2>5. g = [k \in 0 .. (m + 1) |-> Value(k, g)]
      BY <2>4
    <2>6. IsHeaders(g, m + 1)
      BY <2>5 DEF IsHeaders, Value
    <2> QED
      BY <2>6
  <1> HIDE DEF S
  <1>3. n \in S
    BY <1>1, <1>2, Induction
  <1> QED
    BY <1>3 DEF S

\* The archive ends behind where it begins.
LEMMA EndFacts ==
  ASSUME archive \in Archives
  PROVE  ramfs_get_end \in Nat /\ ramfs_get_end >= RAMFS
  <1> DEFINE n == Len(archive)
             f == CHOOSE f : IsHeaders(f, n)
  <1>1. n \in Nat /\ DOMAIN archive = 1 .. n
    BY PeLoaderAssumption DEF IsTable
  <1>2. ramfs_get_end = f[n]
    BY DEF ramfs_get_end, IsHeaders
  <1>3. IsHeaders(f, n)
    BY <1>1, HeadersExist
  <1> HIDE DEF f, n
  <1>4. f[0] = RAMFS /\ \A k \in 1 .. n : f[k] = f[k - 1] + archive[k].length
    <2>1. f = [k \in 0 .. n |-> IF k = 0 THEN RAMFS ELSE f[k - 1] + archive[k].length]
      BY <1>3 DEF IsHeaders
    <2>2. \A k \in 0 .. n : f[k] = IF k = 0 THEN RAMFS ELSE f[k - 1] + archive[k].length
      BY <2>1
    <2>3. f[0] = RAMFS
      BY <1>1, <2>2
    <2>4. \A k \in 1 .. n : k \in 0 .. n /\ k # 0
      BY <1>1
    <2> QED
      BY <2>2, <2>3, <2>4
  <1>5. \A k \in 1 .. n : archive[k].length \in Nat
    BY <1>1, FileFacts
  <1> DEFINE S == {k \in Nat : k <= n => f[k] \in Nat /\ f[k] >= RAMFS}
  <1>6. 0 \in S
    BY <1>4, PeLoaderAssumption
  <1>7. ASSUME NEW k \in Nat, k \in S PROVE k + 1 \in S
    <2> SUFFICES ASSUME k + 1 <= n PROVE f[k + 1] \in Nat /\ f[k + 1] >= RAMFS
      OBVIOUS
    <2>1. f[k] \in Nat /\ f[k] >= RAMFS
      BY <1>1, <1>7
    <2>2. k + 1 \in 1 .. n /\ (k + 1) - 1 = k
      BY <1>1
    <2>3. f[k + 1] = f[k] + archive[k + 1].length /\ archive[k + 1].length \in Nat
      BY <1>4, <1>5, <2>2
    <2> QED
      BY <2>1, <2>3, PeLoaderAssumption
  <1> HIDE DEF S
  <1>8. n \in S
    BY <1>1, <1>6, <1>7, Induction
  <1> QED
    BY <1>1, <1>2, <1>8 DEF S

-----------------------------------------------------------------------------
(***************************************************************************)
(* The names that loading the kernel takes.                                *)
(***************************************************************************)
IsClosed(S) == KERNEL \in S /\ \A m \in S : \A i \in ImportedBy(m) : i.dll \in S

LEMMA NeededFacts ==
  /\ KERNEL \in Needed /\ Needed \subseteq Names
  /\ \A n \in Needed : \A i \in ImportedBy(n) : i.dll \in Names => i.dll \in Needed
  /\ \A S \in SUBSET Names : IsClosed(S) => Needed \subseteq S
  <1>1. Needed = {n \in Names : \A S \in SUBSET Names : IsClosed(S) => n \in S}
    BY DEF Needed, IsClosed
  <1>2. KERNEL \in Needed
    BY <1>1 DEF Names, IsClosed
  <1>3. ASSUME NEW n \in Needed, NEW i \in ImportedBy(n), i.dll \in Names
        PROVE  i.dll \in Needed
    <2> SUFFICES ASSUME NEW S \in SUBSET Names, IsClosed(S) PROVE i.dll \in S
      BY <1>1, <1>3
    <2>1. n \in S
      BY <1>1
    <2> QED
      BY <1>3, <2>1 DEF IsClosed
  <1> QED
    BY <1>1, <1>2, <1>3

LEMMA NamesReal ==
  ASSUME archive \in Archives
  PROVE  NoName \notin Names
  <1>1. \A k \in DOMAIN archive : \A d \in DOMAIN archive[k].imports :
          archive[k].imports[d].dll # NoName
    BY PeLoaderAssumption
  <1> QED
    BY <1>1, PeLoaderAssumption DEF Names

LEMMA ImageOfFinite ==
  ASSUME NEW f, IsFiniteSet(DOMAIN f), f = [x \in DOMAIN f |-> f[x]]
  PROVE  IsFiniteSet({f[x] : x \in DOMAIN f})
  <1> DEFINE T == {f[x] : x \in DOMAIN f}
  <1>1. f \in Surjection(DOMAIN f, T)
    BY DEF Surjection
  <1> QED
    BY <1>1, FS_Surjection

LEMMA TableFinite ==
  ASSUME NEW t, IsTable(t)
  PROVE  IsFiniteSet(DOMAIN t)
  <1>1. PICK n \in Nat : DOMAIN t = 1 .. n
    BY DEF IsTable
  <1> QED
    BY <1>1, FS_Interval, SMTT(30)

LEMMA NamesFinite ==
  ASSUME archive \in Archives
  PROVE  IsFiniteSet(Names)
  <1> DEFINE Dlls(k) == {archive[k].imports[d].dll : d \in DOMAIN archive[k].imports}
             f == [k \in DOMAIN archive |-> Dlls(k)]
  <1>1. ASSUME NEW k \in DOMAIN archive PROVE IsFiniteSet(Dlls(k))
    <2> DEFINE g == [d \in DOMAIN archive[k].imports |-> archive[k].imports[d].dll]
    <2>1. IsFiniteSet(DOMAIN g)
      BY FileFacts, TableFinite
    <2>2. g = [d \in DOMAIN g |-> g[d]] /\ Dlls(k) = {g[d] : d \in DOMAIN g}
      OBVIOUS
    <2> HIDE DEF g, Dlls
    <2> QED
      BY <2>1, <2>2, ImageOfFinite
  <1>2. IsFiniteSet(DOMAIN f)
    BY PeLoaderAssumption, TableFinite
  <1>3. f = [k \in DOMAIN f |-> f[k]]
    OBVIOUS
  <1>4. \A T \in {f[k] : k \in DOMAIN f} : IsFiniteSet(T)
    BY <1>1
  <1>5. Names = {KERNEL} \cup UNION {f[k] : k \in DOMAIN f}
    <2>1. {f[k] : k \in DOMAIN f} = {Dlls(k) : k \in DOMAIN archive}
      OBVIOUS
    <2> QED
      BY <2>1 DEF Names
  <1> HIDE DEF f
  <1>6. IsFiniteSet({f[k] : k \in DOMAIN f})
    BY <1>2, <1>3, ImageOfFinite
  <1>7. IsFiniteSet(UNION {f[k] : k \in DOMAIN f})
    BY <1>4, <1>6, FS_UNION
  <1> QED
    BY <1>5, <1>7, FS_Singleton, FS_Union

-----------------------------------------------------------------------------
(***************************************************************************)
(* The inductive invariant of the PE loader.                               *)
(***************************************************************************)
Act == [name : Names, pc : {"enter", "imports", "loading", "symbols"},
        slot : Slot, dll : Slot, dir : Nat \ {0}, symbol : Nat \ {0}]

Named(s) == slots[s].name # NoName

\* The slots that have got an address.
Placed(s) == s = 0 \/ Named(s - 1)

\* Import directory d of the file with a name.
Import(name, d) == ramfs_file(name).imports[d]

\* The dll that an activation is at.
DllOf(c) == Import(c.name, c.dir).dll

\* The slots are used from the first one on, and images lie behind each other
\* and behind the archive.
Layout ==
  /\ slots \in [AllSlot -> [name : Names \cup {NoName}, load_addr : Nat, image_size : Nat,
                            entry : Nat, stack_size : Nat]]
  /\ slots[STATES_MAX] = Empty
  /\ \A s, t \in AllSlot : s < t /\ Named(t) => Named(s)
  /\ \A s \in AllSlot : ~Named(s) => slots[s] = [Empty EXCEPT !.load_addr = slots[s].load_addr]
  /\ \A s \in Slot : Placed(s) => slots[s].load_addr >= ramfs_get_end
  /\ \A s \in AllSlot : ~Placed(s) => slots[s] = Empty
  /\ \A s, t \in Slot : s < t /\ Placed(t) =>
       slots[s].load_addr + slots[s].image_size <= slots[t].load_addr
  /\ \A s, t \in AllSlot : Named(s) /\ Named(t) /\ slots[s].name = slots[t].name => s = t
  /\ \A s \in AllSlot : Named(s) =>
       LET file == ramfs_file(slots[s].name)
       IN  /\ IsImage(slots[s].name) /\ slots[s].name \in Needed
           /\ slots[s].image_size = file.size /\ slots[s].stack_size = file.stack
           /\ slots[s].entry = slots[s].load_addr + file.entry

\* Memory has the images and nothing else.
Copies ==
  /\ \A s \in AllSlot : Named(s) => \A c \in 0 .. (slots[s].image_size - 1) :
       /\ slots[s].load_addr + c \in DOMAIN mem
       /\ mem[slots[s].load_addr + c] = [file |-> Min(Matches(slots[s].name)), cell |-> c]
  /\ \A a \in DOMAIN mem :
       /\ a \in Nat /\ mem[a].file \in DOMAIN archive
       /\ \E s \in AllSlot : /\ Named(s) /\ slots[s].load_addr <= a
                             /\ a < slots[s].load_addr + slots[s].image_size

\* What an activation knows of its image and of the dll it is at.
Sound(c) ==
  /\ c.name \in Needed
  /\ c.pc = "enter" => c.dir = 1
  /\ c.pc # "enter" => Named(c.slot) /\ slots[c.slot].name = c.name
  /\ c.pc \in {"loading", "symbols"} => c.dir \in DOMAIN ramfs_file(c.name).imports
  /\ c.pc = "symbols" =>
       /\ Named(c.dll) /\ slots[c.dll].name = DllOf(c)
       /\ ramfs_file(DllOf(c)).exports # <<>>

\* The activations but the last one wait for the dll that the next one loads.
Stack ==
  /\ calls \in Seq(Act)
  /\ \A k \in DOMAIN calls :
       /\ Sound(calls[k])
       /\ k < Len(calls) => calls[k].pc = "loading"
       /\ k > 1 => calls[k].name = DllOf(calls[k - 1])

\* What the activation below the returned one is told.
Answered ==
  /\ answer \in Slot \cup {NoAnswer, Failure}
  /\ answer \in Slot => Named(answer)
  /\ calls = <<>> => answer # NoAnswer
  /\ calls # <<>> /\ Running.pc = "loading" =>
       answer # NoAnswer /\ (answer \in Slot => slots[answer].name = DllOf(Running))
  /\ answer = Failure => ~Loadable /\ \A k \in DOMAIN calls : calls[k].pc = "loading"

\* The activations are done with directory d, or with symbol m of it.
PastDir(s, d) ==
  \A k \in DOMAIN calls : calls[k].pc # "enter" /\ calls[k].slot = s => d < calls[k].dir

PastSymbol(s, d, m) ==
  \A k \in DOMAIN calls : calls[k].pc # "enter" /\ calls[k].slot = s =>
    \/ d < calls[k].dir
    \/ d = calls[k].dir /\ calls[k].pc = "symbols" /\ m < calls[k].symbol

Linked(s, d) ==
  LET dll == Import(slots[s].name, d).dll
  IN  /\ ramfs_file(dll).exports # <<>>
      /\ \E t \in AllSlot : Named(t) /\ slots[t].name = dll

Bound(s, d, m) ==
  LET import == Import(slots[s].name, d)
      wanted == import.symbols[m]
  IN  /\ ~wanted.ordinal
      /\ \E t \in AllSlot : \E x \in DOMAIN ramfs_file(import.dll).exports :
           /\ Named(t) /\ slots[t].name = import.dll
           /\ ramfs_file(import.dll).exports[x].name = wanted.name
           /\ iat[s][d][m] = [base  |-> slots[t].load_addr,
                              entry |-> ramfs_file(import.dll).exports[x].entry]

\* Unless loading fails, whatever the activations are done with is bound.
Bindings ==
  /\ DOMAIN iat = AllSlot
  /\ \A s \in AllSlot : Named(s) =>
       LET imports == ramfs_file(slots[s].name).imports
       IN  /\ DOMAIN iat[s] = DOMAIN imports
           /\ \A d \in DOMAIN imports :
                /\ DOMAIN iat[s][d] = DOMAIN imports[d].symbols
                /\ answer # Failure =>
                     /\ PastDir(s, d) => Linked(s, d)
                     /\ \A m \in DOMAIN imports[d].symbols :
                          PastSymbol(s, d, m) => Bound(s, d, m)

PeInv == archive \in Archives /\ Layout /\ Copies /\ Stack /\ Answered /\ Bindings

-----------------------------------------------------------------------------
(***************************************************************************)
(* The stack of activations.                                               *)
(***************************************************************************)
LEMMA FrontFacts ==
  ASSUME NEW S, NEW c \in Seq(S), c # <<>>
  PROVE  /\ Front(c) \in Seq(S) /\ Len(Front(c)) = Len(c) - 1
         /\ Len(c) \in Nat \ {0} /\ DOMAIN c = 1 .. Len(c) /\ Last(c) \in S
         /\ DOMAIN Front(c) = 1 .. (Len(c) - 1)
         /\ \A i \in 1 .. (Len(c) - 1) : Front(c)[i] = c[i]
  <1>1. Len(c) \in Nat \ {0} /\ DOMAIN c = 1 .. Len(c)
    OBVIOUS
  <1>2. Last(c) \in S
    BY <1>1 DEF Last
  <1>3. /\ Front(c) \in Seq(S) /\ Len(Front(c)) = Len(c) - 1
        /\ \A i \in 1 .. (Len(c) - 1) : Front(c)[i] = c[i]
    BY <1>1 DEF Front
  <1> QED
    BY <1>1, <1>2, <1>3

LEMMA ReplaceFacts ==
  ASSUME NEW S, calls \in Seq(S), calls # <<>>, NEW c \in S, Replace(c)
  PROVE  /\ calls' \in Seq(S) /\ Len(calls') = Len(calls) /\ DOMAIN calls' = DOMAIN calls
         /\ calls' # <<>>
         /\ \A i \in DOMAIN calls : i # Len(calls) => calls'[i] = calls[i]
         /\ calls'[Len(calls)] = c /\ Last(calls') = c
  <1>1. PICK f : f = Front(calls)
    OBVIOUS
  <1>2. /\ f \in Seq(S) /\ Len(f) = Len(calls) - 1 /\ Len(calls) \in Nat \ {0}
        /\ DOMAIN calls = 1 .. Len(calls)
        /\ \A i \in 1 .. (Len(calls) - 1) : f[i] = calls[i]
    BY <1>1, FrontFacts
  <1>3. calls' = Append(f, c)
    BY <1>1 DEF Replace
  <1>4. /\ calls' \in Seq(S) /\ Len(calls') = Len(calls)
        /\ \A i \in 1 .. Len(f) : calls'[i] = f[i]
        /\ calls'[Len(calls)] = c
    BY <1>2, <1>3
  <1> QED
    BY <1>2, <1>4 DEF Last

LEMMA ReturnFacts ==
  ASSUME NEW S, calls \in Seq(S), calls # <<>>, NEW result, Return(result)
  PROVE  /\ calls' \in Seq(S) /\ Len(calls') = Len(calls) - 1 /\ answer' = result
         /\ DOMAIN calls' = 1 .. (Len(calls) - 1) /\ Len(calls) \in Nat \ {0}
         /\ DOMAIN calls = 1 .. Len(calls)
         /\ \A i \in DOMAIN calls' : i \in DOMAIN calls /\ i # Len(calls) /\ calls'[i] = calls[i]
         /\ calls' # <<>> => Last(calls') = calls[Len(calls) - 1]
  <1>1. /\ calls' = Front(calls) /\ answer' = result
    BY DEF Return
  <1>2. PICK n : n = Len(calls)
    OBVIOUS
  <1>3. /\ calls' \in Seq(S) /\ Len(calls') = n - 1 /\ n \in Nat \ {0}
        /\ DOMAIN calls = 1 .. n /\ DOMAIN calls' = 1 .. (n - 1)
        /\ \A i \in 1 .. (n - 1) : calls'[i] = calls[i]
    BY <1>1, <1>2, FrontFacts
  <1>4. \A i \in DOMAIN calls' : i \in DOMAIN calls /\ i # n /\ calls'[i] = calls[i]
    BY <1>3
  <1>5. ASSUME calls' # <<>> PROVE Last(calls') = calls[n - 1]
    <2>1. n - 1 \in 1 .. (n - 1)
      BY <1>3, <1>5
    <2> QED
      BY <1>3, <2>1 DEF Last
  <1> QED
    BY <1>1, <1>2, <1>3, <1>4, <1>5

LEMMA PushFacts ==
  ASSUME NEW S, calls \in Seq(S), calls # <<>>, NEW c \in S, NEW d \in S,
         calls' = Append(Front(calls), c) \o <<d>>
  PROVE  /\ calls' \in Seq(S) /\ Len(calls') = Len(calls) + 1
         /\ DOMAIN calls' = 1 .. (Len(calls) + 1) /\ Len(calls) \in Nat \ {0}
         /\ DOMAIN calls = 1 .. Len(calls) /\ calls' # <<>>
         /\ \A i \in DOMAIN calls : i # Len(calls) => calls'[i] = calls[i]
         /\ calls'[Len(calls)] = c /\ calls'[Len(calls) + 1] = d /\ Last(calls') = d
  <1>1. PICK f : f = Front(calls)
    OBVIOUS
  <1>2. /\ f \in Seq(S) /\ Len(f) = Len(calls) - 1 /\ Len(calls) \in Nat \ {0}
        /\ DOMAIN calls = 1 .. Len(calls)
        /\ \A i \in 1 .. (Len(calls) - 1) : f[i] = calls[i]
    BY <1>1, FrontFacts
  <1>3. PICK g : g = Append(f, c)
    OBVIOUS
  <1>4. /\ g \in Seq(S) /\ Len(g) = Len(calls)
        /\ \A i \in 1 .. (Len(calls) - 1) : g[i] = calls[i]
        /\ g[Len(calls)] = c
    BY <1>2, <1>3
  <1>5. PICK n, h : n = Len(calls) /\ h = g \o <<d>>
    OBVIOUS
  <1>6. h \in Seq(S) /\ n \in Nat \ {0} /\ Len(g) = n
    BY <1>2, <1>4, <1>5
  <1>7. Len(h) = n + 1 /\ (\A i \in 1 .. n : h[i] = g[i]) /\ h[n + 1] = d
    BY <1>4, <1>5, <1>6
  <1>8. DOMAIN h = 1 .. (n + 1) /\ h # <<>> /\ Last(h) = d
    BY <1>6, <1>7 DEF Last
  <1>9. calls' = h
    BY <1>1, <1>3, <1>5
  <1>10. ASSUME NEW i \in 1 .. n, i # n PROVE h[i] = calls[i]
    <2>1. i \in 1 .. (n - 1)
      BY <1>6, <1>10
    <2>2. g[i] = calls[i]
      BY <1>4, <1>5, <2>1
    <2> QED
      BY <1>7, <2>2
  <1>11. h[n] = c
    BY <1>4, <1>5, <1>6, <1>7
  <1> QED
    BY <1>2, <1>5, <1>6, <1>7, <1>8, <1>9, <1>10, <1>11

-----------------------------------------------------------------------------
(***************************************************************************)
(* Every step keeps the invariant.                                         *)
(***************************************************************************)
\* What is said of the archive is said for good.
LEMMA ArchiveKept ==
  ASSUME UNCHANGED archive
  PROVE  /\ Names' = Names /\ Needed' = Needed /\ ramfs_get_end' = ramfs_get_end
         /\ Loadable' <=> Loadable
         /\ \A name : /\ (Matches(name))' = Matches(name) /\ (IsImage(name))' = IsImage(name)
                      /\ (ramfs_file(name))' = ramfs_file(name)
         /\ Act' = Act
  <1>1. Names' = Names /\ ramfs_get_end' = ramfs_get_end
    BY DEF Names, ramfs_get_end
  <1>2. Needed' = Needed
    BY <1>1 DEF Needed, ImportedBy, Exists, ramfs_file, Matches
  <1>3. Loadable' <=> Loadable
    BY <1>2 DEF Loadable, Provided, ImportedBy, Exists, ramfs_file, Matches
  <1>4. \A name : /\ (Matches(name))' = Matches(name) /\ (IsImage(name))' = IsImage(name)
                  /\ (ramfs_file(name))' = ramfs_file(name)
    BY DEF IsImage, Exists, ramfs_file, Matches
  <1> QED
    BY <1>1, <1>2, <1>3, <1>4 DEF Act, Slot

LEMMA LayoutKept ==
  ASSUME UNCHANGED <<archive, slots>>, Layout
  PROVE  Layout'
  <1>1. Names' = Names /\ Needed' = Needed /\ ramfs_get_end' = ramfs_get_end
    BY ArchiveKept
  <1> QED
    BY <1>1
    DEF Layout, Named, Placed, AllSlot, Slot, Empty, IsImage, Exists, ramfs_file, Matches, NoName

LEMMA CopiesKept ==
  ASSUME UNCHANGED <<archive, slots, mem>>, Copies
  PROVE  Copies'
  BY DEF Copies, Named, AllSlot, Matches, NoName

\* What is said of an activation or a slot does not depend on the stack.
LEMMA SoundKept ==
  ASSUME UNCHANGED <<archive, slots>>
  PROVE  /\ \A c : ((Sound(c))' <=> Sound(c)) /\ (DllOf(c))' = DllOf(c)
         /\ \A s : (Named(s))' <=> Named(s)
         /\ \A s, d : (Linked(s, d))' <=> Linked(s, d)
  <1>1. Needed' = Needed
    BY ArchiveKept
  <1>2. \A c : (DllOf(c))' = DllOf(c)
    BY DEF DllOf, Import, ramfs_file, Matches
  <1>3. \A s : (Named(s))' <=> Named(s)
    BY DEF Named, NoName
  <1>4. \A c : (Sound(c))' <=> Sound(c)
    BY <1>1 DEF Sound, Named, DllOf, Import, ramfs_file, Matches
  <1>5. \A s, d : (Linked(s, d))' <=> Linked(s, d)
    BY DEF Linked, Import, Named, NoName, AllSlot, ramfs_file, Matches
  <1> QED
    BY <1>2, <1>3, <1>4, <1>5

LEMMA BoundKept ==
  ASSUME UNCHANGED <<archive, slots, iat>>
  PROVE  \A s, d, m : (Bound(s, d, m))' <=> Bound(s, d, m)
  BY DEF Bound, Import, Named, NoName, AllSlot, ramfs_file, Matches

LEMMA RunningFacts ==
  ASSUME PeInv, calls # <<>>
  PROVE  /\ Len(calls) \in Nat \ {0} /\ DOMAIN calls = 1 .. Len(calls)
         /\ Len(calls) \in DOMAIN calls /\ Running = calls[Len(calls)]
         /\ calls \in Seq(Act) /\ Running \in Act /\ Sound(Running)
         /\ Running.name \in Needed /\ Running.name \in Names
  <1>1. calls \in Seq(Act)
    BY DEF PeInv, Stack
  <1>2. /\ Len(calls) \in Nat \ {0} /\ DOMAIN calls = 1 .. Len(calls)
        /\ Running = calls[Len(calls)] /\ Running \in Act
    BY <1>1, FrontFacts DEF Last, Running
  <1>3. Len(calls) \in DOMAIN calls
    BY <1>2
  <1>4. Sound(Running)
    BY <1>2, <1>3 DEF PeInv, Stack
  <1> QED
    BY <1>1, <1>2, <1>3, <1>4, NeededFacts DEF Sound, Act

\* An image is the one that ramfs_file would give.
LEMMA ImageFacts ==
  ASSUME PeInv, NEW s \in AllSlot, Named(s)
  PROVE  /\ Image(s) = ramfs_file(slots[s].name)
         /\ IsImage(slots[s].name) /\ Exists(slots[s].name) /\ s \in Slot
         /\ mem[slots[s].load_addr].file = Min(Matches(slots[s].name))
  <1>1. /\ IsImage(slots[s].name) /\ slots[s].image_size = ramfs_file(slots[s].name).size
        /\ slots[s].load_addr \in Nat
    BY DEF PeInv, Layout
  <1>2. Exists(slots[s].name)
    BY <1>1 DEF IsImage
  <1>3. ramfs_file(slots[s].name).size \in Nat \ {0}
    BY <1>2, FoundFacts, FileFacts DEF PeInv
  <1>4. 0 \in 0 .. (slots[s].image_size - 1) /\ slots[s].load_addr + 0 = slots[s].load_addr
    BY <1>1, <1>3
  <1>5. mem[slots[s].load_addr] = [file |-> Min(Matches(slots[s].name)), cell |-> 0]
    BY <1>4 DEF PeInv, Copies
  <1>6. s # STATES_MAX
    BY DEF PeInv, Layout, Named, Empty
  <1> QED
    BY <1>1, <1>2, <1>5, <1>6, PeLoaderAssumption DEF Image, ramfs_file, AllSlot, Slot

\* An activation answers: it has failed, for a reason, or its image is bound
\* to the dlls of all its directories.
LEMMA ReturnKept ==
  ASSUME PeInv, calls # <<>>, UNCHANGED <<archive, slots, mem, iat>>,
         NEW result \in Slot \cup {Failure}, Return(result),
         result = Failure => ~Loadable,
         result \in Slot =>
           /\ Named(result) /\ slots[result].name = Running.name
           /\ Running.pc # "loading"
           /\ Running.pc # "enter" =>
                \A d \in DOMAIN ramfs_file(Running.name).imports : d < Running.dir
  PROVE  PeInv'
  <1> DEFINE n == Len(calls)
  <1>1. /\ n \in Nat \ {0} /\ DOMAIN calls = 1 .. n /\ n \in DOMAIN calls /\ Running = calls[n]
        /\ calls \in Seq(Act) /\ Sound(Running)
    BY RunningFacts, SMTT(30)
  <1>2. /\ calls' \in Seq(Act) /\ Len(calls') = n - 1 /\ DOMAIN calls' = 1 .. (n - 1)
        /\ answer' = result
        /\ \A i \in DOMAIN calls' : i \in DOMAIN calls /\ i # n /\ calls'[i] = calls[i]
        /\ calls' # <<>> => Last(calls') = calls[n - 1]
    BY <1>1, ReturnFacts, Zenon
  <1> HIDE DEF n
  <1>3. \A i \in DOMAIN calls' : i < n /\ i \in DOMAIN calls /\ calls'[i] = calls[i]
    BY <1>1, <1>2
  <1>4. \A i \in DOMAIN calls :
          /\ Sound(calls[i])
          /\ i < n => calls[i].pc = "loading"
          /\ i > 1 => calls[i].name = DllOf(calls[i - 1])
    BY DEF PeInv, Stack, n
  <1>5. archive' \in Archives /\ Layout' /\ Copies'
    BY LayoutKept, CopiesKept DEF PeInv
  <1>6. Stack'
    <2>1. Act' = Act
      BY ArchiveKept
    <2>2. ASSUME NEW i \in DOMAIN calls'
          PROVE  /\ (Sound(calls[i]))'
                 /\ i < Len(calls') => calls'[i].pc = "loading"
                 /\ i > 1 => calls'[i].name = (DllOf(calls[i - 1]))'
      <3>1. /\ i < n /\ i \in DOMAIN calls /\ calls'[i] = calls[i] /\ calls[i].pc = "loading"
            /\ Sound(calls[i])
            /\ i > 1 => calls[i].name = DllOf(calls[i - 1])
        BY <1>3, <1>4
      <3>2. (Sound(calls[i]))'
        BY <3>1, SoundKept
      <3>3. ASSUME i > 1 PROVE calls'[i].name = (DllOf(calls[i - 1]))'
        <4>1. i - 1 \in DOMAIN calls'
          BY <1>1, <1>2, <3>3
        <4>2. calls'[i - 1] = calls[i - 1]
          BY <1>3, <4>1
        <4>3. calls[i].name = DllOf(calls[i - 1])
          BY <3>1, <3>3
        <4> QED
          BY <3>1, <4>2, <4>3, SoundKept
      <3> QED
        BY <3>1, <3>2, <3>3
    <2> QED
      BY <1>2, <2>1, <2>2 DEF Stack
  <1>7. Answered'
    <2>1. result # NoAnswer
      BY DEF NoAnswer, Failure, Slot
    <2>2. result \in Slot => (Named(result))'
      BY SoundKept
    <2>3. ASSUME calls' # <<>>
          PROVE  result \in Slot => slots[result].name = DllOf(calls[n - 1])
      <3>1. n > 1
        <4>1. Len(calls') # 0
          BY <1>2, <2>3
        <4> QED
          BY <1>1, <1>2, <4>1
      <3>2. calls[n].name = DllOf(calls[n - 1])
        BY <1>1, <1>4, <3>1
      <3> QED
        BY <1>1, <3>2
    <2>4. ASSUME calls' # <<>>, result \in Slot PROVE slots'[result].name = (DllOf(Running))'
      <3>1. Running' = calls[n - 1]
        BY <1>2, <2>4 DEF Running
      <3>2. (DllOf(Running))' = DllOf(calls[n - 1])
        BY <3>1, SoundKept
      <3> QED
        BY <2>3, <2>4, <3>2
    <2>5. result = Failure => ~Loadable' /\ \A k \in DOMAIN calls' : calls'[k].pc = "loading"
      BY <1>3, <1>4, ArchiveKept
    <2> QED
      BY <1>2, <2>1, <2>2, <2>4, <2>5 DEF Answered, Slot
  <1>8. Bindings'
    <2>1. ASSUME result # Failure, NEW s \in AllSlot, Named(s),
                 NEW d \in DOMAIN ramfs_file(slots[s].name).imports
          PROVE  /\ answer # Failure
                 /\ (PastDir(s, d))' => PastDir(s, d)
                 /\ \A m : (PastSymbol(s, d, m))' => PastSymbol(s, d, m)
      <3>1. /\ Named(result) /\ slots[result].name = Running.name
            /\ Running.pc # "loading"
            /\ Running.pc # "enter" =>
                 \A e \in DOMAIN ramfs_file(Running.name).imports : e < Running.dir
        BY <2>1
      <3>2. answer # Failure
        BY <1>1, <3>1 DEF PeInv, Answered
      <3>3. calls[n].pc # "enter" /\ calls[n].slot = s => d < calls[n].dir
        BY <1>1, <2>1, <3>1 DEF Sound
      <3>4. \A i \in DOMAIN calls : i = n \/ (i \in DOMAIN calls' /\ calls'[i] = calls[i])
        <4>1. \A i \in DOMAIN calls : i = n \/ i \in DOMAIN calls'
          BY <1>1, <1>2
        <4> QED
          BY <1>3, <4>1
      <3>5. (PastDir(s, d))' => PastDir(s, d)
        BY <3>3, <3>4 DEF PastDir
      <3>6. \A m : (PastSymbol(s, d, m))' => PastSymbol(s, d, m)
        BY <3>3, <3>4 DEF PastSymbol
      <3> QED
        BY <3>2, <3>5, <3>6
    <2>2. \A s \in AllSlot : \A d : /\ (Linked(s, d))' <=> Linked(s, d)
                                    /\ \A m : (Bound(s, d, m))' <=> Bound(s, d, m)
      BY SoundKept, BoundKept
    <2>3. Bindings
      BY DEF PeInv
    <2>4. /\ \A name : (ramfs_file(name))' = ramfs_file(name)
          /\ \A s : (Named(s))' <=> Named(s)
          /\ AllSlot' = AllSlot
      BY ArchiveKept, SoundKept DEF AllSlot
    <2> QED
      BY <1>2, <2>1, <2>2, <2>3, <2>4 DEF Bindings
  <1> QED
    BY <1>5, <1>6, <1>7, <1>8 DEF PeInv

\* The search for a name stops at its image or, when it is not loaded, at the
\* first free slot.
LEMMA StopFacts ==
  ASSUME PeInv, NEW name, Stops(name) # {}, NEW s, s = Min(Stops(name))
  PROVE  /\ s \in Slot /\ slots[s].name \in {NoName, name}
         /\ \A t \in AllSlot : t < s => Named(t) /\ slots[t].name # name
         /\ ~Named(s) => \A t \in AllSlot : Named(t) <=> t < s
  <1>1. Stops(name) \subseteq Nat
    BY PeLoaderAssumption DEF Stops, Slot
  <1>2. s \in Stops(name) /\ \A t \in Stops(name) : s <= t
    BY <1>1, LeastExists
  <1>3. s \in Slot /\ slots[s].name \in {NoName, name}
    BY <1>2 DEF Stops
  <1>4. ASSUME NEW t \in AllSlot, t < s PROVE Named(t) /\ slots[t].name # name
    <2>1. t \in Slot
      BY <1>3, <1>4, PeLoaderAssumption DEF Slot, AllSlot
    <2>2. t \notin Stops(name)
      BY <1>2, <1>3, <1>4, PeLoaderAssumption DEF Slot, AllSlot
    <2> QED
      BY <2>1, <2>2 DEF Stops, Named
  <1>5. ASSUME ~Named(s), NEW t \in AllSlot, Named(t) PROVE t < s
    <2>1. s \in AllSlot /\ s \in Nat /\ t \in Nat
      BY <1>3, PeLoaderAssumption DEF Slot, AllSlot
    <2>2. ~(s < t)
      BY <1>5, <2>1 DEF PeInv, Layout
    <2> QED
      BY <1>5, <2>1, <2>2
  <1> QED
    BY <1>3, <1>4, <1>5

LEMMA AlreadyLoadedKept ==
  ASSUME PeInv, AlreadyLoaded
  PROVE  PeInv'
  <1>1. PICK name, s : name = Running.name /\ s = Min(Stops(name))
    OBVIOUS
  <1>2. /\ calls # <<>> /\ Running.pc = "enter" /\ Stops(name) # {} /\ slots[s].name = name
        /\ Return(s) /\ UNCHANGED <<archive, slots, mem, iat>>
    BY <1>1 DEF AlreadyLoaded, Entering
  <1>3. s \in Slot
    BY <1>1, <1>2, StopFacts
  <1>4. name # NoName
    BY <1>1, <1>2, RunningFacts, NamesReal DEF PeInv
  <1>5. Named(s)
    BY <1>2, <1>4 DEF Named
  <1>6. s \in Slot \cup {Failure} /\ s # Failure
    BY <1>3 DEF Slot, Failure
  <1> QED
    BY <1>1, <1>2, <1>3, <1>5, <1>6, ReturnKept

\* A table with an image in each slot that is used, and a name more, is too
\* small for what the kernel needs.
LEMMA TableFullKept ==
  ASSUME PeInv, TableFull
  PROVE  PeInv'
  <1>1. PICK name, n : name = Running.name /\ n = STATES_MAX
    OBVIOUS
  <1>2. /\ calls # <<>> /\ Stops(name) = {} /\ Return(Failure)
        /\ UNCHANGED <<archive, slots, mem, iat>>
    BY <1>1 DEF TableFull, Entering
  <1>3. n \in Nat \ {0} /\ Slot = 0 .. (n - 1) /\ AllSlot = 0 .. n
    BY <1>1, PeLoaderAssumption DEF Slot, AllSlot
  <1>4. \A s \in Slot : Named(s) /\ slots[s].name # name
    BY <1>2 DEF Stops, Named
  <1>5. ASSUME Loadable PROVE FALSE
    <2> DEFINE f == [x \in 0 .. n |-> IF x = n THEN name ELSE slots[x].name]
    <2>1. name \in Needed
      BY <1>1, <1>2, RunningFacts
    <2>2. \A x \in 0 .. n : f[x] \in Needed
      <3>1. \A x \in 0 .. n : x # n => x \in Slot
        BY <1>3
      <3>2. \A x \in Slot : slots[x].name \in Needed
        BY <1>3, <1>4 DEF PeInv, Layout
      <3> QED
        BY <2>1, <3>1, <3>2
    <2>3. \A x, y \in 0 .. n : f[x] = f[y] => x = y
      <3> SUFFICES ASSUME NEW x \in 0 .. n, NEW y \in 0 .. n, f[x] = f[y] PROVE x = y
        OBVIOUS
      <3>1. (x # n => x \in Slot) /\ (y # n => y \in Slot)
        BY <1>3
      <3>2. CASE x # n /\ y # n
        <4>1. /\ slots[x].name = slots[y].name /\ Named(x) /\ Named(y)
              /\ x \in AllSlot /\ y \in AllSlot
          BY <1>3, <1>4, <3>1, <3>2
        <4> QED
          BY <4>1 DEF PeInv, Layout
      <3>3. CASE x = n \/ y = n
        BY <1>4, <3>1, <3>3
      <3> QED
        BY <3>2, <3>3
    <2>4. f \in Injection(0 .. n, Needed)
      <3>1. f \in [0 .. n -> Needed]
        BY <2>2
      <3> HIDE DEF f
      <3> QED
        BY <2>3, <3>1 DEF Injection, IsInjective
    <2> HIDE DEF f
    <2>5. IsFiniteSet(Needed)
      BY NamesFinite, NeededFacts, FS_Subset DEF PeInv
    <2>6. Cardinality(0 .. n) <= Cardinality(Needed)
      BY <2>4, <2>5, FS_Injection
    <2>7. Cardinality(0 .. n) = n + 1
      <3>1. 0 \in Int /\ n \in Int /\ ~(0 > n)
        BY <1>3
      <3>2. Cardinality(0 .. n) = IF 0 > n THEN 0 ELSE n - 0 + 1
        BY <3>1, FS_Interval
      <3> QED
        BY <1>3, <3>1, <3>2
    <2>8. Cardinality(Needed) <= n /\ Cardinality(Needed) \in Nat
      BY <1>1, <1>5, <2>5, FS_CardinalityType DEF Loadable
    <2> QED
      BY <1>3, <2>6, <2>7, <2>8
  <1>6. Failure \in Slot \cup {Failure} /\ Failure \notin Slot
    BY DEF Slot, Failure
  <1> QED
    BY <1>2, <1>5, <1>6, ReturnKept

LEMMA NoImageKept ==
  ASSUME PeInv, NoImage
  PROVE  PeInv'
  <1>1. /\ calls # <<>> /\ ~IsImage(Running.name) /\ Return(Failure)
        /\ UNCHANGED <<archive, slots, mem, iat>>
    BY DEF NoImage, Entering
  <1>2. Running.name \in Needed
    BY <1>1, RunningFacts
  <1>3. ~Loadable
    BY <1>1, <1>2 DEF Loadable, IsImage
  <1>4. Failure \in Slot \cup {Failure} /\ Failure \notin Slot
    BY DEF Slot, Failure
  <1> QED
    BY <1>1, <1>3, <1>4, ReturnKept

\* The import directory that an activation is at.
LEMMA DirectoryFacts ==
  ASSUME PeInv, calls # <<>>, Running.pc # "enter"
  PROVE  /\ Running.slot \in AllSlot /\ Running.slot \in Slot /\ Named(Running.slot)
         /\ slots[Running.slot].name = Running.name
         /\ Image(Running.slot) = ramfs_file(Running.name)
         /\ Exists(Running.name)
         /\ Directory = Import(Running.name, Running.dir)
         /\ Running.dir \in DOMAIN ramfs_file(Running.name).imports =>
              /\ Directory \in ImportedBy(Running.name)
              /\ DllOf(Running) \in Needed /\ DllOf(Running) \in Names \ {NoName}
              /\ Directory.dll = DllOf(Running)
              /\ Loadable => Provided(Directory)
  <1>1. /\ Running \in Act /\ Sound(Running) /\ Running.name \in Needed
    BY RunningFacts
  <1>2. /\ Running.slot \in Slot /\ Running.slot \in AllSlot /\ Named(Running.slot)
        /\ slots[Running.slot].name = Running.name
    BY <1>1, PeLoaderAssumption DEF Sound, Act, Slot, AllSlot
  <1>3. Image(Running.slot) = ramfs_file(Running.name) /\ Exists(Running.name)
    BY <1>2, ImageFacts
  <1>4. Directory = Import(Running.name, Running.dir)
    BY <1>3 DEF Directory, Import
  <1>5. ASSUME Running.dir \in DOMAIN ramfs_file(Running.name).imports
        PROVE  /\ Directory \in ImportedBy(Running.name)
               /\ DllOf(Running) \in Needed /\ DllOf(Running) \in Names \ {NoName}
               /\ Directory.dll = DllOf(Running)
               /\ Loadable => Provided(Directory)
    <2>1. Directory \in ImportedBy(Running.name)
      BY <1>3, <1>4, <1>5 DEF ImportedBy, Import
    <2>2. Directory.dll = DllOf(Running) /\ DllOf(Running) \in Names \ {NoName}
      BY <1>3, <1>4, <1>5, ImportFacts DEF DllOf, Import, PeInv
    <2>3. DllOf(Running) \in Needed
      BY <1>1, <2>1, <2>2, NeededFacts
    <2>4. Loadable => Provided(Directory)
      BY <1>1, <2>1 DEF Loadable
    <2> QED
      BY <2>1, <2>2, <2>3, <2>4
  <1> QED
    BY <1>2, <1>3, <1>4, <1>5

LEMMA DllFailsKept ==
  ASSUME PeInv, DllFails
  PROVE  PeInv'
  <1>1. /\ calls # <<>> /\ Running.pc = "loading" /\ ~Usable /\ Return(Failure)
        /\ UNCHANGED <<archive, slots, mem, iat>>
    BY DEF DllFails, Loading
  <1>2. Running.dir \in DOMAIN ramfs_file(Running.name).imports
    BY <1>1, RunningFacts DEF Sound
  <1>3. Directory.dll = DllOf(Running) /\ (Loadable => Provided(Directory))
    BY <1>1, <1>2, DirectoryFacts
  <1>4. ~Loadable
    <2>1. CASE answer = Failure
      BY <2>1 DEF PeInv, Answered
    <2>2. CASE answer # Failure
      <3>1. /\ answer \in Slot /\ answer \in AllSlot /\ Named(answer)
            /\ slots[answer].name = DllOf(Running)
        BY <1>1, <2>2, PeLoaderAssumption DEF PeInv, Answered, Slot, AllSlot
      <3>2. Image(answer) = ramfs_file(DllOf(Running))
        BY <3>1, ImageFacts
      <3>3. ramfs_file(Directory.dll).exports = <<>>
        BY <1>1, <1>3, <2>2, <3>2 DEF Usable
      <3> QED
        BY <1>3, <3>3 DEF Provided
    <2> QED
      BY <2>1, <2>2
  <1>5. Failure \in Slot \cup {Failure} /\ Failure \notin Slot
    BY DEF Slot, Failure
  <1> QED
    BY <1>1, <1>4, <1>5, ReturnKept

\* While symbols are bound.
LEMMA BindingFacts ==
  ASSUME PeInv, Binding
  PROVE  /\ calls # <<>> /\ Running.pc = "symbols" /\ answer # Failure
         /\ Running.dir \in DOMAIN ramfs_file(Running.name).imports
         /\ Running.dll \in AllSlot /\ Named(Running.dll)
         /\ slots[Running.dll].name = DllOf(Running)
         /\ Image(Running.dll) = ramfs_file(DllOf(Running))
         /\ Exists(DllOf(Running)) /\ ramfs_file(DllOf(Running)).exports # <<>>
         /\ Directory.dll = DllOf(Running)
         /\ IsTable(Directory.symbols)
         /\ \A m \in DOMAIN Directory.symbols :
              Directory.symbols[m].hint \in DOMAIN ramfs_file(DllOf(Running)).exports
  <1>1. calls # <<>> /\ Running.pc = "symbols"
    BY DEF Binding
  <1>2. Sound(Running) /\ Running \in Act
    BY <1>1, RunningFacts
  <1>3. /\ Running.dir \in DOMAIN ramfs_file(Running.name).imports
        /\ Running.dll \in AllSlot /\ Named(Running.dll)
        /\ slots[Running.dll].name = DllOf(Running)
        /\ ramfs_file(DllOf(Running)).exports # <<>>
    BY <1>1, <1>2, PeLoaderAssumption DEF Sound, Act, Slot, AllSlot
  <1>4. Image(Running.dll) = ramfs_file(DllOf(Running)) /\ Exists(DllOf(Running))
    BY <1>3, ImageFacts
  <1>5. answer # Failure
    BY <1>1, RunningFacts DEF PeInv, Answered
  <1>6. /\ Directory.dll = DllOf(Running) /\ Exists(Running.name)
        /\ Directory = ramfs_file(Running.name).imports[Running.dir]
    BY <1>1, <1>3, DirectoryFacts DEF Import
  <1>7. /\ IsTable(Directory.symbols)
        /\ Exists(Directory.dll) /\ ramfs_file(Directory.dll).exports # <<>> =>
             \A m \in DOMAIN Directory.symbols :
               Directory.symbols[m].hint \in DOMAIN ramfs_file(Directory.dll).exports
    BY <1>3, <1>6, ImportFacts DEF PeInv
  <1> QED
    BY <1>1, <1>3, <1>4, <1>5, <1>6, <1>7

\* The entries of the name table that the search may stop at have the name.
LEMMA LookupFacts ==
  ASSUME PeInv, Binding, Running.symbol \in DOMAIN Directory.symbols
  PROVE  LET wanted  == Directory.symbols[Running.symbol]
             exports == ramfs_file(DllOf(Running)).exports
         IN  /\ Found # {} <=> /\ ~wanted.ordinal
                               /\ \E x \in DOMAIN exports : exports[x].name = wanted.name
             /\ Found # {} => /\ Min(Found) \in DOMAIN exports
                              /\ exports[Min(Found)].name = wanted.name
  <1> DEFINE wanted  == Directory.symbols[Running.symbol]
             exports == ramfs_file(DllOf(Running)).exports
  <1>1. wanted.hint \in DOMAIN exports /\ Image(Running.dll).exports = exports
    BY BindingFacts
  <1>2. DOMAIN exports \subseteq Nat
    <2>1. Exists(DllOf(Running))
      BY BindingFacts
    <2>2. IsTable(exports)
      BY <2>1, FoundFacts, FileFacts DEF PeInv
    <2> QED
      BY <2>2, TableFacts
  <1>3. Found = IF wanted.ordinal THEN {} ELSE Lookup(exports, wanted)
    BY <1>1 DEF Found
  <1> HIDE DEF wanted, exports
  <1>4. /\ \A x \in Lookup(exports, wanted) : x \in DOMAIN exports /\ exports[x].name = wanted.name
        /\ Lookup(exports, wanted) # {} <=> \E x \in DOMAIN exports : exports[x].name = wanted.name
    BY <1>1 DEF Lookup
  <1>5. /\ \A x \in Found : x \in DOMAIN exports /\ exports[x].name = wanted.name
        /\ Found # {} <=> /\ ~wanted.ordinal
                          /\ \E x \in DOMAIN exports : exports[x].name = wanted.name
    BY <1>3, <1>4
  <1>6. Found # {} => Min(Found) \in Found
    BY <1>2, <1>5, LeastExists
  <1> QED
    BY <1>5, <1>6 DEF wanted, exports

LEMMA NotBoundKept ==
  ASSUME PeInv, NotBound
  PROVE  PeInv'
  <1>1. /\ Binding /\ Running.symbol \in DOMAIN Directory.symbols /\ Found = {}
        /\ Return(Failure) /\ UNCHANGED <<archive, slots, mem, iat>>
    BY DEF NotBound
  <1>2. calls # <<>> /\ Running.pc = "symbols" /\ Directory.dll = DllOf(Running)
    BY <1>1, BindingFacts
  <1>3. Loadable => Provided(Directory)
    BY <1>1, <1>2, BindingFacts, DirectoryFacts
  <1>4. ~Provided(Directory)
    BY <1>1, <1>2, LookupFacts DEF Provided
  <1>5. Failure \in Slot \cup {Failure} /\ Failure \notin Slot
    BY DEF Slot, Failure
  <1> QED
    BY <1>1, <1>2, <1>3, <1>4, <1>5, ReturnKept

LEMMA ImportsBoundKept ==
  ASSUME PeInv, ImportsBound
  PROVE  PeInv'
  <1>1. /\ calls # <<>> /\ Running.pc = "imports" /\ Return(Running.slot)
        /\ Running.dir \notin DOMAIN Image(Running.slot).imports
        /\ UNCHANGED <<archive, slots, mem, iat>>
    BY DEF ImportsBound, AtDirectory
  <1>2. /\ Running.slot \in Slot /\ Named(Running.slot) /\ Exists(Running.name)
        /\ slots[Running.slot].name = Running.name
        /\ Image(Running.slot) = ramfs_file(Running.name)
    BY <1>1, DirectoryFacts
  <1>3. Running.dir \in Nat \ {0}
    BY <1>1, RunningFacts DEF Act
  <1>4. IsTable(ramfs_file(Running.name).imports)
    BY <1>2, FoundFacts, FileFacts DEF PeInv
  <1>5. \A d \in DOMAIN ramfs_file(Running.name).imports : d < Running.dir
    BY <1>1, <1>2, <1>3, <1>4, TableFacts
  <1>6. Running.slot \in Slot \cup {Failure} /\ Running.slot # Failure
    BY <1>2 DEF Slot, Failure
  <1> QED
    BY <1>1, <1>2, <1>5, <1>6, ReturnKept

\* An activation goes on with the image and the name it has.
LEMMA ReplaceKept ==
  ASSUME PeInv, calls # <<>>, UNCHANGED <<archive, slots, mem, answer>>, answer # Failure,
         NEW c \in Act, Replace(c), c.name = Running.name, c.pc \in {"imports", "symbols"},
         Sound(c)
  PROVE  archive' \in Archives /\ Layout' /\ Copies' /\ Stack' /\ Answered'
  <1> DEFINE n == Len(calls)
  <1>1. /\ n \in Nat \ {0} /\ DOMAIN calls = 1 .. n /\ n \in DOMAIN calls /\ Running = calls[n]
        /\ calls \in Seq(Act)
    BY RunningFacts, SMTT(30)
  <1>2. /\ calls' \in Seq(Act) /\ Len(calls') = n /\ DOMAIN calls' = 1 .. n
        /\ \A i \in 1 .. n : i # n => calls'[i] = calls[i]
        /\ calls'[n] = c /\ Last(calls') = c /\ calls' # <<>>
    BY <1>1, ReplaceFacts
  <1>3. \A i \in 1 .. n :
          /\ Sound(calls[i])
          /\ i < n => calls[i].pc = "loading"
          /\ i > 1 => calls[i].name = DllOf(calls[i - 1])
    BY <1>1 DEF PeInv, Stack, n
  <1> HIDE DEF n
  <1>4. archive' \in Archives /\ Layout' /\ Copies'
    BY LayoutKept, CopiesKept DEF PeInv
  <1>5. Stack'
    <2>1. Act' = Act
      BY ArchiveKept
    <2>2. ASSUME NEW i \in 1 .. n
          PROVE  /\ (Sound(calls[i]))'
                 /\ i < n => calls'[i].pc = "loading"
                 /\ i > 1 => calls'[i].name = (DllOf(calls[i - 1]))'
      <3>1. (Sound(calls[i]))'
        BY <1>2, <1>3, SoundKept
      <3>2. i < n => calls'[i].pc = "loading"
        BY <1>2, <1>3
      <3>3. ASSUME i > 1 PROVE calls'[i].name = (DllOf(calls[i - 1]))'
        <4>1. i - 1 \in 1 .. n /\ i - 1 # n
          BY <1>1, <3>3
        <4>2. calls'[i - 1] = calls[i - 1]
          BY <1>2, <4>1
        <4>3. calls'[i].name = calls[i].name
          BY <1>1, <1>2
        <4> QED
          BY <1>3, <3>3, <4>2, <4>3, SoundKept
      <3> QED
        BY <3>1, <3>2, <3>3
    <2> QED
      BY <1>2, <2>1, <2>2 DEF Stack
  <1>6. Answered'
    <2>1. answer \in Slot => (Named(answer))'
      BY SoundKept DEF PeInv, Answered
    <2>2. Running' = c
      BY <1>2 DEF Running
    <2>3. answer' \in Slot' \cup {NoAnswer, Failure} /\ answer' # Failure
      BY DEF PeInv, Answered, Slot
    <2> QED
      BY <1>2, <2>1, <2>2, <2>3 DEF Answered, Slot
  <1> QED
    BY <1>4, <1>5, <1>6

\* Whatever is done with after the step was done with before, or is bound now.
LEMMA BindingsKept ==
  ASSUME PeInv, UNCHANGED <<archive, slots, iat>>, answer # Failure,
         \A s \in AllSlot : Named(s) =>
           \A d \in DOMAIN ramfs_file(slots[s].name).imports :
             /\ (PastDir(s, d))' => PastDir(s, d) \/ Linked(s, d)
             /\ \A m \in DOMAIN ramfs_file(slots[s].name).imports[d].symbols :
                  (PastSymbol(s, d, m))' => PastSymbol(s, d, m)
  PROVE  Bindings'
  <1>1. \A s \in AllSlot : \A d : /\ (Linked(s, d))' <=> Linked(s, d)
                                  /\ \A m : (Bound(s, d, m))' <=> Bound(s, d, m)
    BY SoundKept, BoundKept
  <1>2. Bindings
    BY DEF PeInv
  <1>3. /\ \A name : (ramfs_file(name))' = ramfs_file(name)
        /\ \A s : (Named(s))' <=> Named(s)
        /\ AllSlot' = AllSlot
    BY ArchiveKept, SoundKept DEF AllSlot
  <1> QED
    BY <1>1, <1>2, <1>3 DEF Bindings

\* The activations below the running one are as they were, and so what is said
\* of all activations is a matter of the running one.
LEMMA PastReplaced ==
  ASSUME calls \in Seq(Act), calls # <<>>, NEW c \in Act, Replace(c), c.slot = Running.slot,
         Running.pc # "enter", c.pc # "enter", NEW s, NEW d
  PROVE  /\ (PastDir(s, d))' =>
              \/ PastDir(s, d)
              \/ s = c.slot /\ d < c.dir /\ ~(d < Running.dir)
         /\ \A m : (PastSymbol(s, d, m))' =>
              \/ PastSymbol(s, d, m)
              \/ /\ s = c.slot
                 /\ d < c.dir \/ (d = c.dir /\ c.pc = "symbols" /\ m < c.symbol)
                 /\ ~(d < Running.dir)
                 /\ ~(d = Running.dir /\ Running.pc = "symbols" /\ m < Running.symbol)
  <1> DEFINE n == Len(calls)
  <1>1. /\ n \in DOMAIN calls /\ Running = calls[n] /\ DOMAIN calls' = DOMAIN calls
        /\ \A i \in DOMAIN calls : i # n => calls'[i] = calls[i]
        /\ calls'[n] = c
    <2>1. n \in DOMAIN calls /\ Running = calls[n]
      BY FrontFacts DEF Running, Last
    <2> QED
      BY <2>1, ReplaceFacts
  <1> HIDE DEF n
  <1>2. (PastDir(s, d))' =>
          PastDir(s, d) \/ (s = c.slot /\ d < c.dir /\ ~(d < Running.dir))
    BY <1>1 DEF PastDir
  <1>3. ASSUME NEW m, (PastSymbol(s, d, m))', ~PastSymbol(s, d, m)
        PROVE  /\ s = c.slot
               /\ d < c.dir \/ (d = c.dir /\ c.pc = "symbols" /\ m < c.symbol)
               /\ ~(d < Running.dir)
               /\ ~(d = Running.dir /\ Running.pc = "symbols" /\ m < Running.symbol)
    BY <1>1, <1>3 DEF PastSymbol
  <1> QED
    BY <1>2, <1>3

LEMMA ActFacts ==
  ASSUME NEW r \in Act, NEW step \in {"imports", "loading", "symbols"},
         NEW slot \in Slot, NEW dll \in Slot, NEW dir \in Nat \ {0}, NEW symbol \in Nat \ {0},
         NEW c, c = [name |-> r.name, pc |-> step, slot |-> slot, dll |-> dll, dir |-> dir,
                     symbol |-> symbol]
  PROVE  /\ c \in Act /\ c.name = r.name /\ c.pc = step /\ c.slot = slot
         /\ c.dll = dll /\ c.dir = dir /\ c.symbol = symbol
  BY DEF Act

LEMMA ActFields ==
  ASSUME NEW r \in Act
  PROVE  /\ r = [name |-> r.name, pc |-> r.pc, slot |-> r.slot, dll |-> r.dll, dir |-> r.dir,
                 symbol |-> r.symbol]
         /\ r.name \in Names /\ r.slot \in Slot /\ r.dll \in Slot
         /\ r.dir \in Nat \ {0} /\ r.symbol \in Nat \ {0}
  BY DEF Act

LEMMA DllLoadedKept ==
  ASSUME PeInv, DllLoaded
  PROVE  PeInv'
  <1>1. PICK c : c = [Running EXCEPT !.pc = "symbols", !.dll = answer, !.symbol = 1]
    OBVIOUS
  <1>2. /\ calls # <<>> /\ Running.pc = "loading" /\ Usable /\ Replace(c)
        /\ UNCHANGED <<archive, slots, mem, iat, answer>>
    BY <1>1 DEF DllLoaded, Loading
  <1>3. Running \in Act /\ Sound(Running) /\ calls \in Seq(Act)
    BY <1>2, RunningFacts
  <1>4. /\ answer # Failure /\ answer \in Slot /\ answer \in AllSlot /\ Named(answer)
        /\ slots[answer].name = DllOf(Running)
    BY <1>2, PeLoaderAssumption DEF PeInv, Answered, Usable, Slot, AllSlot
  <1>5. ramfs_file(DllOf(Running)).exports # <<>>
    BY <1>2, <1>4, ImageFacts DEF Usable
  <1>6. /\ c \in Act /\ c.name = Running.name /\ c.pc = "symbols" /\ c.slot = Running.slot
        /\ c.dir = Running.dir /\ c.symbol = 1 /\ c.dll = answer
    <2>1. PICK one, r, step : one = 1 /\ r = Running /\ step = "symbols"
      OBVIOUS
    <2>2. one \in Nat \ {0} /\ step \in {"imports", "loading", "symbols"}
      BY <2>1
    <2>3. /\ r \in Act /\ r.slot \in Slot /\ r.dir \in Nat \ {0}
          /\ r = [name |-> r.name, pc |-> r.pc, slot |-> r.slot, dll |-> r.dll, dir |-> r.dir,
                  symbol |-> r.symbol]
      BY <1>3, <2>1, ActFields
    <2>4. c = [r EXCEPT !.pc = step, !.dll = answer, !.symbol = one]
      BY <1>1, <2>1
    <2>5. c = [name |-> r.name, pc |-> step, slot |-> r.slot, dll |-> answer, dir |-> r.dir,
               symbol |-> one]
      BY <2>3, <2>4
    <2>6. /\ c \in Act /\ c.name = r.name /\ c.pc = step /\ c.slot = r.slot
          /\ c.dll = answer /\ c.dir = r.dir /\ c.symbol = one
      BY <1>4, <2>2, <2>3, <2>5, ActFacts
    <2> QED
      BY <2>1, <2>6
  <1>7. DllOf(c) = DllOf(Running)
    BY <1>6 DEF DllOf
  <1>8. Sound(c)
    BY <1>2, <1>3, <1>4, <1>5, <1>6, <1>7 DEF Sound
  <1>9. archive' \in Archives /\ Layout' /\ Copies' /\ Stack' /\ Answered'
    BY <1>2, <1>4, <1>6, <1>8, ReplaceKept
  <1>10. ASSUME NEW s \in AllSlot, Named(s),
                NEW d \in DOMAIN ramfs_file(slots[s].name).imports
         PROVE  /\ (PastDir(s, d))' => PastDir(s, d)
                /\ \A m \in DOMAIN ramfs_file(slots[s].name).imports[d].symbols :
                     (PastSymbol(s, d, m))' => PastSymbol(s, d, m)
    <2>1. Exists(slots[s].name)
      BY <1>10, ImageFacts
    <2>2. \A m \in DOMAIN ramfs_file(slots[s].name).imports[d].symbols : ~(m < 1)
      <3>1. IsTable(ramfs_file(slots[s].name).imports[d].symbols)
        BY <2>1, ImportFacts DEF PeInv
      <3> QED
        BY <3>1, TableFacts
    <2>3. (PastDir(s, d))' => PastDir(s, d)
      BY <1>2, <1>3, <1>6, PastReplaced
    <2>4. ASSUME NEW m \in DOMAIN ramfs_file(slots[s].name).imports[d].symbols,
                 (PastSymbol(s, d, m))'
          PROVE  PastSymbol(s, d, m)
      BY <1>2, <1>3, <1>6, <2>2, <2>4, PastReplaced
    <2> QED
      BY <2>3, <2>4
  <1>11. Bindings'
    BY <1>2, <1>4, <1>10, BindingsKept
  <1> QED
    BY <1>9, <1>11 DEF PeInv

LEMMA DirectoryBoundKept ==
  ASSUME PeInv, DirectoryBound
  PROVE  PeInv'
  <1>1. PICK r, c : r = Running /\ c = [r EXCEPT !.pc = "imports", !.dir = @ + 1]
    OBVIOUS
  <1>2. /\ Binding /\ Running.symbol \notin DOMAIN Directory.symbols /\ Replace(c)
        /\ UNCHANGED <<archive, slots, mem, iat, answer>>
    BY <1>1 DEF DirectoryBound
  <1>3. /\ calls # <<>> /\ Running.pc = "symbols" /\ answer # Failure
        /\ Running.dir \in DOMAIN ramfs_file(Running.name).imports
        /\ Running.dll \in AllSlot /\ Named(Running.dll)
        /\ slots[Running.dll].name = DllOf(Running)
        /\ ramfs_file(DllOf(Running)).exports # <<>>
        /\ IsTable(Directory.symbols)
    BY <1>2, BindingFacts
  <1>4. /\ Running \in Act /\ Sound(Running) /\ calls \in Seq(Act)
        /\ slots[Running.slot].name = Running.name
        /\ Directory = Import(Running.name, Running.dir)
    BY <1>3, RunningFacts, DirectoryFacts
  <1>5. /\ c \in Act /\ c.name = Running.name /\ c.pc = "imports" /\ c.slot = Running.slot
        /\ c.dir = Running.dir + 1
    <2>1. PICK step, next : step = "imports" /\ next = r.dir + 1
      OBVIOUS
    <2>2. /\ r \in Act /\ r.slot \in Slot /\ r.dll \in Slot /\ r.symbol \in Nat \ {0}
          /\ r.dir \in Nat \ {0}
          /\ r = [name |-> r.name, pc |-> r.pc, slot |-> r.slot, dll |-> r.dll, dir |-> r.dir,
                  symbol |-> r.symbol]
      BY <1>1, <1>4, ActFields
    <2>3. next \in Nat \ {0} /\ step \in {"imports", "loading", "symbols"}
      BY <2>1, <2>2
    <2>4. c = [r EXCEPT !.pc = step, !.dir = next]
      BY <1>1, <2>1
    <2>5. c = [name |-> r.name, pc |-> step, slot |-> r.slot, dll |-> r.dll, dir |-> next,
               symbol |-> r.symbol]
      BY <2>2, <2>4
    <2>6. /\ c \in Act /\ c.name = r.name /\ c.pc = step /\ c.slot = r.slot /\ c.dir = next
      BY <2>2, <2>3, <2>5, ActFacts
    <2> QED
      BY <1>1, <2>1, <2>6
  <1>6. Sound(c)
    BY <1>3, <1>4, <1>5 DEF Sound
  <1>7. archive' \in Archives /\ Layout' /\ Copies' /\ Stack' /\ Answered'
    BY <1>2, <1>3, <1>5, <1>6, ReplaceKept
  <1>8. Running.dir \in Nat \ {0} /\ Running.symbol \in Nat \ {0}
    BY <1>4, ActFields
  <1>9. ASSUME NEW s \in AllSlot, Named(s),
               NEW d \in DOMAIN ramfs_file(slots[s].name).imports
        PROVE  /\ (PastDir(s, d))' => PastDir(s, d) \/ Linked(s, d)
               /\ \A m \in DOMAIN ramfs_file(slots[s].name).imports[d].symbols :
                    (PastSymbol(s, d, m))' => PastSymbol(s, d, m)
    <2>1. d \in Nat
      <3>1. IsTable(ramfs_file(slots[s].name).imports)
        BY <1>9, ImageFacts, FoundFacts, FileFacts DEF PeInv
      <3> QED
        BY <3>1, TableFacts
    <2>2. d < c.dir /\ ~(d < Running.dir) => d = Running.dir
      BY <1>5, <1>8, <2>1
    <2>3. ASSUME s = Running.slot, d = Running.dir PROVE Linked(s, d)
      BY <1>3, <1>4, <2>3 DEF Linked, DllOf, Import
    <2>4. (PastDir(s, d))' => PastDir(s, d) \/ Linked(s, d)
      <3>1. (PastDir(s, d))' =>
              PastDir(s, d) \/ (s = c.slot /\ d < c.dir /\ ~(d < Running.dir))
        BY <1>2, <1>3, <1>4, <1>5, PastReplaced
      <3> QED
        BY <1>5, <2>2, <2>3, <3>1
    <2>5. ASSUME NEW m \in DOMAIN ramfs_file(slots[s].name).imports[d].symbols,
                 (PastSymbol(s, d, m))'
          PROVE  PastSymbol(s, d, m)
      <3>1. \/ PastSymbol(s, d, m)
            \/ /\ s = c.slot /\ d < c.dir /\ ~(d < Running.dir)
               /\ ~(d = Running.dir /\ Running.pc = "symbols" /\ m < Running.symbol)
        BY <1>2, <1>3, <1>4, <1>5, <2>5, PastReplaced
      <3>2. ASSUME s = Running.slot, d = Running.dir PROVE m < Running.symbol
        <4>1. m \in DOMAIN Directory.symbols
          BY <1>4, <2>5, <3>2 DEF Import
        <4> QED
          BY <1>2, <1>3, <1>8, <4>1, TableFacts
      <3> QED
        BY <1>3, <1>5, <2>2, <3>1, <3>2
    <2> QED
      BY <2>4, <2>5
  <1>10. Bindings'
    BY <1>2, <1>3, <1>9, BindingsKept
  <1> QED
    BY <1>7, <1>10 DEF PeInv

\* A symbol stays bound when its entry is left alone.
LEMMA BoundStays ==
  ASSUME UNCHANGED <<archive, slots>>, NEW s, NEW d, NEW m, iat'[s][d][m] = iat[s][d][m],
         Bound(s, d, m)
  PROVE  (Bound(s, d, m))'
  BY ZenonT(60) DEF Bound, Import, Named, NoName, AllSlot, ramfs_file, Matches

LEMMA BindKept ==
  ASSUME PeInv, Bind
  PROVE  PeInv'
  <1>1. PICK r, c : r = Running /\ c = [r EXCEPT !.symbol = @ + 1]
    OBVIOUS
  <1> DEFINE entry == [base  |-> slots[Running.dll].load_addr,
                       entry |-> Image(Running.dll).exports[Min(Found)].entry]
  <1>2. /\ Binding /\ Running.symbol \in DOMAIN Directory.symbols /\ Replace(c)
        /\ Found # {} /\ UNCHANGED <<archive, slots, mem, answer>>
        /\ iat' = [iat EXCEPT ![Running.slot][Running.dir][Running.symbol] = entry]
    BY <1>1 DEF Bind, NextSymbol
  <1>3. /\ calls # <<>> /\ Running.pc = "symbols" /\ answer # Failure
        /\ Running.dir \in DOMAIN ramfs_file(Running.name).imports
        /\ Running.dll \in AllSlot /\ Named(Running.dll)
        /\ slots[Running.dll].name = DllOf(Running)
        /\ Image(Running.dll) = ramfs_file(DllOf(Running))
        /\ Directory.dll = DllOf(Running)
    BY <1>2, BindingFacts
  <1>4. /\ Running \in Act /\ Sound(Running) /\ calls \in Seq(Act)
        /\ slots[Running.slot].name = Running.name
        /\ Running.slot \in AllSlot /\ Named(Running.slot)
        /\ Directory = Import(Running.name, Running.dir)
    BY <1>3, RunningFacts, DirectoryFacts
  <1>5. /\ c \in Act /\ c.name = Running.name /\ c.pc = "symbols" /\ c.slot = Running.slot
        /\ c.dir = Running.dir /\ c.symbol = Running.symbol + 1 /\ c.dll = Running.dll
    <2>1. PICK step, next : step = "symbols" /\ next = r.symbol + 1
      OBVIOUS
    <2>2. /\ r \in Act /\ r.slot \in Slot /\ r.dll \in Slot /\ r.symbol \in Nat \ {0}
          /\ r.dir \in Nat \ {0} /\ r.pc = step
          /\ r = [name |-> r.name, pc |-> r.pc, slot |-> r.slot, dll |-> r.dll, dir |-> r.dir,
                  symbol |-> r.symbol]
      BY <1>1, <1>3, <1>4, <2>1, ActFields
    <2>3. next \in Nat \ {0} /\ step \in {"imports", "loading", "symbols"}
      BY <2>1, <2>2
    <2>4. c = [r EXCEPT !.symbol = next]
      BY <1>1, <2>1
    <2>5. c = [name |-> r.name, pc |-> step, slot |-> r.slot, dll |-> r.dll, dir |-> r.dir,
               symbol |-> next]
      BY <2>2, <2>4
    <2>6. /\ c \in Act /\ c.name = r.name /\ c.pc = step /\ c.slot = r.slot /\ c.dir = r.dir
          /\ c.symbol = next /\ c.dll = r.dll
      BY <2>2, <2>3, <2>5, ActFacts
    <2> QED
      BY <1>1, <2>1, <2>6
  <1>6. Sound(c)
    BY <1>3, <1>4, <1>5 DEF Sound, DllOf
  <1>7. archive' \in Archives /\ Layout' /\ Copies' /\ Stack' /\ Answered'
    BY <1>2, <1>3, <1>5, <1>6, ReplaceKept
  <1>8. /\ DOMAIN iat = AllSlot
        /\ \A s \in AllSlot : Named(s) =>
             LET imports == ramfs_file(slots[s].name).imports
             IN  /\ DOMAIN iat[s] = DOMAIN imports
                 /\ \A d \in DOMAIN imports :
                      /\ DOMAIN iat[s][d] = DOMAIN imports[d].symbols
                      /\ PastDir(s, d) => Linked(s, d)
                      /\ \A m \in DOMAIN imports[d].symbols :
                           PastSymbol(s, d, m) => Bound(s, d, m)
    BY <1>3 DEF PeInv, Bindings
  <1>9. /\ DOMAIN iat' = AllSlot
        /\ \A s \in AllSlot :
             /\ DOMAIN iat'[s] = DOMAIN iat[s]
             /\ \A d \in DOMAIN iat[s] :
                  /\ DOMAIN iat'[s][d] = DOMAIN iat[s][d]
                  /\ \A m \in DOMAIN iat[s][d] :
                       iat'[s][d][m] = IF s = Running.slot /\ d = Running.dir /\ m = Running.symbol
                                       THEN entry ELSE iat[s][d][m]
    <2> HIDE DEF entry
    <2> QED
      BY <1>2, <1>4, <1>8
  <1> PICK slot, dir, symbol : /\ slot = Running.slot /\ dir = Running.dir
                               /\ symbol = Running.symbol
    OBVIOUS
  <1>10. (Bound(slot, dir, symbol))'
    <2>1. /\ Found # {} <=> /\ ~Directory.symbols[Running.symbol].ordinal
                            /\ \E x \in DOMAIN ramfs_file(DllOf(Running)).exports :
                                 ramfs_file(DllOf(Running)).exports[x].name
                                   = Directory.symbols[Running.symbol].name
          /\ Found # {} => /\ Min(Found) \in DOMAIN ramfs_file(DllOf(Running)).exports
                           /\ ramfs_file(DllOf(Running)).exports[Min(Found)].name
                                = Directory.symbols[Running.symbol].name
      BY <1>2, LookupFacts
    <2> PICK t, x, dll : t = Running.dll /\ x = Min(Found) /\ dll = DllOf(Running)
      OBVIOUS
    <2>2. /\ Import(slots[slot].name, dir) = Directory /\ Directory.dll = dll
          /\ ~Directory.symbols[symbol].ordinal
          /\ t \in AllSlot /\ Named(t) /\ slots[t].name = dll
          /\ x \in DOMAIN ramfs_file(dll).exports
          /\ ramfs_file(dll).exports[x].name = Directory.symbols[symbol].name
      BY <1>2, <1>3, <1>4, <2>1
    <2>3. iat'[slot][dir][symbol] = [base  |-> slots[t].load_addr,
                                     entry |-> ramfs_file(dll).exports[x].entry]
      <3>1. slot \in AllSlot /\ dir \in DOMAIN iat[slot] /\ symbol \in DOMAIN iat[slot][dir]
        <4>1. DOMAIN iat[slot] = DOMAIN ramfs_file(Running.name).imports
          BY <1>4, <1>8
        <4>2. DOMAIN iat[slot][dir] = DOMAIN ramfs_file(Running.name).imports[dir].symbols
          BY <1>3, <1>4, <1>8
        <4> QED
          BY <1>2, <1>3, <1>4, <4>1, <4>2 DEF Import
      <3>2. iat'[slot][dir][symbol] = entry
        BY <1>9, <3>1
      <3> QED
        BY <1>3, <3>2
    <2>4. /\ (Import(slots[slot].name, dir))' = Directory
          /\ (Named(t))' /\ slots'[t] = slots[t] /\ AllSlot' = AllSlot
          /\ (ramfs_file(dll))' = ramfs_file(dll)
      <3>1. (Import(slots[slot].name, dir))' = Import(slots[slot].name, dir)
        BY <1>2 DEF Import, ramfs_file, Matches
      <3> QED
        BY <1>2, <2>2, <3>1, ArchiveKept, SoundKept DEF AllSlot
    <2> HIDE DEF entry
    <2>5. (Bound(slot, dir, symbol))'
      BY <2>2, <2>3, <2>4 DEF Bound
    <2> QED
      BY <2>5
  <1> HIDE DEF entry
  <1>11. ASSUME NEW s \in AllSlot, Named(s),
                NEW d \in DOMAIN ramfs_file(slots[s].name).imports
         PROVE  /\ DOMAIN iat'[s] = DOMAIN ramfs_file(slots[s].name).imports
                /\ DOMAIN iat'[s][d] = DOMAIN ramfs_file(slots[s].name).imports[d].symbols
                /\ (PastDir(s, d))' => (Linked(s, d))'
                /\ \A m \in DOMAIN ramfs_file(slots[s].name).imports[d].symbols :
                     (PastSymbol(s, d, m))' => (Bound(s, d, m))'
    <2>1. /\ DOMAIN iat[s] = DOMAIN ramfs_file(slots[s].name).imports
          /\ DOMAIN iat[s][d] = DOMAIN ramfs_file(slots[s].name).imports[d].symbols
          /\ PastDir(s, d) => Linked(s, d)
          /\ \A m \in DOMAIN ramfs_file(slots[s].name).imports[d].symbols :
               PastSymbol(s, d, m) => Bound(s, d, m)
      BY <1>8, <1>11
    <2>2. /\ DOMAIN iat'[s] = DOMAIN iat[s] /\ DOMAIN iat'[s][d] = DOMAIN iat[s][d]
          /\ \A m \in DOMAIN iat[s][d] :
               ~(s = slot /\ d = dir /\ m = symbol) => iat'[s][d][m] = iat[s][d][m]
      BY <1>9, <1>11, <2>1
    <2>3. (PastDir(s, d))' => (Linked(s, d))'
      <3>1. (PastDir(s, d))' =>
              PastDir(s, d) \/ (s = c.slot /\ d < c.dir /\ ~(d < Running.dir))
        BY <1>2, <1>3, <1>4, <1>5, PastReplaced
      <3>2. (Linked(s, d))' <=> Linked(s, d)
        BY <1>2, SoundKept
      <3> QED
        BY <1>5, <2>1, <3>1, <3>2
    <2>4. ASSUME NEW m \in DOMAIN ramfs_file(slots[s].name).imports[d].symbols,
                 (PastSymbol(s, d, m))'
          PROVE  (Bound(s, d, m))'
      <3>1. CASE s = slot /\ d = dir /\ m = symbol
        BY <1>10, <3>1
      <3>2. CASE ~(s = slot /\ d = dir /\ m = symbol)
        <4>1. PastSymbol(s, d, m)
          <5>1. \/ PastSymbol(s, d, m)
                \/ /\ s = c.slot
                   /\ d < c.dir \/ (d = c.dir /\ c.pc = "symbols" /\ m < c.symbol)
                   /\ ~(d < Running.dir)
                   /\ ~(d = Running.dir /\ Running.pc = "symbols" /\ m < Running.symbol)
            BY <1>2, <1>3, <1>4, <1>5, <2>4, PastReplaced
          <5>2. m \in Nat /\ symbol \in Nat
            <6>1. IsTable(ramfs_file(slots[s].name).imports[d].symbols)
              BY <1>11, ImageFacts, ImportFacts DEF PeInv
            <6>2. m \in Nat
              BY <2>4, <6>1, TableFacts
            <6> QED
              BY <1>4, <6>2, ActFields
          <5>3. m < symbol + 1 /\ ~(m < symbol) => m = symbol
            BY <5>2
          <5> QED
            BY <1>3, <1>5, <3>2, <5>1, <5>3
        <4>2. iat'[s][d][m] = iat[s][d][m]
          BY <2>1, <2>2, <2>4, <3>2
        <4> QED
          BY <1>2, <2>1, <2>4, <4>1, <4>2, BoundStays
      <3> QED
        BY <3>1, <3>2
    <2> QED
      BY <2>1, <2>2, <2>3, <2>4
  <1>12. Bindings'
    <2>1. /\ \A name : (ramfs_file(name))' = ramfs_file(name)
          /\ \A s : (Named(s))' <=> Named(s)
          /\ AllSlot' = AllSlot /\ DOMAIN iat' = AllSlot
      BY <1>2, <1>9, ArchiveKept, SoundKept DEF AllSlot
    <2>2. \A s \in AllSlot : Named(s) => DOMAIN iat'[s] = DOMAIN ramfs_file(slots[s].name).imports
      BY <1>8, <1>9
    <2> QED
      BY <1>2, <1>11, <2>1, <2>2 DEF Bindings
  <1> QED
    BY <1>7, <1>12 DEF PeInv

LEMMA CallFacts ==
  ASSUME NEW name \in Names
  PROVE  /\ Call(name) \in Act /\ Call(name).name = name /\ Call(name).pc = "enter"
         /\ Call(name).dir = 1
  BY PeLoaderAssumption DEF Call, Act, Slot

LEMMA LoadDllKept ==
  ASSUME PeInv, LoadDll
  PROVE  PeInv'
  <1>1. PICK r, c, dll : r = Running /\ c = [r EXCEPT !.pc = "loading"] /\ dll = DllOf(Running)
    OBVIOUS
  <1>2. /\ calls # <<>> /\ Running.pc = "imports"
        /\ Running.dir \in DOMAIN Image(Running.slot).imports
        /\ calls' = Append(Front(calls), c)
                      \o <<Call(Image(Running.slot).imports[Running.dir].dll)>>
        /\ answer' = NoAnswer /\ UNCHANGED <<archive, slots, mem, iat>>
    BY <1>1 DEF LoadDll, AtDirectory
  <1>3. /\ Running \in Act /\ Sound(Running) /\ calls \in Seq(Act)
        /\ Image(Running.slot) = ramfs_file(Running.name)
    BY <1>2, RunningFacts, DirectoryFacts
  <1>4. /\ Running.dir \in DOMAIN ramfs_file(Running.name).imports
        /\ dll \in Needed /\ dll \in Names
        /\ Image(Running.slot).imports[Running.dir].dll = dll
    <2>1. Running.dir \in DOMAIN ramfs_file(Running.name).imports
      BY <1>2, <1>3
    <2>2. dll \in Needed /\ dll \in Names
      BY <1>1, <1>2, <2>1, DirectoryFacts
    <2> QED
      BY <1>1, <1>3, <2>1, <2>2 DEF DllOf, Import
  <1>5. /\ c \in Act /\ c.name = Running.name /\ c.pc = "loading" /\ c.slot = Running.slot
        /\ c.dir = Running.dir
    <2>1. PICK step : step = "loading"
      OBVIOUS
    <2>2. /\ r \in Act /\ r.slot \in Slot /\ r.dll \in Slot /\ r.symbol \in Nat \ {0}
          /\ r.dir \in Nat \ {0} /\ step \in {"imports", "loading", "symbols"}
          /\ r = [name |-> r.name, pc |-> r.pc, slot |-> r.slot, dll |-> r.dll, dir |-> r.dir,
                  symbol |-> r.symbol]
      BY <1>1, <1>3, <2>1, ActFields
    <2>3. c = [r EXCEPT !.pc = step]
      BY <1>1, <2>1
    <2>4. c = [name |-> r.name, pc |-> step, slot |-> r.slot, dll |-> r.dll, dir |-> r.dir,
               symbol |-> r.symbol]
      BY <2>2, <2>3
    <2>5. /\ c \in Act /\ c.name = r.name /\ c.pc = step /\ c.slot = r.slot /\ c.dir = r.dir
      BY <2>2, <2>4, ActFacts
    <2> QED
      BY <1>1, <2>1, <2>5
  <1>6. Sound(c) /\ DllOf(c) = dll
    BY <1>1, <1>2, <1>3, <1>4, <1>5 DEF Sound, DllOf
  <1>7. PICK e : e = Call(dll)
    OBVIOUS
  <1>8. e \in Act /\ e.name = dll /\ e.pc = "enter" /\ Sound(e)
    BY <1>4, <1>7, CallFacts DEF Sound
  <1>9. PICK n : n = Len(calls)
    OBVIOUS
  <1>10. /\ n \in Nat \ {0} /\ DOMAIN calls = 1 .. n /\ n \in DOMAIN calls /\ Running = calls[n]
    BY <1>2, <1>9, RunningFacts
  <1>11. calls' = Append(Front(calls), c) \o <<e>>
    BY <1>2, <1>4, <1>7
  <1>12. /\ calls' \in Seq(Act) /\ Len(calls') = n + 1 /\ DOMAIN calls' = 1 .. (n + 1)
         /\ calls' # <<>> /\ \A i \in 1 .. n : i # n => calls'[i] = calls[i]
         /\ calls'[n] = c /\ calls'[n + 1] = e /\ Last(calls') = e
    <2>1. /\ calls' \in Seq(Act) /\ Len(calls') = Len(calls) + 1
          /\ DOMAIN calls' = 1 .. (Len(calls) + 1)
          /\ calls' # <<>>
          /\ \A i \in DOMAIN calls : i # Len(calls) => calls'[i] = calls[i]
          /\ calls'[Len(calls)] = c /\ calls'[Len(calls) + 1] = e /\ Last(calls') = e
      <3>1. calls \in Seq(Act) /\ calls # <<>> /\ c \in Act /\ e \in Act
        BY <1>2, <1>3, <1>5, <1>8
      <3> QED
        BY <3>1, <1>11, PushFacts
    <2> QED
      BY <1>9, <1>10, <2>1, Zenon
  <1>13. \A i \in 1 .. n :
           /\ Sound(calls[i])
           /\ i < n => calls[i].pc = "loading"
           /\ i > 1 => calls[i].name = DllOf(calls[i - 1])
    BY <1>9, <1>10 DEF PeInv, Stack
  <1>14. archive' \in Archives /\ Layout' /\ Copies'
    BY <1>2, LayoutKept, CopiesKept DEF PeInv
  <1>15. Stack'
    <2>1. Act' = Act
      BY <1>2, ArchiveKept
    <2>2. ASSUME NEW i \in 1 .. (n + 1)
          PROVE  /\ (Sound(calls[i]))'
                 /\ i < n + 1 => calls'[i].pc = "loading"
                 /\ i > 1 => calls'[i].name = (DllOf(calls[i - 1]))'
      <3>1. CASE i = n + 1
        <4>1. calls'[i - 1] = c /\ calls'[i] = e
          BY <1>10, <1>12, <3>1
        <4>2. (Sound(calls[i]))'
          BY <1>2, <1>8, <4>1, SoundKept
        <4>3. ~(i < n + 1)
          BY <1>10, <3>1
        <4>4. calls'[i].name = (DllOf(calls[i - 1]))'
          BY <1>2, <1>6, <1>8, <4>1, SoundKept
        <4> QED
          BY <4>2, <4>3, <4>4
      <3>2. CASE i # n + 1
        <4>1. i \in 1 .. n
          BY <1>10, <3>2
        <4>2. (Sound(calls[i]))' /\ calls'[i].pc = "loading" /\ calls'[i].name = calls[i].name
          <5>1. /\ i # n => calls'[i] = calls[i] /\ calls[i].pc = "loading"
                /\ Sound(calls[i]) /\ (i = n => calls'[i] = c /\ calls[n] = Running)
            BY <1>10, <1>12, <1>13, <4>1
          <5>2. calls'[i].pc = "loading" /\ calls'[i].name = calls[i].name /\ Sound(calls'[i])
            BY <1>5, <1>6, <5>1
          <5>3. (Sound(calls[i]))' <=> Sound(calls'[i])
            BY <1>2, SoundKept
          <5> QED
            BY <5>2, <5>3
        <4>3. ASSUME i > 1 PROVE calls'[i].name = (DllOf(calls[i - 1]))'
          <5>1. i - 1 \in 1 .. n /\ i - 1 # n
            BY <1>10, <4>1, <4>3
          <5>2. calls'[i - 1] = calls[i - 1]
            BY <1>12, <5>1
          <5> QED
            BY <1>2, <1>13, <4>1, <4>2, <4>3, <5>2, SoundKept
        <4> QED
          BY <4>2, <4>3
      <3> QED
        BY <3>1, <3>2
    <2> QED
      BY <1>12, <2>1, <2>2 DEF Stack
  <1>16. Answered'
    <2>1. Running' = e /\ NoAnswer \notin Slot' /\ NoAnswer # Failure
      BY <1>12 DEF Running, NoAnswer, Failure, Slot
    <2> QED
      BY <1>2, <1>8, <1>12, <2>1 DEF Answered
  <1>17. answer # Failure
    BY <1>2, <1>10 DEF PeInv, Answered
  <1>18. ASSUME NEW s, NEW d
         PROVE  /\ (PastDir(s, d))' => PastDir(s, d)
                /\ \A m : (PastSymbol(s, d, m))' => PastSymbol(s, d, m)
    <2>1. \A i \in DOMAIN calls : i \in DOMAIN calls'
      BY <1>10, <1>12
    <2>2. \A i \in DOMAIN calls : i # n => calls'[i] = calls[i]
      BY <1>10, <1>12
    <2>3. (PastDir(s, d))' => PastDir(s, d)
      BY <1>5, <1>10, <1>12, <2>1, <2>2 DEF PastDir
    <2>4. ASSUME NEW m, (PastSymbol(s, d, m))' PROVE PastSymbol(s, d, m)
      BY <1>5, <1>10, <1>12, <2>1, <2>2, <2>4 DEF PastSymbol
    <2> QED
      BY <2>3, <2>4
  <1>19. Bindings'
    BY <1>2, <1>17, <1>18, BindingsKept
  <1> QED
    BY <1>14, <1>15, <1>16, <1>19 DEF PeInv

\* What LoadImage does: file k, an image, gets into slot s, the first that is
\* free, and the next slot gets its address.
Loads(name, s, k) ==
  /\ calls # <<>> /\ Running.pc = "enter" /\ Running.name = name
  /\ IsImage(name) /\ k = Min(Matches(name)) /\ k \in DOMAIN archive
  /\ archive[k] = ramfs_file(name)
  /\ s \in Slot /\ s \in AllSlot /\ \A t \in AllSlot : (Named(t) <=> t < s) /\ slots[t].name # name
  /\ Placed(s)
  /\ slots' = [t \in AllSlot |-> slots'[t]]
  /\ slots'[s] = [name |-> name, load_addr |-> slots[s].load_addr,
                  image_size |-> archive[k].size,
                  entry |-> slots[s].load_addr + archive[k].entry,
                  stack_size |-> archive[k].stack]
  /\ s + 1 < STATES_MAX =>
       slots'[s + 1] = [Empty EXCEPT !.load_addr = slots[s].load_addr + archive[k].size]
  /\ \A t \in AllSlot : t # s /\ ~(t = s + 1 /\ t < STATES_MAX) => slots'[t] = slots[t]
  /\ mem' = Copied(k, slots[s].load_addr)
  /\ iat' = [iat EXCEPT ![s] = Cleared(archive[k].imports)]
  /\ Replace([Running EXCEPT !.pc = "imports", !.slot = s])
  /\ UNCHANGED <<archive, answer>>

LEMMA LoadsFacts ==
  ASSUME PeInv, LoadImage
  PROVE  \E name, s, k : Loads(name, s, k)
  <1> PICK name, s, k : name = Running.name /\ s = Min(Stops(name)) /\ k = Min(Matches(name))
    OBVIOUS
  <1>1. /\ calls # <<>> /\ Running.pc = "enter" /\ Stops(name) # {} /\ slots[s].name = NoName
        /\ IsImage(name) /\ mem' = Copied(k, slots[s].load_addr)
        /\ slots' = Filled(s, name, k)
        /\ iat' = [iat EXCEPT ![s] = Cleared(archive[k].imports)]
        /\ Replace([Running EXCEPT !.pc = "imports", !.slot = s])
        /\ UNCHANGED <<archive, answer>>
    BY DEF LoadImage, Entering, NewSlot
  <1>2. /\ k \in DOMAIN archive /\ archive[k] = ramfs_file(name)
    BY <1>1, FoundFacts DEF IsImage, PeInv
  <1>3. s \in Slot /\ ~Named(s)
    BY <1>1, StopFacts DEF Named
  <1>4. \A t \in AllSlot : (Named(t) <=> t < s) /\ slots[t].name # name
    <2>1. \A t \in AllSlot : t < s => slots[t].name # name
      BY <1>1, StopFacts
    <2>2. \A t \in AllSlot : Named(t) <=> t < s
      BY <1>1, <1>3, StopFacts
    <2>3. name # NoName
      BY <1>1, RunningFacts, NamesReal DEF PeInv
    <2> QED
      BY <2>1, <2>2, <2>3 DEF Named
  <1>5. Slot = 0 .. (STATES_MAX - 1) /\ AllSlot = 0 .. STATES_MAX /\ STATES_MAX \in Nat
    BY PeLoaderAssumption DEF Slot, AllSlot
  <1>6. Placed(s)
    <2>1. s # 0 => s - 1 \in AllSlot /\ s - 1 < s
      BY <1>3, <1>5
    <2> QED
      BY <1>4, <2>1 DEF Placed
  <1>7. slots[s] = [Empty EXCEPT !.load_addr = slots[s].load_addr]
    BY <1>3, <1>5 DEF PeInv, Layout
  <1>8. s + 1 < STATES_MAX => s + 1 \in AllSlot /\ slots[s + 1] = Empty
    <2> SUFFICES ASSUME s + 1 < STATES_MAX PROVE s + 1 \in AllSlot /\ slots[s + 1] = Empty
      OBVIOUS
    <2>1. s + 1 \in AllSlot /\ s + 1 # 0 /\ (s + 1) - 1 = s
      BY <1>3, <1>5
    <2>2. ~Placed(s + 1)
      BY <1>3, <2>1 DEF Placed
    <2> QED
      BY <2>1, <2>2 DEF PeInv, Layout
  <1>9. \A t \in AllSlot :
          slots'[t] = CASE t = s -> [slots[t] EXCEPT !.name = name, !.image_size = archive[k].size,
                                       !.entry = slots[s].load_addr + archive[k].entry,
                                       !.stack_size = archive[k].stack]
                        [] t = s + 1 /\ t < STATES_MAX ->
                             [slots[t] EXCEPT !.load_addr = slots[s].load_addr + archive[k].size]
                        [] OTHER -> slots[t]
    BY <1>1 DEF Filled, Filling
  <1>10. slots' = [t \in AllSlot |-> slots'[t]]
    <2> DEFINE Value(t) ==
                 CASE t = s -> [slots[t] EXCEPT !.name = name, !.image_size = archive[k].size,
                                  !.entry = slots[s].load_addr + archive[k].entry,
                                  !.stack_size = archive[k].stack]
                   [] t = s + 1 /\ t < STATES_MAX ->
                        [slots[t] EXCEPT !.load_addr = slots[s].load_addr + archive[k].size]
                   [] OTHER -> slots[t]
    <2>1. slots' = [t \in AllSlot |-> Value(t)]
      BY <1>1, Zenon DEF Filled, Filling
    <2> HIDE DEF Value
    <2> QED
      BY <2>1
  <1>11. slots'[s] = [name |-> name, load_addr |-> slots[s].load_addr,
                      image_size |-> archive[k].size,
                      entry |-> slots[s].load_addr + archive[k].entry,
                      stack_size |-> archive[k].stack]
    <2>1. s # s + 1 /\ s \in AllSlot
      BY <1>3, <1>5
    <2>2. slots'[s] = [slots[s] EXCEPT !.name = name, !.image_size = archive[k].size,
                         !.entry = slots[s].load_addr + archive[k].entry,
                         !.stack_size = archive[k].stack]
      BY <1>9, <2>1
    <2> QED
      BY <1>7, <2>2 DEF Empty
  <1>12. s + 1 < STATES_MAX =>
           slots'[s + 1] = [Empty EXCEPT !.load_addr = slots[s].load_addr + archive[k].size]
    <2>1. s # s + 1
      BY <1>3, <1>5
    <2> QED
      BY <1>8, <1>9, <2>1
  <1>13. \A t \in AllSlot : t # s /\ ~(t = s + 1 /\ t < STATES_MAX) => slots'[t] = slots[t]
    BY <1>9
  <1>14. s \in AllSlot
    BY <1>3, <1>5
  <1>15. Loads(name, s, k)
    BY <1>1, <1>2, <1>3, <1>4, <1>6, <1>10, <1>11, <1>12, <1>13, <1>14 DEF Loads
  <1> QED
    BY <1>15

\* The slots that had an image have the same one, and there is one more.
LEMMA LoadsNamed ==
  ASSUME PeInv, NEW name, NEW s, NEW k, Loads(name, s, k)
  PROVE  /\ s \in Nat /\ s < STATES_MAX /\ name \in Needed /\ name \in Names /\ name # NoName
         /\ slots'[s].name = name
         /\ \A t \in AllSlot : (Named(t))' <=> t <= s
         /\ \A t \in AllSlot : t \in Nat /\ (t < s => slots'[t] = slots[t])
         /\ \A t : Named(t) /\ t \in AllSlot =>
              (Named(t))' /\ slots'[t] = slots[t] /\ t # s /\ t < s
         /\ AllSlot' = AllSlot /\ Slot' = Slot
  <1>1. Slot = 0 .. (STATES_MAX - 1) /\ AllSlot = 0 .. STATES_MAX /\ STATES_MAX \in Nat
    BY PeLoaderAssumption DEF Slot, AllSlot
  <1>2. s \in Nat /\ s < STATES_MAX
    BY <1>1 DEF Loads
  <1>3. name \in Needed /\ name \in Names /\ name # NoName
    BY RunningFacts, NamesReal DEF Loads, PeInv
  <1>4. slots'[s].name = name
    BY DEF Loads
  <1>5. \A t \in AllSlot : t \in Nat /\ (t < s => slots'[t] = slots[t])
    <2>1. \A t \in AllSlot : t \in Nat /\ (t < s => t # s /\ t # s + 1)
      BY <1>1, <1>2
    <2> QED
      BY <2>1 DEF Loads
  <1>6. \A t \in AllSlot : (Named(t))' <=> t <= s
    <2> SUFFICES ASSUME NEW t \in AllSlot PROVE slots'[t].name # NoName <=> t <= s
      BY DEF Named, NoName
    <2>1. t \in Nat
      BY <1>5
    <2>2. CASE t < s
      BY <1>2, <1>5, <2>1, <2>2 DEF Loads, Named
    <2>3. CASE t = s
      BY <1>2, <1>3, <1>4, <2>3
    <2>4. CASE t = s + 1 /\ t < STATES_MAX
      <3>1. slots'[t].name = NoName
        BY <2>4 DEF Loads, Empty
      <3> QED
        BY <1>2, <2>4, <3>1
    <2>5. CASE t > s /\ ~(t = s + 1 /\ t < STATES_MAX)
      <3>1. t # s /\ ~(t < s) /\ ~(t <= s)
        BY <1>2, <2>1, <2>5
      <3>2. slots'[t] = slots[t] /\ ~Named(t)
        BY <2>5, <3>1 DEF Loads
      <3> QED
        BY <3>1, <3>2 DEF Named
    <2> QED
      BY <1>2, <2>1, <2>2, <2>3, <2>4, <2>5
  <1>7. \A t : Named(t) /\ t \in AllSlot => (Named(t))' /\ slots'[t] = slots[t] /\ t # s /\ t < s
    <2> SUFFICES ASSUME NEW t, Named(t), t \in AllSlot
                 PROVE  (Named(t))' /\ slots'[t] = slots[t] /\ t # s /\ t < s
      OBVIOUS
    <2>1. t < s /\ t \in Nat
      BY <1>5 DEF Loads
    <2> QED
      BY <1>2, <1>5, <1>6, <2>1
  <1> QED
    BY <1>2, <1>3, <1>4, <1>5, <1>6, <1>7 DEF AllSlot, Slot

LEMMA LoadsLayout ==
  ASSUME PeInv, NEW name, NEW s, NEW k, Loads(name, s, k)
  PROVE  Layout'
  <1>1. /\ s \in Nat /\ s < STATES_MAX /\ name \in Needed /\ name \in Names /\ name # NoName
        /\ \A t \in AllSlot : (Named(t))' <=> t <= s
        /\ \A t \in AllSlot : t \in Nat /\ (t < s => slots'[t] = slots[t])
        /\ AllSlot' = AllSlot /\ Slot' = Slot
    BY LoadsNamed
  <1>2. /\ Slot = 0 .. (STATES_MAX - 1) /\ AllSlot = 0 .. STATES_MAX /\ STATES_MAX \in Nat
        /\ s \in Slot /\ s \in AllSlot
    BY <1>1, PeLoaderAssumption DEF Slot, AllSlot
  <1>3. PICK file, begin, end :
          file = archive[k] /\ begin = slots[s].load_addr /\ end = begin + file.size
    OBVIOUS
  <1>4. /\ file.size \in Nat \ {0} /\ file.entry \in Nat /\ file.stack \in Nat
        /\ file = ramfs_file(name) /\ IsImage(name)
    <2>1. k \in DOMAIN archive
      BY DEF Loads
    <2> QED
      BY <1>3, <2>1, FileFacts DEF Loads, PeInv
  <1>5. begin \in Nat /\ begin >= ramfs_get_end /\ ramfs_get_end \in Nat
    BY <1>2, <1>3, EndFacts DEF PeInv, Layout, Loads
  <1>6. end \in Nat /\ begin <= end
    BY <1>3, <1>4, <1>5
  <1>7. slots'[s] = [name |-> name, load_addr |-> begin, image_size |-> file.size,
                     entry |-> begin + file.entry, stack_size |-> file.stack]
    BY <1>3 DEF Loads
  <1>8. s + 1 < STATES_MAX =>
          slots'[s + 1] = [name |-> NoName, load_addr |-> end, image_size |-> 0, entry |-> 0,
                           stack_size |-> 0]
    BY <1>3 DEF Loads, Empty
  <1>9. \A t \in AllSlot : t # s /\ ~(t = s + 1 /\ t < STATES_MAX) => slots'[t] = slots[t]
    BY DEF Loads
  <1>10. \A t \in AllSlot : Named(t) <=> t < s
    BY DEF Loads
  <1>11. \A t \in AllSlot : (Placed(t))' <=> t <= s + 1
    <2> SUFFICES ASSUME NEW t \in AllSlot PROVE t = 0 \/ (Named(t - 1))' <=> t <= s + 1
      BY DEF Placed
    <2>1. CASE t = 0
      BY <1>1, <2>1
    <2>2. CASE t # 0
      <3>1. t - 1 \in AllSlot /\ (t - 1 <= s <=> t <= s + 1)
        BY <1>1, <1>2, <2>2
      <3> QED
        BY <1>1, <2>2, <3>1
    <2> QED
      BY <2>1, <2>2
  <1>12. \A t \in AllSlot : t <= s => Placed(t)
    <2> SUFFICES ASSUME NEW t \in AllSlot, t <= s, t # 0 PROVE Named(t - 1)
      BY DEF Placed
    <2>1. t - 1 \in AllSlot /\ t - 1 < s
      BY <1>1, <1>2
    <2> QED
      BY <1>10, <2>1
  <1>13. /\ Names' = Names /\ Needed' = Needed /\ ramfs_get_end' = ramfs_get_end
         /\ \A n : (IsImage(n))' = IsImage(n) /\ (ramfs_file(n))' = ramfs_file(n)
    BY ArchiveKept DEF Loads
  <1> DEFINE Record == [name : Names \cup {NoName}, load_addr : Nat, image_size : Nat,
                        entry : Nat, stack_size : Nat]
  <1>14. Layout
    BY DEF PeInv
  <1>15. \A t \in AllSlot : slots'[t] \in Record
    <2> SUFFICES ASSUME NEW t \in AllSlot PROVE slots'[t] \in Record
      OBVIOUS
    <2>1. CASE t = s
      <3>1. begin + file.entry \in Nat
        BY <1>4, <1>5
      <3> QED
        BY <1>1, <1>4, <1>5, <1>7, <2>1, <3>1
    <2>2. CASE t = s + 1 /\ t < STATES_MAX
      BY <1>6, <1>8, <2>2
    <2>3. CASE t # s /\ ~(t = s + 1 /\ t < STATES_MAX)
      BY <1>9, <1>14, <2>3 DEF Layout
    <2> QED
      BY <2>1, <2>2, <2>3
  <1>16. slots' \in [AllSlot -> Record]
    <2>1. slots' = [t \in AllSlot |-> slots'[t]]
      BY DEF Loads
    <2> QED
      BY <1>15, <2>1
  <1> HIDE DEF Record
  <1>17. slots'[STATES_MAX] = Empty
    <2>1. STATES_MAX \in AllSlot /\ STATES_MAX # s /\ ~(STATES_MAX < STATES_MAX)
      BY <1>1, <1>2
    <2> QED
      BY <1>9, <1>14, <2>1 DEF Layout
  <1>18. \A r, t \in AllSlot : r < t /\ (Named(t))' => (Named(r))'
    <2>1. \A r, t \in AllSlot : r < t /\ t <= s => r <= s
      BY <1>1
    <2> QED
      BY <1>1, <2>1
  <1>19. ASSUME NEW t \in AllSlot, ~(Named(t))'
         PROVE  slots'[t] = [Empty EXCEPT !.load_addr = slots'[t].load_addr]
    <2>1. t # s /\ ~(t < s)
      BY <1>1, <1>19
    <2>2. CASE t = s + 1 /\ t < STATES_MAX
      BY <1>8, <2>2 DEF Empty
    <2>3. CASE ~(t = s + 1 /\ t < STATES_MAX)
      BY <1>9, <1>10, <1>14, <2>1, <2>3 DEF Layout
    <2> QED
      BY <2>2, <2>3
  <1>20. ASSUME NEW t \in Slot, (Placed(t))' PROVE slots'[t].load_addr >= ramfs_get_end
    <2>1. t \in AllSlot /\ t <= s + 1 /\ t < STATES_MAX
      BY <1>2, <1>11, <1>20
    <2>2. CASE t < s
      <3>1. slots'[t] = slots[t] /\ Placed(t)
        BY <1>1, <1>12, <2>1, <2>2
      <3> QED
        BY <1>14, <3>1 DEF Layout
    <2>3. CASE t = s
      BY <1>5, <1>7, <2>3
    <2>4. CASE t = s + 1
      <3>1. slots'[t].load_addr = end
        BY <1>8, <2>1, <2>4
      <3> QED
        BY <1>5, <1>6, <3>1
    <2> QED
      BY <1>1, <2>1, <2>2, <2>3, <2>4
  <1>21. ASSUME NEW t \in AllSlot, ~(Placed(t))' PROVE slots'[t] = Empty
    <2>1. ~(t <= s + 1)
      BY <1>11, <1>21
    <2>2. t # s /\ t # s + 1 /\ t # 0 /\ t - 1 \in AllSlot /\ ~(t - 1 < s)
      BY <1>1, <1>2, <2>1
    <2>3. ~Placed(t)
      BY <1>10, <2>2 DEF Placed
    <2>4. slots'[t] = slots[t]
      BY <1>9, <2>2
    <2> QED
      BY <1>14, <2>3, <2>4 DEF Layout
  <1>22. ASSUME NEW r \in Slot, NEW t \in Slot, r < t, (Placed(t))'
         PROVE  slots'[r].load_addr + slots'[r].image_size <= slots'[t].load_addr
    <2>1. r \in AllSlot /\ t \in AllSlot /\ t <= s + 1 /\ t < STATES_MAX
      BY <1>2, <1>11, <1>22
    <2>2. CASE t <= s
      <3>1. r < s /\ Placed(t) /\ slots'[r] = slots[r]
        BY <1>1, <1>12, <1>22, <2>1, <2>2
      <3>2. slots'[t].load_addr = slots[t].load_addr
        BY <1>1, <1>3, <1>7, <2>1, <2>2
      <3> QED
        BY <1>14, <1>22, <3>1, <3>2 DEF Layout
    <2>3. CASE t = s + 1
      <3>1. slots'[t].load_addr = end
        BY <1>8, <2>1, <2>3
      <3>2. CASE r = s
        <4>1. slots'[r].load_addr = begin /\ slots'[r].image_size = file.size
          BY <1>7, <3>2
        <4>2. begin + file.size <= end
          BY <1>3, <1>6
        <4> QED
          BY <3>1, <4>1, <4>2
      <3>3. CASE r < s
        <4>1. slots'[r] = slots[r] /\ Placed(s)
          BY <1>1, <1>2, <1>12, <2>1, <3>3
        <4>2. slots[r].load_addr + slots[r].image_size <= begin
          BY <1>2, <1>3, <1>14, <3>3, <4>1 DEF Layout
        <4>3. slots[r].load_addr \in Nat /\ slots[r].image_size \in Nat
          BY <1>14, <2>1 DEF Layout
        <4> QED
          BY <1>5, <1>6, <3>1, <4>1, <4>2, <4>3
      <3>4. r < s \/ r = s
        <4>1. r \in Nat /\ r < s + 1 /\ s \in Nat
          BY <1>1, <1>22, <2>1, <2>3
        <4> QED
          BY <4>1
      <3> QED
        BY <3>2, <3>3, <3>4
    <2> QED
      BY <1>1, <2>1, <2>2, <2>3
  <1>23. ASSUME NEW r \in AllSlot, NEW t \in AllSlot, (Named(r))', (Named(t))',
                slots'[r].name = slots'[t].name
         PROVE  r = t
    <2>1. r <= s /\ t <= s /\ r \in Nat /\ t \in Nat
      BY <1>1, <1>23
    <2>2. \A u \in AllSlot : u < s => slots'[u] = slots[u] /\ Named(u) /\ slots[u].name # name
      BY <1>1, <1>10 DEF Loads
    <2>3. slots'[s].name = name
      BY <1>7
    <2>4. (r < s \/ r = s) /\ (t < s \/ t = s)
      BY <1>1, <2>1
    <2>5. CASE r < s /\ t < s
      BY <1>14, <1>23, <2>2, <2>5 DEF Layout
    <2>6. CASE r = s \/ t = s
      BY <1>23, <2>2, <2>3, <2>4, <2>6
    <2> QED
      BY <2>4, <2>5, <2>6
  <1>24. ASSUME NEW t \in AllSlot, (Named(t))'
         PROVE  /\ IsImage(slots'[t].name) /\ slots'[t].name \in Needed
                /\ slots'[t].image_size = ramfs_file(slots'[t].name).size
                /\ slots'[t].stack_size = ramfs_file(slots'[t].name).stack
                /\ slots'[t].entry = slots'[t].load_addr + ramfs_file(slots'[t].name).entry
    <2>1. t < s \/ t = s
      BY <1>1, <1>24
    <2>2. CASE t < s
      <3>1. slots'[t] = slots[t] /\ Named(t)
        BY <1>1, <1>10, <2>2
      <3> QED
        BY <1>14, <3>1 DEF Layout
    <2>3. CASE t = s
      BY <1>1, <1>4, <1>7, <2>3
    <2> QED
      BY <2>1, <2>2, <2>3
  <1>25. /\ slots' \in [AllSlot' -> [name : Names' \cup {NoName}, load_addr : Nat,
                                    image_size : Nat, entry : Nat, stack_size : Nat]]
    BY <1>1, <1>13, <1>16 DEF Record
  <1>26. \A t \in AllSlot : (Named(t))' =>
           /\ (IsImage(slots[t].name))' /\ (slots[t].name \in Needed)'
           /\ slots'[t].image_size = (ramfs_file(slots[t].name))'.size
           /\ slots'[t].stack_size = (ramfs_file(slots[t].name))'.stack
           /\ slots'[t].entry = slots'[t].load_addr + (ramfs_file(slots[t].name))'.entry
    BY <1>13, <1>24
  <1> QED
    BY <1>1, <1>13, <1>17, <1>18, <1>19, <1>20, <1>21, <1>22, <1>23, <1>25, <1>26
    DEF Layout, Empty, NoName

\* The images that were there lie below the new one.
LEMMA LoadsBelow ==
  ASSUME PeInv, NEW name, NEW s, NEW k, Loads(name, s, k), NEW t \in AllSlot, Named(t)
  PROVE  /\ slots[t].load_addr \in Nat /\ slots[t].image_size \in Nat
         /\ slots[s].load_addr \in Nat
         /\ slots[t].load_addr + slots[t].image_size <= slots[s].load_addr
  <1>1. t \in Slot /\ s \in Slot /\ s \in AllSlot /\ t < s /\ Placed(s)
    BY ImageFacts DEF Loads
  <1> QED
    BY <1>1 DEF PeInv, Layout

LEMMA LoadsCopies ==
  ASSUME PeInv, NEW name, NEW s, NEW k, Loads(name, s, k)
  PROVE  Copies'
  <1>1. /\ s \in Nat /\ name # NoName /\ slots'[s].name = name /\ s \in AllSlot
        /\ \A t \in AllSlot : (Named(t))' <=> t <= s
        /\ \A t \in AllSlot : t \in Nat /\ (t < s => slots'[t] = slots[t])
        /\ \A t \in AllSlot : Named(t) <=> t < s
        /\ AllSlot' = AllSlot
    BY LoadsNamed DEF Loads
  <1>2. PICK size, begin : size = archive[k].size /\ begin = slots[s].load_addr
    OBVIOUS
  <1>3. /\ k \in DOMAIN archive /\ size \in Nat \ {0} /\ begin \in Nat
        /\ slots'[s].load_addr = begin /\ slots'[s].image_size = size
        /\ k = Min(Matches(name))
    BY <1>1, <1>2, FileFacts DEF PeInv, Layout, Loads
  <1> DEFINE New == begin .. (begin + size - 1)
  <1>4. /\ DOMAIN mem' = DOMAIN mem \cup New
        /\ \A a \in New : mem'[a] = [file |-> k, cell |-> a - begin]
        /\ \A a \in DOMAIN mem : a \notin New => mem'[a] = mem[a]
    <2>1. mem' = [a \in DOMAIN mem \cup New |->
                    IF a \in New THEN [file |-> k, cell |-> a - begin] ELSE mem[a]]
      BY <1>2 DEF Loads, Copied
    <2> HIDE DEF New
    <2> QED
      BY <2>1
  <1>5. /\ \A n : (Matches(n))' = Matches(n)
        /\ archive' = archive
    BY ArchiveKept DEF Loads
  <1>6. Copies
    BY DEF PeInv
  <1>7. ASSUME NEW t \in AllSlot, (Named(t))', NEW c \in 0 .. (slots'[t].image_size - 1)
        PROVE  /\ slots'[t].load_addr + c \in DOMAIN mem'
               /\ mem'[slots'[t].load_addr + c] =
                    [file |-> Min(Matches(slots'[t].name)), cell |-> c]
    <2>1. t < s \/ t = s
      BY <1>1, <1>7
    <2>2. CASE t < s
      <3>1. Named(t) /\ slots'[t] = slots[t]
        BY <1>1, <2>2
      <3>2. /\ slots[t].load_addr \in Nat /\ slots[t].image_size \in Nat
            /\ slots[t].load_addr + slots[t].image_size <= begin
        BY <1>2, <3>1, LoadsBelow
      <3>3. c \in 0 .. (slots[t].image_size - 1)
        BY <3>1
      <3>4. slots[t].load_addr + c \notin New
        BY <1>3, <3>2, <3>3
      <3>5. /\ slots[t].load_addr + c \in DOMAIN mem
            /\ mem[slots[t].load_addr + c] = [file |-> Min(Matches(slots[t].name)), cell |-> c]
        BY <1>6, <3>1, <3>3 DEF Copies
      <3> HIDE DEF New
      <3> QED
        BY <1>4, <3>1, <3>4, <3>5
    <2>3. CASE t = s
      <3>1. c \in 0 .. (size - 1)
        BY <1>3, <2>3
      <3>2. begin + c \in New /\ (begin + c) - begin = c
        BY <1>3, <3>1
      <3> HIDE DEF New
      <3>3. mem'[begin + c] = [file |-> k, cell |-> c]
        BY <1>4, <3>2
      <3> QED
        BY <1>1, <1>3, <1>4, <2>3, <3>2, <3>3
    <2> QED
      BY <2>1, <2>2, <2>3
  <1>8. ASSUME NEW a \in DOMAIN mem'
        PROVE  /\ a \in Nat /\ mem'[a].file \in DOMAIN archive
               /\ \E t \in AllSlot : /\ (Named(t))' /\ slots'[t].load_addr <= a
                                     /\ a < slots'[t].load_addr + slots'[t].image_size
    <2>1. CASE a \in New
      <3>1. a \in Nat /\ begin <= a /\ a < begin + size
        BY <1>3, <2>1
      <3>2. (Named(s))'
        BY <1>1
      <3> HIDE DEF New
      <3>3. mem'[a].file \in DOMAIN archive
        BY <1>3, <1>4, <2>1
      <3> QED
        BY <1>1, <1>3, <3>1, <3>2, <3>3
    <2>2. CASE a \notin New
      <3> HIDE DEF New
      <3>1. a \in DOMAIN mem /\ mem'[a] = mem[a]
        BY <1>4, <2>2
      <3>2. PICK t \in AllSlot : /\ Named(t) /\ slots[t].load_addr <= a
                                 /\ a < slots[t].load_addr + slots[t].image_size
        BY <1>6, <3>1 DEF Copies
      <3>3. (Named(t))' /\ slots'[t] = slots[t]
        BY <3>2, LoadsNamed
      <3>4. a \in Nat /\ mem[a].file \in DOMAIN archive
        BY <1>6, <3>1 DEF Copies
      <3> QED
        BY <3>1, <3>2, <3>3, <3>4
    <2> QED
      BY <2>1, <2>2
  <1>9. \A t \in AllSlot : (Named(t))' =>
          \A c \in 0 .. (slots'[t].image_size - 1) :
            /\ slots'[t].load_addr + c \in DOMAIN mem'
            /\ mem'[slots'[t].load_addr + c] =
                 [file |-> Min((Matches(slots[t].name))'), cell |-> c]
    BY <1>5, <1>7
  <1> QED
    BY <1>1, <1>5, <1>8, <1>9 DEF Copies

\* The running activation has its image now, and what the others know stays.
LEMMA LoadsStack ==
  ASSUME PeInv, NEW name, NEW s, NEW k, Loads(name, s, k)
  PROVE  Stack' /\ Answered'
  <1>1. /\ calls # <<>> /\ Running.pc = "enter" /\ Running.name = name /\ s \in Slot
        /\ s \in AllSlot /\ answer' = answer /\ archive' = archive
        /\ Replace([Running EXCEPT !.pc = "imports", !.slot = s])
    BY DEF Loads
  <1>2. /\ Running \in Act /\ Sound(Running) /\ calls \in Seq(Act)
    BY <1>1, RunningFacts
  <1>3. /\ name \in Needed /\ name # NoName /\ slots'[s].name = name /\ (Named(s))'
        /\ \A t : Named(t) /\ t \in AllSlot => (Named(t))' /\ slots'[t] = slots[t]
        /\ Slot' = Slot
    <2>1. s \in Nat
      BY LoadsNamed
    <2> QED
      BY <1>1, <2>1, LoadsNamed
  <1>4. PICK r, c : r = Running /\ c = [r EXCEPT !.pc = "imports", !.slot = s]
    OBVIOUS
  <1>5. /\ c \in Act /\ c.name = name /\ c.pc = "imports" /\ c.slot = s /\ c.dir = 1
    <2>1. /\ r = [name |-> r.name, pc |-> r.pc, slot |-> r.slot, dll |-> r.dll,
                  dir |-> r.dir, symbol |-> r.symbol]
          /\ r.name \in Names /\ r.slot \in Slot /\ r.dll \in Slot
          /\ r.dir \in Nat \ {0} /\ r.symbol \in Nat \ {0}
      BY <1>2, <1>4, ActFields
    <2>2. PICK step : step = "imports"
      OBVIOUS
    <2>3. c = [r EXCEPT !.pc = step, !.slot = s]
      BY <1>4, <2>2
    <2>4. c = [name |-> r.name, pc |-> step, slot |-> s, dll |-> r.dll, dir |-> r.dir,
               symbol |-> r.symbol]
      BY <2>1, <2>3
    <2>5. r \in Act /\ step \in {"imports", "loading", "symbols"}
      BY <1>2, <1>4, <2>2
    <2>6. /\ c \in Act /\ c.name = r.name /\ c.pc = step /\ c.slot = s /\ c.dir = r.dir
      BY <1>1, <2>1, <2>4, <2>5, ActFacts
    <2>7. r.dir = 1 /\ r.name = name
      BY <1>1, <1>2, <1>4 DEF Sound
    <2> QED
      BY <2>2, <2>6, <2>7
  <1>6. PICK n : n = Len(calls)
    OBVIOUS
  <1>7. /\ n \in Nat \ {0} /\ DOMAIN calls = 1 .. n /\ n \in DOMAIN calls /\ Running = calls[n]
    BY <1>1, <1>6, RunningFacts
  <1>8. /\ calls' \in Seq(Act) /\ Len(calls') = n /\ DOMAIN calls' = 1 .. n
        /\ \A i \in 1 .. n : i # n => calls'[i] = calls[i]
        /\ calls'[n] = c /\ Last(calls') = c /\ calls' # <<>>
    <2>1. Replace(c)
      BY <1>1, <1>4
    <2>2. /\ calls' \in Seq(Act) /\ Len(calls') = Len(calls) /\ DOMAIN calls' = DOMAIN calls
          /\ calls' # <<>>
          /\ \A i \in DOMAIN calls : i # Len(calls) => calls'[i] = calls[i]
          /\ calls'[Len(calls)] = c /\ Last(calls') = c
      BY <1>1, <1>2, <1>5, <2>1, ReplaceFacts
    <2> QED
      BY <1>6, <1>7, <2>2, Zenon
  <1>9. \A i \in 1 .. n :
          /\ Sound(calls[i]) /\ calls[i] \in Act
          /\ i < n => calls[i].pc = "loading"
          /\ i > 1 => calls[i].name = DllOf(calls[i - 1])
    BY <1>2, <1>6, <1>7 DEF PeInv, Stack
  <1>10. /\ Names' = Names /\ Needed' = Needed /\ Act' = Act /\ (Loadable' <=> Loadable)
         /\ \A m : (ramfs_file(m))' = ramfs_file(m)
    BY <1>1, ArchiveKept
  <1>11. \A e : (DllOf(e))' = DllOf(e)
    BY <1>1 DEF DllOf, Import, ramfs_file, Matches
  <1>12. \A e \in Act : Sound(e) => (Sound(e))'
    <2>1. \A e \in Act : e.slot \in AllSlot /\ e.dll \in AllSlot
      BY PeLoaderAssumption DEF Act, Slot, AllSlot
    <2> SUFFICES ASSUME NEW e \in Act, Sound(e) PROVE (Sound(e))'
      OBVIOUS
    <2>2. e.pc # "enter" => (Named(e.slot))' /\ slots'[e.slot].name = e.name
      BY <1>3, <2>1 DEF Sound
    <2>3. e.pc = "symbols" =>
            /\ (Named(e.dll))' /\ slots'[e.dll].name = DllOf(e)
            /\ ramfs_file(DllOf(e)).exports # <<>>
      BY <1>3, <2>1 DEF Sound
    <2> QED
      BY <1>10, <1>11, <2>2, <2>3 DEF Sound
  <1>13. (Sound(c))'
    BY <1>3, <1>5, <1>10 DEF Sound
  <1>14. ASSUME NEW i \in 1 .. n
         PROVE  /\ (Sound(calls[i]))'
                /\ i < n => calls'[i].pc = "loading"
                /\ i > 1 => calls'[i].name = (DllOf(calls[i - 1]))'
    <2>1. (Sound(calls[i]))'
      BY <1>8, <1>9, <1>12, <1>13
    <2>2. i < n => calls'[i].pc = "loading"
      BY <1>8, <1>9
    <2>3. ASSUME i > 1 PROVE calls'[i].name = (DllOf(calls[i - 1]))'
      <3>1. i - 1 \in 1 .. n /\ i - 1 # n
        BY <1>7, <2>3
      <3>2. calls'[i - 1] = calls[i - 1]
        BY <1>8, <3>1
      <3>3. calls'[i].name = calls[i].name
        BY <1>1, <1>5, <1>7, <1>8
      <3> QED
        BY <1>9, <1>11, <2>3, <3>2, <3>3
    <2> QED
      BY <2>1, <2>2, <2>3
  <1>15. Stack'
    BY <1>8, <1>10, <1>14 DEF Stack
  <1>16. answer # Failure
    BY <1>1, <1>7 DEF PeInv, Answered
  <1>17. answer \in Slot => (Named(answer))'
    <2>1. answer \in Slot => Named(answer) /\ answer \in AllSlot
      BY PeLoaderAssumption DEF PeInv, Answered, Slot, AllSlot
    <2> QED
      BY <1>1, <1>3, <2>1
  <1>18. Running' = c
    BY <1>8 DEF Running
  <1>19. Answered'
    <2>1. answer' \in Slot' \cup {NoAnswer, Failure} /\ answer' # Failure
      BY <1>1, <1>3, <1>16 DEF PeInv, Answered
    <2> QED
      BY <1>1, <1>3, <1>5, <1>8, <1>17, <1>18, <2>1 DEF Answered
  <1> QED
    BY <1>15, <1>19

\* Whatever is done with was done with before, for the running activation has
\* the image of a new slot and is at its first directory.
LEMMA LoadsBindings ==
  ASSUME PeInv, NEW name, NEW s, NEW k, Loads(name, s, k)
  PROVE  Bindings'
  <1>1. /\ calls # <<>> /\ Running.pc = "enter" /\ Running.name = name /\ s \in Slot
        /\ s \in AllSlot /\ answer' = answer /\ archive' = archive
        /\ iat' = [iat EXCEPT ![s] = Cleared(archive[k].imports)]
        /\ archive[k] = ramfs_file(name) /\ IsTable(archive[k].imports)
        /\ k \in DOMAIN archive
    BY FileFacts DEF Loads, PeInv
  <1>2. /\ s \in Nat /\ slots'[s].name = name
        /\ \A t \in AllSlot : (Named(t))' <=> t <= s
        /\ \A t \in AllSlot : t \in Nat /\ (t < s => slots'[t] = slots[t])
        /\ \A t \in AllSlot : Named(t) <=> t < s
        /\ \A t : Named(t) /\ t \in AllSlot => (Named(t))' /\ slots'[t] = slots[t] /\ t # s
        /\ AllSlot' = AllSlot
    BY LoadsNamed DEF Loads
  <1>3. Bindings /\ DOMAIN iat = AllSlot
    BY DEF PeInv, Bindings
  <1>4. /\ DOMAIN iat' = AllSlot /\ iat'[s] = Cleared(archive[k].imports)
        /\ \A t \in AllSlot : t # s => iat'[t] = iat[t]
    BY <1>1, <1>3
  <1>5. PICK n : n = Len(calls)
    OBVIOUS
  <1>6. /\ n \in Nat \ {0} /\ DOMAIN calls = 1 .. n /\ n \in DOMAIN calls /\ Running = calls[n]
        /\ calls \in Seq(Act) /\ Running \in Act
    BY <1>1, <1>5, RunningFacts
  <1>7. PICK r, c : r = Running /\ c = [r EXCEPT !.pc = "imports", !.slot = s]
    OBVIOUS
  <1>8. c.pc = "imports" /\ c.slot = s /\ c.dir = 1
    <2>1. r = [name |-> r.name, pc |-> r.pc, slot |-> r.slot, dll |-> r.dll,
               dir |-> r.dir, symbol |-> r.symbol]
      BY <1>6, <1>7, ActFields
    <2>2. r.dir = 1
      BY <1>1, <1>7, RunningFacts DEF Sound
    <2> QED
      BY <1>7, <2>1, <2>2
  <1>9. /\ DOMAIN calls' = DOMAIN calls /\ calls'[n] = c
        /\ \A i \in DOMAIN calls : i # n => calls'[i] = calls[i]
    <2>1. Replace(c)
      BY <1>1, <1>7 DEF Loads
    <2>2. c \in Act
      <3>1. /\ r \in Act /\ r.slot \in Slot /\ r.dll \in Slot /\ r.symbol \in Nat \ {0}
            /\ r.dir \in Nat \ {0}
            /\ r = [name |-> r.name, pc |-> r.pc, slot |-> r.slot, dll |-> r.dll, dir |-> r.dir,
                    symbol |-> r.symbol]
        BY <1>6, <1>7, ActFields
      <3>2. PICK step : step = "imports"
        OBVIOUS
      <3>3. c = [r EXCEPT !.pc = step, !.slot = s]
        BY <1>7, <3>2
      <3>4. c = [name |-> r.name, pc |-> step, slot |-> s, dll |-> r.dll, dir |-> r.dir,
                 symbol |-> r.symbol]
        BY <3>1, <3>3
      <3>5. step \in {"imports", "loading", "symbols"}
        BY <3>2
      <3> QED
        BY <1>1, <3>1, <3>4, <3>5, ActFacts
    <2>3. /\ DOMAIN calls' = DOMAIN calls /\ calls'[Len(calls)] = c
          /\ \A i \in DOMAIN calls : i # Len(calls) => calls'[i] = calls[i]
      BY <1>1, <1>6, <2>1, <2>2, ReplaceFacts
    <2> QED
      BY <1>5, <2>3
  <1>10. /\ \A m : (ramfs_file(m))' = ramfs_file(m)
         /\ answer # Failure
    BY <1>1, <1>6, ArchiveKept DEF PeInv, Answered
  <1>11. ASSUME NEW t \in AllSlot, t # s, NEW d
         PROVE  /\ (PastDir(t, d))' => PastDir(t, d)
                /\ \A m : (PastSymbol(t, d, m))' => PastSymbol(t, d, m)
    <2>1. (PastDir(t, d))' => PastDir(t, d)
      BY <1>1, <1>6, <1>9, <1>11 DEF PastDir
    <2>2. ASSUME NEW m, (PastSymbol(t, d, m))' PROVE PastSymbol(t, d, m)
      BY <1>1, <1>6, <1>9, <1>11, <2>2 DEF PastSymbol
    <2> QED
      BY <2>1, <2>2
  <1>12. ASSUME NEW d \in Nat \ {0}
         PROVE  ~(PastDir(s, d))' /\ \A m : ~(PastSymbol(s, d, m))'
    <2>1. c.pc # "enter" /\ c.slot = s /\ ~(d < c.dir) /\ c.pc # "symbols"
      BY <1>8
    <2>2. ~(PastDir(s, d))'
      BY <1>6, <1>9, <2>1 DEF PastDir
    <2>3. \A m : ~(PastSymbol(s, d, m))'
      BY <1>6, <1>9, <2>1 DEF PastSymbol
    <2> QED
      BY <2>2, <2>3
  <1>13. ASSUME NEW t \in AllSlot, Named(t), NEW d
         PROVE  /\ Linked(t, d) => (Linked(t, d))'
                /\ \A m : Bound(t, d, m) => (Bound(t, d, m))'
    <2>1. slots'[t] = slots[t] /\ iat'[t] = iat[t]
      BY <1>2, <1>4, <1>13
    <2>2. ASSUME Linked(t, d) PROVE (Linked(t, d))'
      <3> PICK dll : dll = Import(slots[t].name, d).dll
        OBVIOUS
      <3>1. PICK u \in AllSlot : Named(u) /\ slots[u].name = dll
        BY <2>2 DEF Linked
      <3>2. (Named(u))' /\ slots'[u] = slots[u]
        BY <1>2, <3>1
      <3>3. (Import(slots[t].name, d))' = Import(slots[t].name, d)
        BY <1>10, <2>1 DEF Import
      <3>4. ramfs_file(dll).exports # <<>>
        BY <2>2, SMTT(30) DEF Linked
      <3> QED
        BY <1>2, <1>10, <3>1, <3>2, <3>3, <3>4 DEF Linked
    <2>3. ASSUME NEW m, Bound(t, d, m) PROVE (Bound(t, d, m))'
      <3> PICK import : import = Import(slots[t].name, d)
        BY SMTT(30)
      <3>1. PICK u \in AllSlot : \E x \in DOMAIN ramfs_file(import.dll).exports :
               /\ Named(u) /\ slots[u].name = import.dll
               /\ ramfs_file(import.dll).exports[x].name = import.symbols[m].name
               /\ iat[t][d][m] = [base  |-> slots[u].load_addr,
                                  entry |-> ramfs_file(import.dll).exports[x].entry]
        BY <2>3 DEF Bound
      <3>2. (Named(u))' /\ slots'[u] = slots[u]
        BY <1>2, <3>1
      <3>3. (Import(slots[t].name, d))' = import
        BY <1>10, <2>1 DEF Import
      <3>4. ~import.symbols[m].ordinal
        BY <2>3 DEF Bound
      <3> QED
        <4>1. PICK x \in DOMAIN ramfs_file(import.dll).exports :
                /\ slots[u].name = import.dll
                /\ ramfs_file(import.dll).exports[x].name = import.symbols[m].name
                /\ iat[t][d][m] = [base  |-> slots[u].load_addr,
                                   entry |-> ramfs_file(import.dll).exports[x].entry]
          BY <3>1
        <4>2. (ramfs_file(import.dll))' = ramfs_file(import.dll)
          BY <1>10
        <4>3. u \in AllSlot' /\ (Named(u))' /\ slots'[u].name = import.dll
          BY <1>2, <3>2, <4>1
        <4>4. iat'[t][d][m] = [base  |-> slots'[u].load_addr,
                               entry |-> ramfs_file(import.dll).exports[x].entry]
          BY <2>1, <3>2, <4>1
        <4> QED
          BY <3>3, <3>4, <4>1, <4>2, <4>3, <4>4 DEF Bound
    <2> QED
      BY <2>2, <2>3
  <1>14. ASSUME NEW t \in AllSlot, (Named(t))'
         PROVE  LET imports == ramfs_file(slots'[t].name).imports
                IN  /\ DOMAIN iat'[t] = DOMAIN imports
                    /\ \A d \in DOMAIN imports :
                         /\ DOMAIN iat'[t][d] = DOMAIN imports[d].symbols
                         /\ (PastDir(t, d))' => (Linked(t, d))'
                         /\ \A m \in DOMAIN imports[d].symbols :
                              (PastSymbol(t, d, m))' => (Bound(t, d, m))'
    <2>1. t < s \/ t = s
      BY <1>2, <1>14
    <2>2. CASE t < s
      <3>1. Named(t) /\ slots'[t] = slots[t] /\ t # s /\ iat'[t] = iat[t]
        BY <1>2, <1>4, <2>2
      <3> QED
        BY <1>3, <1>10, <1>11, <1>13, <3>1 DEF Bindings
    <2>3. CASE t = s
      <3>1. PICK imports : imports = archive[k].imports
        OBVIOUS
      <3>2. /\ imports = ramfs_file(slots'[t].name).imports /\ iat'[t] = Cleared(imports)
            /\ DOMAIN imports \subseteq Nat \ {0}
        BY <1>1, <1>2, <1>4, <2>3, <3>1, TableFacts
      <3>3. /\ DOMAIN iat'[t] = DOMAIN imports
            /\ \A d \in DOMAIN imports : DOMAIN iat'[t][d] = DOMAIN imports[d].symbols
        BY <3>2 DEF Cleared
      <3> QED
        BY <1>12, <2>3, <3>2, <3>3
    <2> QED
      BY <2>1, <2>2, <2>3
  <1>15. \A t \in AllSlot' : (Named(t))' =>
           LET imports == (ramfs_file(slots[t].name))'.imports
           IN  /\ DOMAIN iat'[t] = DOMAIN imports
               /\ \A d \in DOMAIN imports :
                    /\ DOMAIN iat'[t][d] = DOMAIN imports[d].symbols
                    /\ (PastDir(t, d))' => (Linked(t, d))'
                    /\ \A m \in DOMAIN imports[d].symbols :
                         (PastSymbol(t, d, m))' => (Bound(t, d, m))'
    BY <1>2, <1>10, <1>14
  <1> QED
    BY <1>2, <1>4, <1>15 DEF Bindings

LEMMA LoadImageKept ==
  ASSUME PeInv, LoadImage
  PROVE  PeInv'
  <1>1. PICK name, s, k : Loads(name, s, k)
    BY LoadsFacts
  <1>2. archive' \in Archives
    BY <1>1 DEF Loads, PeInv
  <1> QED
    BY <1>1, <1>2, LoadsLayout, LoadsCopies, LoadsStack, LoadsBindings DEF PeInv

LEMMA PeKept ==
  ASSUME PeInv, pe_load
  PROVE  PeInv'
  BY AlreadyLoadedKept, TableFullKept, NoImageKept, LoadImageKept, LoadDllKept, DllFailsKept,
     DllLoadedKept, NotBoundKept, BindKept, DirectoryBoundKept, ImportsBoundKept
  DEF pe_load

-----------------------------------------------------------------------------
(***************************************************************************)
(* The inductive invariant of the whole loader.                            *)
(***************************************************************************)
\* pe_load is called for the kernel first, and answers for it last.
Called ==
  /\ calls # <<>> => calls[1].name = KERNEL
  /\ calls = <<>> /\ answer \in Slot => slots[answer].name = KERNEL

\* Before, while and after images are loaded.
LoadInv ==
  /\ pc \in {"size", "pci", "load"} => Init
  /\ pc \notin {"size", "pci", "load", "halt"} => PeInv /\ Called
  /\ pc \notin {"size", "pci", "load", "loading", "halt"} => calls = <<>> /\ answer \in Slot
  /\ pc = "halt" => \/ Init /\ ~firmware.info_size_ok
                    \/ PeInv /\ answer = Failure

IsOff(x) == ~pci[x].io /\ ~pci[x].memory

\* The devices that the loop is past are off.
PciInv ==
  /\ firmware \in Firmwares /\ DOMAIN pci = DOMAIN firmware.pci /\ device \in Nat
  /\ \A x \in DOMAIN pci :
       /\ pci[x] \in [io : BOOLEAN, memory : BOOLEAN, master : BOOLEAN, errors : BOOLEAN]
       /\ pci[x].master = firmware.pci[x].master
  /\ pc = "size" => device = 0
  /\ pc = "pci" => device \in Devices /\ \A x \in DOMAIN pci : x[1] < device => IsOff(x)
  /\ pc \notin {"size", "pci", "halt"} => \A x \in DOMAIN pci : IsOff(x)
  /\ pc = "halt" /\ firmware.info_size_ok => \A x \in DOMAIN pci : IsOff(x)

\* The steps behind each part of the work.
WithPaging == {"call", "kernel"}
WithLme    == WithPaging \cup {"paging"}
WithCr3    == WithLme \cup {"lme"}
WithRsdp   == WithCr3 \cup {"cr3"}
WithTables == WithRsdp \cup {"rsdp"}
WithStack  == WithTables \cup {"link"}
WithImages == WithStack \cup {"map stack"}
WithTsl    == WithImages \cup {"map images"}
WithSsl    == WithTsl \cup {"map TSL"}
WithPae    == WithSsl \cup {"map SSL", "clear"}

Pages(address, count) == (address \div PAGE) .. (address \div PAGE + count - 1)

\* The pages and the bits of the processor that are ready.
MachineInv ==
  /\ pc \in {"size", "pci", "load", "loading", "halt", "pae", "fault"} \cup WithPae
  /\ cpu \in [pae : BOOLEAN, linked : BOOLEAN, cr3 : BOOLEAN, lme : BOOLEAN, paging : BOOLEAN]
  /\ \A i \in DOMAIN pml1 : i \in Nat /\ pml1[i] = i
  /\ pc \in WithPae => cpu.pae
  /\ pc \in WithSsl => Pages(SSL, SEGMENT) \subseteq DOMAIN pml1
  /\ pc \in WithTsl => Pages(TSL, SEGMENT) \subseteq DOMAIN pml1
  /\ pc \in WithImages => Pages(RAMFS, ImagePages) \subseteq DOMAIN pml1
  /\ pc \in WithStack => Pages(pe_memory_end, StackPages) \subseteq DOMAIN pml1
  /\ pc \in WithTables => cpu.linked
  /\ pc \in WithRsdp => rsdp \in firmware.rsdp \/ firmware.rsdp = {}
  /\ pc \in WithCr3 => cpu.cr3
  /\ pc \in WithLme => cpu.lme
  /\ pc \in WithPaging => cpu.paging
  /\ pc = "fault" => ~FitsTable

IInv == archive \in Archives /\ LoadInv /\ PciInv /\ MachineInv

-----------------------------------------------------------------------------
(***************************************************************************)
(* Loading.                                                                *)
(***************************************************************************)
LEMMA CalledReturn ==
  ASSUME PeInv, Called, calls # <<>>, UNCHANGED slots, NEW result, Return(result),
         result \in Slot => slots[result].name = Running.name
  PROVE  Called'
  <1>1. /\ calls \in Seq(Act) /\ Len(calls) \in Nat \ {0} /\ DOMAIN calls = 1 .. Len(calls)
        /\ Running = calls[Len(calls)]
    BY RunningFacts, SMTT(30)
  <1>2. /\ DOMAIN calls' = 1 .. (Len(calls) - 1) /\ answer' = result /\ calls' \in Seq(Act)
        /\ Len(calls') = Len(calls) - 1
        /\ \A i \in DOMAIN calls' : calls'[i] = calls[i]
    BY <1>1, ReturnFacts, Zenon
  <1>3. CASE calls' # <<>>
    <2>1. 1 \in DOMAIN calls'
      BY <1>1, <1>2, <1>3
    <2> QED
      BY <1>2, <1>3, <2>1 DEF Called
  <1>4. CASE calls' = <<>>
    <2>1. Len(calls) = 1
      BY <1>1, <1>2, <1>4
    <2>2. Running.name = KERNEL
      BY <1>1, <2>1 DEF Called
    <2> QED
      BY <1>2, <1>4, <2>2 DEF Called, Slot
  <1> QED
    BY <1>3, <1>4

LEMMA CalledReplace ==
  ASSUME PeInv, Called, calls # <<>>, NEW c \in Act, Replace(c), c.name = Running.name
  PROVE  Called'
  <1>1. /\ calls \in Seq(Act) /\ Len(calls) \in Nat \ {0} /\ DOMAIN calls = 1 .. Len(calls)
        /\ Running = calls[Len(calls)]
    BY RunningFacts
  <1>2. /\ \A i \in DOMAIN calls : i # Len(calls) => calls'[i] = calls[i]
        /\ calls'[Len(calls)] = c /\ calls' # <<>>
    BY <1>1, ReplaceFacts
  <1>3. calls'[1].name = calls[1].name
    BY <1>1, <1>2
  <1> QED
    BY <1>2, <1>3 DEF Called

LEMMA CalledPush ==
  ASSUME PeInv, Called, calls # <<>>, NEW c \in Act, NEW d \in Act, c.name = Running.name,
         calls' = Append(Front(calls), c) \o <<d>>
  PROVE  Called'
  <1>1. /\ calls \in Seq(Act) /\ Len(calls) \in Nat \ {0} /\ DOMAIN calls = 1 .. Len(calls)
        /\ Running = calls[Len(calls)]
    BY RunningFacts, SMTT(30)
  <1>2. /\ \A i \in DOMAIN calls : i # Len(calls) => calls'[i] = calls[i]
        /\ calls'[Len(calls)] = c /\ calls' # <<>>
    BY <1>1, PushFacts
  <1>3. calls'[1].name = calls[1].name
    <2>1. 1 \in DOMAIN calls
      BY <1>1
    <2>2. CASE Len(calls) = 1
      BY <1>1, <1>2, <2>2
    <2>3. CASE Len(calls) # 1
      BY <1>2, <2>1, <2>3
    <2> QED
      BY <2>2, <2>3
  <1> QED
    BY <1>2, <1>3 DEF Called

LEMMA Successors == 1 \in Nat \ {0} /\ \A n \in Nat \ {0} : n + 1 \in Nat \ {0}
  OBVIOUS

LEMMA AnyAct ==
  ASSUME NEW name \in Names, NEW step \in {"enter", "imports", "loading", "symbols"},
         NEW slot \in Slot, NEW dll \in Slot, NEW dir \in Nat \ {0}, NEW symbol \in Nat \ {0},
         NEW c, c = [name |-> name, pc |-> step, slot |-> slot, dll |-> dll, dir |-> dir,
                     symbol |-> symbol]
  PROVE  c \in Act /\ c.name = name
  BY DEF Act

\* The activation that goes on is one, and for the same name.
LEMMA GoesOn ==
  ASSUME NEW r \in Act, NEW c,
         \/ \E s \in Slot : c = [r EXCEPT !.pc = "imports", !.slot = s]
         \/ c = [r EXCEPT !.pc = "loading"]
         \/ \E s \in Slot : c = [r EXCEPT !.pc = "symbols", !.dll = s, !.symbol = 1]
         \/ c = [r EXCEPT !.symbol = @ + 1]
         \/ c = [r EXCEPT !.pc = "imports", !.dir = @ + 1]
  PROVE  c \in Act /\ c.name = r.name
  <1>1. /\ r.name \in Names /\ r.slot \in Slot /\ r.dll \in Slot /\ r.dir \in Nat \ {0}
        /\ r.symbol \in Nat \ {0} /\ r.pc \in {"enter", "imports", "loading", "symbols"}
        /\ r = [name |-> r.name, pc |-> r.pc, slot |-> r.slot, dll |-> r.dll, dir |-> r.dir,
                symbol |-> r.symbol]
    BY DEF Act
  <1> PICK one, dir, symbol : one = 1 /\ dir = r.dir + 1 /\ symbol = r.symbol + 1
    OBVIOUS
  <1> PICK steps : steps = {"enter", "imports", "loading", "symbols"}
    OBVIOUS
  <1>2. one \in Nat \ {0} /\ dir \in Nat \ {0} /\ symbol \in Nat \ {0}
    BY <1>1, Successors
  <1>3. \A p \in steps, s \in Slot, t \in Slot, d \in Nat \ {0}, m \in Nat \ {0} : \A e :
          e = [name |-> r.name, pc |-> p, slot |-> s, dll |-> t, dir |-> d, symbol |-> m]
            => e \in Act /\ e.name = r.name
    BY <1>1, AnyAct
  <1> PICK imports, loading, symbols :
        imports = "imports" /\ loading = "loading" /\ symbols = "symbols"
    OBVIOUS
  <1>4. imports \in steps /\ loading \in steps /\ symbols \in steps /\ r.pc \in steps
    BY <1>1
  <1>5. CASE \E s \in Slot : c = [r EXCEPT !.pc = "imports", !.slot = s]
    <2>1. PICK s \in Slot : c = [r EXCEPT !.pc = imports, !.slot = s]
      BY <1>5
    <2>2. c = [name |-> r.name, pc |-> imports, slot |-> s, dll |-> r.dll, dir |-> r.dir,
               symbol |-> r.symbol]
      BY <1>1, <2>1
    <2> QED
      BY <1>1, <1>3, <1>4, <2>2
  <1>6. CASE c = [r EXCEPT !.pc = "loading"]
    <2>1. c = [r EXCEPT !.pc = loading]
      BY <1>6
    <2>2. c = [name |-> r.name, pc |-> loading, slot |-> r.slot, dll |-> r.dll, dir |-> r.dir,
               symbol |-> r.symbol]
      BY <1>1, <2>1
    <2> QED
      BY <1>1, <1>3, <1>4, <2>2
  <1>7. CASE \E s \in Slot : c = [r EXCEPT !.pc = "symbols", !.dll = s, !.symbol = 1]
    <2>1. PICK s \in Slot : c = [r EXCEPT !.pc = symbols, !.dll = s, !.symbol = one]
      BY <1>7
    <2>2. c = [name |-> r.name, pc |-> symbols, slot |-> r.slot, dll |-> s, dir |-> r.dir,
               symbol |-> one]
      BY <1>1, <2>1
    <2> QED
      BY <1>1, <1>2, <1>3, <1>4, <2>2
  <1>8. CASE c = [r EXCEPT !.symbol = @ + 1]
    <2>1. c = [r EXCEPT !.symbol = symbol]
      BY <1>8
    <2>2. c = [name |-> r.name, pc |-> r.pc, slot |-> r.slot, dll |-> r.dll, dir |-> r.dir,
               symbol |-> symbol]
      BY <1>1, <2>1
    <2> QED
      BY <1>1, <1>2, <1>3, <1>4, <2>2
  <1>9. CASE c = [r EXCEPT !.pc = "imports", !.dir = @ + 1]
    <2>1. c = [r EXCEPT !.pc = imports, !.dir = dir]
      BY <1>9
    <2>2. c = [name |-> r.name, pc |-> imports, slot |-> r.slot, dll |-> r.dll, dir |-> dir,
               symbol |-> r.symbol]
      BY <1>1, <2>1
    <2> QED
      BY <1>1, <1>2, <1>3, <1>4, <2>2
  <1> QED
    BY <1>5, <1>6, <1>7, <1>8, <1>9

LEMMA CalledKept ==
  ASSUME PeInv, Called, pe_load
  PROVE  Called'
  <1>1. calls # <<>>
    BY DEF pe_load, AlreadyLoaded, TableFull, NoImage, LoadImage, LoadDll, DllFails, DllLoaded,
           NotBound, Bind, DirectoryBound, ImportsBound, Entering, AtDirectory, Loading, Binding
  <1>2. Running \in Act /\ Failure \notin Slot
    BY <1>1, RunningFacts DEF Slot, Failure
  <1>3. CASE TableFull \/ NoImage \/ DllFails \/ NotBound
    <2>1. Return(Failure) /\ UNCHANGED slots
      BY <1>3 DEF TableFull, NoImage, DllFails, NotBound
    <2> QED
      BY <1>1, <1>2, <2>1, CalledReturn
  <1>4. CASE AlreadyLoaded
    <2>1. PICK s : s = Min(Stops(Running.name))
      OBVIOUS
    <2>2. Return(s) /\ slots[s].name = Running.name /\ UNCHANGED slots
      BY <1>4, <2>1 DEF AlreadyLoaded
    <2> QED
      BY <1>1, <2>2, CalledReturn
  <1>5. CASE ImportsBound
    <2>1. /\ Return(Running.slot) /\ UNCHANGED slots /\ Running.pc # "enter"
      BY <1>5 DEF ImportsBound, AtDirectory
    <2>2. slots[Running.slot].name = Running.name
      BY <1>1, <2>1, DirectoryFacts
    <2> QED
      BY <1>1, <2>1, <2>2, CalledReturn
  <1>6. CASE LoadImage
    <2>1. PICK s : s = Min(Stops(Running.name))
      OBVIOUS
    <2>2. Replace([Running EXCEPT !.pc = "imports", !.slot = s]) /\ Stops(Running.name) # {}
      BY <1>6, <2>1 DEF LoadImage, NewSlot
    <2>3. s \in Slot
      BY <2>1, <2>2, StopFacts
    <2>4. PICK c : c = [Running EXCEPT !.pc = "imports", !.slot = s]
      OBVIOUS
    <2>5. c \in Act /\ c.name = Running.name
      BY <1>2, <2>3, <2>4, GoesOn
    <2> QED
      BY <1>1, <2>2, <2>4, <2>5, CalledReplace
  <1>7. CASE LoadDll
    <2>1. PICK c, dll : /\ c = [Running EXCEPT !.pc = "loading"]
                        /\ dll = Image(Running.slot).imports[Running.dir].dll
      OBVIOUS
    <2>2. /\ calls' = Append(Front(calls), c) \o <<Call(dll)>> /\ Running.pc # "enter"
          /\ Running.dir \in DOMAIN Image(Running.slot).imports
      BY <1>7, <2>1 DEF LoadDll, AtDirectory
    <2>3. c \in Act /\ c.name = Running.name
      BY <1>2, <2>1, GoesOn
    <2>4. /\ Running.dir \in DOMAIN ramfs_file(Running.name).imports
          /\ Directory.dll = dll
      BY <1>1, <2>1, <2>2, DirectoryFacts DEF Directory
    <2>5. dll \in Names
      BY <1>1, <2>2, <2>4, DirectoryFacts
    <2>6. Call(dll) \in Act
      BY <2>5, CallFacts
    <2> QED
      BY <1>1, <2>2, <2>3, <2>6, CalledPush
  <1>8. CASE DllLoaded
    <2>1. PICK c : c = [Running EXCEPT !.pc = "symbols", !.dll = answer, !.symbol = 1]
      OBVIOUS
    <2>2. Replace(c) /\ Usable /\ Running.pc = "loading"
      BY <1>8, <2>1 DEF DllLoaded, Loading
    <2>3. answer \in Slot
      BY <1>1, <2>2 DEF PeInv, Answered, Usable
    <2>4. c \in Act /\ c.name = Running.name
      BY <1>2, <2>1, <2>3, GoesOn
    <2> QED
      BY <1>1, <2>2, <2>4, CalledReplace
  <1>9. CASE Bind
    <2>1. PICK c : c = [Running EXCEPT !.symbol = @ + 1]
      OBVIOUS
    <2>2. Replace(c)
      BY <1>9, <2>1 DEF Bind, NextSymbol
    <2>3. c \in Act /\ c.name = Running.name
      BY <1>2, <2>1, GoesOn
    <2> QED
      BY <1>1, <2>2, <2>3, CalledReplace
  <1>10. CASE DirectoryBound
    <2>1. PICK c : c = [Running EXCEPT !.pc = "imports", !.dir = @ + 1]
      OBVIOUS
    <2>2. Replace(c)
      BY <1>10, <2>1 DEF DirectoryBound
    <2>3. c \in Act /\ c.name = Running.name
      BY <1>2, <2>1, GoesOn
    <2> QED
      BY <1>1, <2>2, <2>3, CalledReplace
  <1> QED
    BY <1>3, <1>4, <1>5, <1>6, <1>7, <1>8, <1>9, <1>10 DEF pe_load

\* The first call: no slot is used yet and the first one has its address.
LEMMA Started ==
  ASSUME Init, NEW start \in Nat, start >= ramfs_get_end, pe_loader_init(start)
  PROVE  PeInv' /\ Called'
  <1>1. /\ archive \in Archives /\ mem = [a \in {} |-> [file |-> 0, cell |-> 0]]
        /\ iat = [s \in AllSlot |-> <<>>] /\ answer = NoAnswer
        /\ UNCHANGED <<archive, mem, iat, answer>>
    BY DEF Init, pe_loader_init
  <1>2. PICK e : e = Call(KERNEL)
    OBVIOUS
  <1>3. /\ Slot = 0 .. (STATES_MAX - 1) /\ AllSlot = 0 .. STATES_MAX /\ STATES_MAX \in Nat \ {0}
        /\ AllSlot' = AllSlot /\ Slot' = Slot
    BY PeLoaderAssumption DEF Slot, AllSlot
  <1>4. slots' = [s \in AllSlot |-> IF s = 0 THEN [Empty EXCEPT !.load_addr = start] ELSE Empty]
    BY DEF pe_loader_init
  <1>5. PICK first : first = [Empty EXCEPT !.load_addr = start]
    OBVIOUS
  <1>6. /\ first = [name |-> NoName, load_addr |-> start, image_size |-> 0, entry |-> 0,
                    stack_size |-> 0]
        /\ slots'[0] = first /\ \A s \in AllSlot : s # 0 => slots'[s] = Empty
        /\ slots' = [s \in AllSlot |-> slots'[s]]
    <2>1. slots' = [s \in AllSlot |-> IF s = 0 THEN first ELSE Empty]
      BY <1>4, <1>5
    <2>2. 0 \in AllSlot
      BY <1>3
    <2>3. first = [name |-> NoName, load_addr |-> start, image_size |-> 0, entry |-> 0,
                    stack_size |-> 0]
      BY <1>5 DEF Empty
    <2> QED
      BY <2>1, <2>2, <2>3
  <1>7. /\ first.name = NoName /\ first.load_addr = start
        /\ Empty.name = NoName /\ Empty.load_addr = 0
    BY <1>6 DEF Empty
  <1>8. \A s \in AllSlot : slots'[s].name = NoName
    BY <1>6, <1>7
  <1>9. \A s \in AllSlot : ~(Named(s))'
    BY <1>8 DEF Named, NoName
  <1>10. \A s \in AllSlot : (Placed(s))' <=> s = 0
    <2> SUFFICES ASSUME NEW s \in AllSlot, s # 0 PROVE ~(Named(s - 1))'
      BY DEF Placed
    <2>1. s - 1 \in AllSlot
      BY <1>3
    <2> QED
      BY <1>9, <2>1
  <1>11. ramfs_get_end' = ramfs_get_end /\ Names' = Names /\ Needed' = Needed /\ Act' = Act
    BY <1>1, ArchiveKept
  <1> DEFINE Record == [name : Names \cup {NoName}, load_addr : Nat, image_size : Nat,
                        entry : Nat, stack_size : Nat]
  <1>12. slots' \in [AllSlot -> Record]
    <2>1. first \in Record /\ Empty \in Record
      BY <1>6 DEF Empty
    <2> HIDE DEF Record
    <2>2. \A s \in AllSlot : slots'[s] \in Record
      BY <1>6, <2>1
    <2> QED
      BY <1>6, <2>2
  <1>13. Layout'
    <2>1. slots'[STATES_MAX] = Empty
      BY <1>3, <1>6
    <2>2. \A s \in AllSlot : slots'[s] = [Empty EXCEPT !.load_addr = slots'[s].load_addr]
      <3>1. [Empty EXCEPT !.load_addr = 0] = Empty
        BY DEF Empty
      <3> QED
        BY <1>5, <1>6, <1>7, <3>1
    <2>3. \A s \in Slot : s \in AllSlot /\ s \in Nat
      BY <1>3
    <2>4. \A s \in Slot : (Placed(s))' => slots'[s].load_addr >= ramfs_get_end
      BY <1>6, <1>7, <1>10, <2>3
    <2>5. \A s \in AllSlot : ~(Placed(s))' => slots'[s] = Empty
      BY <1>6, <1>10
    <2>6. \A s, t \in Slot : s < t => ~(Placed(t))'
      BY <1>10, <2>3
    <2>7. slots' \in [AllSlot' -> [name : Names' \cup {NoName}, load_addr : Nat,
                                   image_size : Nat, entry : Nat, stack_size : Nat]]
      BY <1>3, <1>11, <1>12
    <2> QED
      BY <1>3, <1>9, <1>11, <2>1, <2>2, <2>4, <2>5, <2>6, <2>7 DEF Layout, Empty, NoName
  <1>14. Copies'
    <2>1. DOMAIN mem' = {}
      BY <1>1
    <2> QED
      BY <1>3, <1>9, <2>1 DEF Copies
  <1>15. /\ calls' = <<e>> /\ e \in Act /\ e.name = KERNEL /\ e.pc = "enter" /\ e.dir = 1
    BY <1>2, CallFacts DEF pe_loader_init, Names
  <1>16. Stack'
    <2>1. /\ calls' \in Seq(Act) /\ Len(calls') = 1 /\ DOMAIN calls' = {1} /\ calls'[1] = e
      BY <1>15
    <2>2. (Sound(e))'
      BY <1>11, <1>15, NeededFacts DEF Sound
    <2> QED
      BY <1>11, <2>1, <2>2 DEF Stack
  <1>17. Answered'
    <2>1. calls' # <<>> /\ Last(calls') = e
      BY <1>15 DEF Last
    <2>2. Running' = e
      BY <2>1 DEF Running
    <2>3. answer' = NoAnswer /\ NoAnswer \notin Slot /\ NoAnswer # Failure
      BY <1>1, <1>3 DEF NoAnswer, Failure
    <2> QED
      BY <1>3, <1>15, <2>1, <2>2, <2>3 DEF Answered
  <1>18. Bindings'
    <2>1. DOMAIN iat' = AllSlot
      BY <1>1
    <2> QED
      BY <1>3, <1>9, <2>1 DEF Bindings
  <1>19. Called'
    BY <1>15 DEF Called
  <1> QED
    BY <1>1, <1>13, <1>14, <1>16, <1>17, <1>18, <1>19 DEF PeInv

\* The rest of the loader leaves it alone.
LEMMA PeStays ==
  ASSUME UNCHANGED pevars
  PROVE  /\ PeInv => PeInv'
         /\ Called => Called'
         /\ Init => Init'
  <1>1. ASSUME PeInv PROVE PeInv'
    <2>1. /\ archive' = archive /\ slots' = slots /\ mem' = mem /\ iat' = iat
          /\ calls' = calls /\ answer' = answer
      BY DEF pevars
    <2>2. /\ \A c : ((Sound(c))' <=> Sound(c)) /\ (DllOf(c))' = DllOf(c)
          /\ \A s : (Named(s))' <=> Named(s)
          /\ \A s, d : (Linked(s, d))' <=> Linked(s, d)
          /\ \A s, d, m : (Bound(s, d, m))' <=> Bound(s, d, m)
      BY <2>1, SoundKept, BoundKept
    <2>3. /\ Act' = Act /\ (Loadable' <=> Loadable) /\ AllSlot' = AllSlot /\ Slot' = Slot
          /\ \A name : (ramfs_file(name))' = ramfs_file(name)
      BY <2>1, ArchiveKept DEF AllSlot, Slot
    <2>4. Layout' /\ Copies'
      BY <1>1, <2>1, LayoutKept, CopiesKept DEF PeInv
    <2>5. Stack'
      BY <1>1, <2>1, <2>2, <2>3 DEF PeInv, Stack
    <2>6. Answered'
      <3>1. Running' = Running
        BY <2>1 DEF Running
      <3> QED
        BY <1>1, <2>1, <2>2, <2>3, <3>1 DEF PeInv, Answered
    <2>7. \A s, d : /\ (PastDir(s, d))' <=> PastDir(s, d)
                    /\ \A m : (PastSymbol(s, d, m))' <=> PastSymbol(s, d, m)
      BY <2>1 DEF PastDir, PastSymbol
    <2>8. Bindings'
      BY <1>1, <2>1, <2>2, <2>3, <2>7 DEF PeInv, Bindings
    <2> QED
      BY <1>1, <2>1, <2>4, <2>5, <2>6, <2>8 DEF PeInv
  <1>2. Called => Called'
    BY DEF Called, pevars, Slot
  <1>3. Init => Init'
    BY DEF Init, pevars, AllSlot, Empty, NoName
  <1> QED
    BY <1>1, <1>2, <1>3

Early == {"size", "pci", "load", "loading", "halt"}

\* What comes after loading.
Prepare ==
  \/ enable_PAE \/ ClearTables \/ MapTables \/ LinkTables \/ FindRsdp
  \/ load_page_table \/ enable_long_mode \/ enable_paging \/ CallKernel

LEMMA PrepareFacts ==
  ASSUME Prepare
  PROVE  pc \notin Early /\ pc' \notin Early /\ UNCHANGED <<pevars, firmware, pci, device>>
  BY DEF Prepare, enable_PAE, ClearTables, MapTables, MapStep, LinkTables, FindRsdp,
         load_page_table, enable_long_mode, enable_paging, CallKernel, At, Early

LEMMA LoadInvKept ==
  ASSUME archive \in Archives, LoadInv, [Next]_vars
  PROVE  LoadInv' /\ archive' \in Archives
  <1>1. CASE CheckSize
    <2>1. /\ pc = "size" /\ pc' = (IF firmware.info_size_ok THEN "pci" ELSE "halt")
          /\ UNCHANGED pevars /\ firmware' = firmware
      BY <1>1 DEF CheckSize, At
    <2>2. Init'
      BY <2>1, PeStays DEF LoadInv
    <2>3. archive' = archive
      BY <2>1 DEF pevars
    <2> QED
      BY <2>1, <2>2, <2>3 DEF LoadInv
  <1>2. CASE DisableDevice
    <2>1. pc = "pci" /\ pc' \in {"pci", "load"} /\ UNCHANGED pevars
      BY <1>2 DEF DisableDevice, At
    <2>2. Init'
      BY <2>1, PeStays DEF LoadInv
    <2>3. archive' = archive
      BY <2>1 DEF pevars
    <2> QED
      BY <2>1, <2>2, <2>3 DEF LoadInv
  <1>3. CASE StartLoading
    <2>1. PICK start : start = align_page(ramfs_get_end)
      OBVIOUS
    <2>2. pc = "load" /\ pc' = "loading" /\ pe_loader_init(start)
      BY <1>3, <2>1 DEF StartLoading, At
    <2>3. Init
      BY <2>2 DEF LoadInv
    <2>4. start \in Nat /\ start >= ramfs_get_end
      <3>1. ramfs_get_end \in Nat
        BY EndFacts
      <3>2. start \in Nat /\ ramfs_get_end <= start
        BY <2>1, <3>1, Aligned
      <3> QED
        BY <3>1, <3>2
    <2>5. PeInv' /\ Called'
      BY <2>2, <2>3, <2>4, Started
    <2> QED
      BY <2>2, <2>5 DEF LoadInv, PeInv
  <1>4. CASE Load
    <2>1. pc = "loading" /\ pc' = pc /\ pe_load
      BY <1>4 DEF Load
    <2>2. PeInv' /\ Called'
      BY <2>1, PeKept, CalledKept DEF LoadInv
    <2> QED
      BY <2>1, <2>2 DEF LoadInv, PeInv
  <1>5. CASE Loaded
    <2>1. /\ pc = "loading" /\ pc' = (IF answer = Failure THEN "halt" ELSE "pae")
          /\ calls = <<>> /\ UNCHANGED pevars
      BY <1>5 DEF Loaded, At, Done
    <2>2. PeInv /\ Called
      BY <2>1 DEF LoadInv
    <2>3. PeInv' /\ Called'
      BY <2>1, <2>2, PeStays
    <2>4. answer = Failure \/ answer \in Slot
      BY <2>1, <2>2 DEF PeInv, Answered
    <2>5. calls' = <<>> /\ answer' = answer /\ Slot' = Slot
      BY <2>1 DEF pevars, Slot
    <2> QED
      BY <2>1, <2>3, <2>4, <2>5 DEF LoadInv, PeInv
  <1>6. CASE Prepare
    <2>1. pc \notin Early /\ pc' \notin Early /\ UNCHANGED pevars
      BY <1>6, PrepareFacts
    <2>2. PeInv' /\ Called' /\ calls = <<>> /\ answer \in Slot
      BY <2>1, PeStays DEF LoadInv, Early
    <2>3. calls' = calls /\ answer' = answer /\ Slot' = Slot /\ archive' = archive
      BY <2>1 DEF pevars, Slot
    <2> QED
      BY <2>1, <2>2, <2>3 DEF LoadInv, Early
  <1>7. CASE UNCHANGED vars
    <2>1. UNCHANGED pevars /\ pc' = pc /\ firmware' = firmware
      BY <1>7 DEF vars
    <2>2. calls' = calls /\ answer' = answer /\ Slot' = Slot /\ archive' = archive
      BY <2>1 DEF pevars, Slot
    <2> QED
      BY <2>1, <2>2, PeStays DEF LoadInv
  <1> QED
    BY <1>1, <1>2, <1>3, <1>4, <1>5, <1>6, <1>7 DEF Next, tsl_entry, Stay, Prepare

-----------------------------------------------------------------------------
(***************************************************************************)
(* The PCI functions.                                                      *)
(***************************************************************************)
LEMMA FirmwareFacts ==
  ASSUME NEW f \in Firmwares
  PROVE  /\ f.info_size_ok \in BOOLEAN
         /\ \A x \in DOMAIN f.pci :
              /\ x[1] \in Devices /\ x[1] \in Nat /\ x[2] \in Functions
              /\ <<x[1], 0>> \in DOMAIN f.pci
              /\ x[2] # 0 => x[1] \in f.multi
              /\ f.pci[x] \in [io : BOOLEAN, memory : BOOLEAN, master : BOOLEAN, errors : BOOLEAN]
  BY TslAssumption

LEMMA DeviceFacts ==
  /\ Min(Devices) = 0 /\ 0 \in Devices
  /\ \A d \in Devices : d \in Nat
  /\ \A d \in Devices, e \in Nat : e <= d => e \in Devices
  <1>1. /\ Devices \subseteq Nat /\ 0 \in Devices
        /\ \A d \in Devices, e \in Nat : e <= d => e \in Devices
    <2>1. \A d \in Devices : d \in Nat /\ 0 .. d \subseteq Devices
      BY TslAssumption
    <2>2. 0 \in Devices
      BY TslAssumption
    <2> QED
      BY <2>1, <2>2
  <1>2. PICK m : m = Min(Devices)
    OBVIOUS
  <1>3. m \in Devices /\ m <= 0
    BY <1>1, <1>2, LeastExists
  <1>4. m \in Nat
    BY <1>1, <1>3
  <1>5. m = 0
    BY <1>3, <1>4
  <1>6. \A d \in Devices : d \in Nat
    BY <1>1
  <1> QED
    BY <1>1, <1>2, <1>5, <1>6

LEMMA DisabledFacts ==
  ASSUME NEW r \in [io : BOOLEAN, memory : BOOLEAN, master : BOOLEAN, errors : BOOLEAN]
  PROVE  /\ Disabled(r) \in [io : BOOLEAN, memory : BOOLEAN, master : BOOLEAN, errors : BOOLEAN]
         /\ ~Disabled(r).io /\ ~Disabled(r).memory /\ Disabled(r).master = r.master
  BY DEF Disabled

\* Every function of the device that is there is written to.
LEMMA DeviceDisabled ==
  ASSUME PciInv, DisableDevice
  PROVE  PciInv'
  <1>1. /\ pc = "pci" /\ pc' = (IF device + 1 \in Devices THEN "pci" ELSE "load")
        /\ firmware' = firmware /\ device' = device + 1
        /\ pci' = [x \in DOMAIN pci |->
                     IF x[1] = device /\ x[2] \in FunctionsOf(device)
                     THEN Disabled(pci[x]) ELSE pci[x]]
    BY DEF DisableDevice, At
  <1>2. /\ firmware \in Firmwares /\ DOMAIN pci = DOMAIN firmware.pci
        /\ device \in Devices /\ device \in Nat
        /\ \A x \in DOMAIN pci : x[1] < device => IsOff(x)
        /\ \A x \in DOMAIN pci :
             /\ pci[x] \in [io : BOOLEAN, memory : BOOLEAN, master : BOOLEAN, errors : BOOLEAN]
             /\ pci[x].master = firmware.pci[x].master
    BY <1>1 DEF PciInv
  <1>3. /\ DOMAIN pci' = DOMAIN pci
        /\ \A x \in DOMAIN pci : pci'[x] = IF x[1] = device /\ x[2] \in FunctionsOf(device)
                                           THEN Disabled(pci[x]) ELSE pci[x]
    BY <1>1
  <1>4. \A x \in DOMAIN pci : x[1] \in Devices /\ x[1] \in Nat
    BY <1>2, FirmwareFacts
  <1>5. \A x \in DOMAIN pci : x[1] = device => x[2] \in FunctionsOf(device)
    <2> SUFFICES ASSUME NEW x \in DOMAIN pci, x[1] = device PROVE x[2] \in FunctionsOf(device)
      OBVIOUS
    <2>1. /\ <<device, 0>> \in DOMAIN pci /\ x[2] \in Functions
          /\ x[2] # 0 => device \in firmware.multi
      BY <1>2, FirmwareFacts
    <2> QED
      BY <2>1 DEF FunctionsOf
  <1>6. \A x \in DOMAIN pci :
          /\ pci'[x] \in [io : BOOLEAN, memory : BOOLEAN, master : BOOLEAN, errors : BOOLEAN]
          /\ pci'[x].master = firmware.pci[x].master
    BY <1>2, <1>3, DisabledFacts
  <1>7. \A x \in DOMAIN pci : x[1] <= device => (IsOff(x))'
    <2> SUFFICES ASSUME NEW x \in DOMAIN pci, x[1] <= device PROVE ~pci'[x].io /\ ~pci'[x].memory
      BY DEF IsOff
    <2>1. CASE x[1] = device
      BY <1>2, <1>3, <1>5, <2>1, DisabledFacts
    <2>2. CASE x[1] # device
      <3>1. x[1] < device
        BY <1>2, <1>4, <2>2
      <3> QED
        BY <1>2, <1>3, <2>2, <3>1 DEF IsOff
    <2> QED
      BY <2>1, <2>2
  <1>8. device + 1 \in Nat /\ \A x \in DOMAIN pci : x[1] < device + 1 <=> x[1] <= device
    BY <1>2, <1>4
  <1>9. CASE device + 1 \in Devices
    <2>1. pc' = "pci"
      BY <1>1, <1>9
    <2> QED
      BY <1>1, <1>2, <1>3, <1>6, <1>7, <1>8, <1>9, <2>1 DEF PciInv
  <1>10. CASE device + 1 \notin Devices
    <2>1. pc' = "load"
      BY <1>1, <1>10
    <2>2. \A x \in DOMAIN pci : x[1] <= device
      BY <1>4, <1>2, <1>8, <1>10, DeviceFacts
    <2> QED
      BY <1>1, <1>2, <1>3, <1>6, <1>7, <1>8, <2>1, <2>2 DEF PciInv
  <1> QED
    BY <1>9, <1>10

LEMMA PciInvKept ==
  ASSUME PciInv, [Next]_vars
  PROVE  PciInv'
  <1>1. CASE CheckSize
    <2>1. /\ pc = "size" /\ pc' = (IF firmware.info_size_ok THEN "pci" ELSE "halt")
          /\ UNCHANGED <<firmware, pci, device>>
      BY <1>1 DEF CheckSize, At
    <2>2. device = 0 /\ 0 \in Devices
      BY <2>1, DeviceFacts DEF PciInv
    <2>3. \A x \in DOMAIN pci : x[1] \in Nat
      BY FirmwareFacts DEF PciInv
    <2>4. \A x \in DOMAIN pci : ~(x[1] < device)
      BY <2>2, <2>3
    <2> QED
      BY <2>1, <2>2, <2>4 DEF PciInv, IsOff
  <1>2. CASE DisableDevice
    BY <1>2, DeviceDisabled
  <1>3. CASE StartLoading \/ Load \/ Loaded
    <2>1. /\ pc \in {"load", "loading"} /\ pc' \in {"loading", "halt", "pae"}
          /\ UNCHANGED <<firmware, pci, device>>
      BY <1>3 DEF StartLoading, Load, Loaded, At
    <2> QED
      BY <2>1 DEF PciInv, IsOff
  <1>4. CASE Prepare
    <2>1. pc \notin Early /\ pc' \notin Early /\ UNCHANGED <<firmware, pci, device>>
      BY <1>4, PrepareFacts
    <2> QED
      BY <2>1 DEF PciInv, IsOff, Early
  <1>5. CASE UNCHANGED vars
    BY <1>5 DEF vars, PciInv, IsOff
  <1> QED
    BY <1>1, <1>2, <1>3, <1>4, <1>5 DEF Next, tsl_entry, Stay, Prepare

-----------------------------------------------------------------------------
(***************************************************************************)
(* Memory and page tables.                                                 *)
(***************************************************************************)
\* Images are above the archive.
LEMMA NamedAbove ==
  ASSUME PeInv, NEW s \in AllSlot, Named(s)
  PROVE  Placed(s) /\ slots[s].load_addr >= ramfs_get_end
  <1>1. s \in Slot
    BY ImageFacts
  <1>2. Placed(s)
    <2> SUFFICES ASSUME s # 0 PROVE Named(s - 1)
      BY DEF Placed
    <2>1. s - 1 \in AllSlot /\ s - 1 < s
      BY <1>1, PeLoaderAssumption DEF Slot, AllSlot
    <2> QED
      BY <2>1 DEF PeInv, Layout
  <1> QED
    BY <1>1, <1>2 DEF PeInv, Layout

\* The last slot with an address has the last image or is behind it.
LEMMA RangeEnd ==
  ASSUME PeInv
  PROVE  /\ pe_get_memory_range_end \in Nat /\ pe_get_memory_range_end >= ramfs_get_end
         /\ \A t \in AllSlot : Named(t) =>
              slots[t].load_addr + slots[t].image_size <= pe_get_memory_range_end
  <1>1. /\ Slot = 0 .. (STATES_MAX - 1) /\ AllSlot = 0 .. STATES_MAX /\ STATES_MAX \in Nat \ {0}
        /\ ramfs_get_end \in Nat /\ ramfs_get_end > 0
    BY EndFacts, PeLoaderAssumption DEF Slot, AllSlot, PeInv
  <1>2. Layout
    BY DEF PeInv
  <1> DEFINE U == {s \in 1 .. STATES_MAX : s = STATES_MAX \/ ~Placed(s)}
  <1> PICK u, m : u = Min(U) /\ m = u - 1
    OBVIOUS
  <1>3. u \in U /\ \A s \in U : u <= s
    <2>1. U \subseteq Nat /\ STATES_MAX \in U
      BY <1>1
    <2> HIDE DEF U
    <2> QED
      BY <2>1, LeastExists
  <1>4. m \in Nat /\ m \in Slot /\ u = m + 1 /\ u \in Nat
    BY <1>1, <1>3
  <1>5. Placed(m)
    <2>1. CASE m = 0
      BY <2>1 DEF Placed
    <2>2. CASE m # 0
      <3>1. m \in 1 .. STATES_MAX /\ m # STATES_MAX /\ ~(u <= m)
        BY <1>1, <1>4, <2>2
      <3> QED
        BY <1>3, <3>1
    <2> QED
      BY <2>1, <2>2
  <1>6. ASSUME NEW t \in Slot, Placed(t) PROVE t <= m
    <2> SUFFICES ASSUME t >= u PROVE FALSE
      BY <1>1, <1>4
    <2>1. u # STATES_MAX /\ ~Placed(u)
      BY <1>1, <1>3, <1>4, <1>6
    <2>2. t - 1 \in AllSlot /\ u - 1 \in AllSlot /\ t # 0 /\ u # 0 /\ (t = u \/ u - 1 < t - 1)
      BY <1>1, <1>4
    <2>3. Named(t - 1) /\ ~Named(u - 1)
      BY <1>6, <2>1, <2>2 DEF Placed
    <2>4. u - 1 < t - 1 => Named(u - 1)
      BY <1>2, <2>2, <2>3 DEF Layout
    <2> QED
      BY <2>2, <2>3, <2>4
  <1> HIDE DEF U
  <1> DEFINE Addressed == {s \in Slot : slots[s].load_addr # 0}
  <1>7. \A s \in Slot : s \in Addressed <=> Placed(s)
    <2> SUFFICES ASSUME NEW s \in Slot PROVE slots[s].load_addr # 0 <=> Placed(s)
      OBVIOUS
    <2>1. Placed(s) => slots[s].load_addr >= ramfs_get_end
      BY <1>2 DEF Layout
    <2>2. s \in AllSlot
      BY <1>1
    <2>3. ~Placed(s) => slots[s].load_addr = 0
      BY <1>2, <2>2 DEF Layout, Empty
    <2>4. slots[s].load_addr \in Nat
      BY <1>2, <2>2 DEF Layout
    <2> QED
      BY <1>1, <2>1, <2>3, <2>4
  <1>8. Max(Addressed) = m
    <2>1. Addressed \subseteq Nat
      BY <1>1
    <2>2. m \in Addressed /\ \A s \in Addressed : s <= m
      BY <1>4, <1>5, <1>6, <1>7
    <2> HIDE DEF Addressed
    <2> QED
      BY <2>1, <2>2, MaxIs
  <1>9. pe_get_memory_range_end = slots[m].load_addr + slots[m].image_size
    BY <1>8 DEF pe_get_memory_range_end
  <1>10. /\ slots[m].load_addr \in Nat /\ slots[m].image_size \in Nat
         /\ slots[m].load_addr >= ramfs_get_end
    <2>1. m \in AllSlot
      BY <1>1, <1>4
    <2> QED
      BY <1>2, <1>4, <1>5, <2>1 DEF Layout
  <1>11. ASSUME NEW t \in AllSlot, Named(t)
         PROVE  slots[t].load_addr + slots[t].image_size
                  <= slots[m].load_addr + slots[m].image_size
    <2>1. t \in Slot
      BY <1>11, ImageFacts
    <2>2. Placed(t)
      BY <1>11, NamedAbove
    <2>3. t <= m
      BY <1>6, <2>1, <2>2
    <2>4. CASE t = m
      BY <1>10, <2>4
    <2>5. CASE t # m
      <3>1. t < m
        BY <1>1, <1>4, <2>1, <2>3, <2>5
      <3>2. slots[t].load_addr + slots[t].image_size <= slots[m].load_addr
        BY <1>2, <1>4, <1>5, <2>1, <3>1 DEF Layout
      <3>3. slots[t].load_addr \in Nat /\ slots[t].image_size \in Nat
        BY <1>2 DEF Layout
      <3> QED
        BY <1>10, <3>2, <3>3
    <2> QED
      BY <2>4, <2>5
  <1>12. pe_get_memory_range_end \in Nat /\ pe_get_memory_range_end >= ramfs_get_end
    BY <1>1, <1>9, <1>10
  <1> QED
    BY <1>9, <1>11, <1>12

\* The pages of a range of whole pages are those of its addresses.
LEMMA PagesFacts ==
  ASSUME NEW f \in Nat, NEW n \in Nat
  PROVE  /\ f * PAGE \in Nat /\ Pages(f * PAGE, n) = f .. (f + n - 1)
         /\ \A a \in Nat : f * PAGE <= a /\ a < (f + n) * PAGE =>
              PageOf(a) \in Pages(f * PAGE, n) /\ PageOf(a) < f + n
  <1> PICK page, b : page = PAGE /\ b = f * page
    OBVIOUS
  <1>1. page \in Nat \ {0} /\ b \in Nat /\ b \div page = f
    BY TslAssumption
  <1>2. Pages(f * PAGE, n) = f .. (f + n - 1)
    BY <1>1 DEF Pages
  <1>3. ASSUME NEW a \in Nat, b <= a, a < (f + n) * PAGE
        PROVE  PageOf(a) \in f .. (f + n - 1) /\ PageOf(a) < f + n
    <2>1. f + n \in Nat
      OBVIOUS
    <2>2. f <= PageOf(a) /\ PageOf(a) < f + n /\ PageOf(a) \in Nat
      BY <1>3, <2>1, PageFacts
    <2> QED
      BY <2>2
  <1> QED
    BY <1>1, <1>2, <1>3

LEMMA PageOrder ==
  ASSUME NEW p \in Nat, NEW q \in Nat
  PROVE  p * PAGE <= q * PAGE <=> p <= q
  <1> PICK page : page = PAGE
    OBVIOUS
  <1>1. page \in Nat \ {0}
    BY TslAssumption
  <1>2. p <= q => p * page <= q * page
    <2> SUFFICES ASSUME p <= q PROVE p * page <= q * page
      OBVIOUS
    <2>1. PICK n \in Nat : q = p + n
      <3>1. q - p \in Nat /\ q = p + (q - p)
        OBVIOUS
      <3> QED
        BY <3>1
    <2>2. q * page = p * page + n * page
      BY <1>1, <2>1
    <2>3. n * page \in Nat /\ p * page \in Nat
      BY <1>1
    <2> QED
      BY <2>2, <2>3
  <1>3. ~(p <= q) => ~(p * page <= q * page)
    <2> SUFFICES ASSUME q + 1 <= p PROVE q * page < p * page
      <3>1. p * page \in Nat /\ q * page \in Nat
        BY <1>1
      <3> QED
        BY <3>1
    <2>1. PICK n \in Nat : p = (q + 1) + n
      <3>1. p - (q + 1) \in Nat /\ p = (q + 1) + (p - (q + 1))
        OBVIOUS
      <3> QED
        BY <3>1
    <2>2. p * page = q * page + page + n * page
      BY <1>1, <2>1
    <2>3. n * page \in Nat /\ q * page \in Nat
      BY <1>1
    <2> QED
      BY <1>1, <2>2, <2>3
  <1> QED
    BY <1>2, <1>3

LEMMA Exact ==
  ASSUME NEW a \in Nat, a % PAGE = 0
  PROVE  a \div PAGE \in Nat /\ a = (a \div PAGE) * PAGE
  <1> PICK page, q, r : page = PAGE /\ q = a \div PAGE /\ r = a % PAGE
    OBVIOUS
  <1>1. page \in Nat \ {0} /\ q \in Nat /\ a = q * page + r /\ r = 0
    BY TslAssumption
  <1> QED
    BY <1>1

\* The pages of memory: s and t are the first ones of the loaders, r is the
\* first one of the archive, e is the one behind the images, and the stack has n.
LaidOut(s, t, r, e, n) ==
  /\ SSL = s * PAGE /\ TSL = t * PAGE /\ RAMFS = r * PAGE /\ pe_memory_end = e * PAGE
  /\ s + SEGMENT <= r /\ t + SEGMENT <= r /\ r <= e
  /\ SSL + SEGMENT * PAGE = (s + SEGMENT) * PAGE
  /\ TSL + SEGMENT * PAGE = (t + SEGMENT) * PAGE
  /\ ImagePages = e - r /\ StackPages = n
  /\ kernel.stack_size \in Nat /\ pe_memory_end + kernel.stack_size <= (e + n) * PAGE
  /\ pe_get_memory_range_end <= pe_memory_end /\ pe_memory_end \in Nat
  /\ FitsTable <=> e + n <= ENTRIES

LEMMA LaidOutExists ==
  ASSUME PeInv, answer \in Slot
  PROVE  \E s, t, r, e, n \in Nat : LaidOut(s, t, r, e, n)
  <1> PICK s, t, r, e, n : /\ s = SSL \div PAGE /\ t = TSL \div PAGE /\ r = RAMFS \div PAGE
                           /\ e = pe_memory_end \div PAGE /\ n = StackPages
    OBVIOUS
  <1>1. s \in Nat /\ SSL = s * PAGE /\ t \in Nat /\ TSL = t * PAGE /\ r \in Nat /\ RAMFS = r * PAGE
    BY Exact, TslAssumption, PeLoaderAssumption
  <1>2. PICK end : end = pe_get_memory_range_end
    OBVIOUS
  <1>3. end \in Nat /\ end >= RAMFS
    <2>1. end \in Nat /\ end >= ramfs_get_end
      BY <1>2, RangeEnd
    <2>2. ramfs_get_end \in Nat /\ ramfs_get_end >= RAMFS
      BY EndFacts DEF PeInv
    <2> QED
      BY <2>1, <2>2, PeLoaderAssumption
  <1>4. pe_memory_end \in Nat /\ end <= pe_memory_end /\ e \in Nat /\ pe_memory_end = e * PAGE
    BY <1>2, <1>3, Aligned DEF pe_memory_end
  <1>5. r <= e
    <2>1. r * PAGE <= e * PAGE
      BY <1>1, <1>3, <1>4, PeLoaderAssumption
    <2> QED
      BY <1>1, <1>4, <2>1, PageOrder
  <1>6. PICK page, m : page = PAGE /\ m = SEGMENT
    OBVIOUS
  <1>7. page \in Nat \ {0} /\ m \in Nat
    BY <1>6, TslAssumption
  <1>8. SSL + m * page = (s + m) * page /\ TSL + m * page = (t + m) * page
    BY <1>1, <1>6, <1>7
  <1>9. s + m <= r /\ t + m <= r
    <2>1. (s + m) * PAGE <= r * PAGE /\ (t + m) * PAGE <= r * PAGE
      BY <1>1, <1>6, <1>8, TslAssumption
    <2>2. s + m \in Nat /\ t + m \in Nat
      BY <1>1, <1>7
    <2> QED
      BY <1>1, <2>1, <2>2, PageOrder
  <1>10. ImagePages = e - r
    <2>1. PICK d \in Nat : e = r + d
      <3>1. e - r \in Nat /\ e = r + (e - r)
        BY <1>1, <1>4, <1>5
      <3> QED
        BY <3>1
    <2>2. e * page - r * page = d * page
      BY <1>1, <1>7, <2>1
    <2>3. (d * page) \div page = d
      BY <1>7
    <2>4. d = e - r
      BY <1>1, <2>1
    <2> QED
      BY <1>1, <1>4, <1>6, <2>2, <2>3, <2>4 DEF ImagePages
  <1>11. PICK stack : stack = kernel.stack_size
    OBVIOUS
  <1>12. stack \in Nat
    BY <1>11, PeLoaderAssumption DEF PeInv, Layout, kernel, Slot, AllSlot
  <1>13. n \in Nat /\ stack <= n * PAGE
    <2>1. align_page(stack) \in Nat /\ stack <= align_page(stack)
          /\ align_page(stack) \div PAGE \in Nat
          /\ align_page(stack) = (align_page(stack) \div PAGE) * PAGE
      BY <1>12, Aligned
    <2> QED
      BY <1>11, <2>1 DEF StackPages
  <1>14. pe_memory_end + stack <= (e + n) * PAGE
    <2>1. (e + n) * page = e * page + n * page /\ n * page \in Nat /\ e * page \in Nat
      BY <1>4, <1>7, <1>13
    <2> QED
      BY <1>4, <1>6, <1>12, <1>13, <2>1
  <1>15. FitsTable <=> e + n <= ENTRIES
    BY DEF FitsTable
  <1>16. LaidOut(s, t, r, e, n)
    BY <1>1, <1>2, <1>4, <1>5, <1>6, <1>8, <1>9, <1>10, <1>11, <1>12, <1>14, <1>15 DEF LaidOut
  <1> QED
    BY <1>1, <1>4, <1>13, <1>16

\* The kernel has an image, and its entry point is in it.
LEMMA KernelFacts ==
  ASSUME PeInv, answer \in Slot
  PROVE  /\ kernel.entry \in Nat /\ RAMFS <= kernel.entry
         /\ kernel.entry < pe_get_memory_range_end
  <1> PICK s, file : s = answer /\ file = ramfs_file(slots[s].name)
    OBVIOUS
  <1>1. s \in AllSlot /\ s \in Slot /\ Named(s)
    BY PeLoaderAssumption DEF PeInv, Answered, Slot, AllSlot
  <1>2. /\ slots[s].image_size = file.size /\ slots[s].entry = slots[s].load_addr + file.entry
        /\ slots[s].load_addr \in Nat
    BY <1>1 DEF PeInv, Layout
  <1>3. file.size \in Nat /\ file.entry \in 0 .. (file.size - 1)
    <2>1. Exists(slots[s].name)
      BY <1>1, ImageFacts
    <2> QED
      BY <2>1, FoundFacts, FileFacts DEF PeInv
  <1>4. slots[s].load_addr >= ramfs_get_end
    BY <1>1, NamedAbove
  <1>5. ramfs_get_end \in Nat /\ ramfs_get_end >= RAMFS
    BY EndFacts DEF PeInv
  <1>6. /\ pe_get_memory_range_end \in Nat
        /\ slots[s].load_addr + slots[s].image_size <= pe_get_memory_range_end
    BY <1>1, RangeEnd
  <1>7. kernel.entry = slots[s].load_addr + file.entry
    BY <1>2 DEF kernel
  <1> QED
    BY <1>2, <1>3, <1>4, <1>5, <1>6, <1>7, PeLoaderAssumption

\* What is mapped when the tables are built.
LEMMA AllMapped ==
  ASSUME PeInv, answer \in Slot, MachineInv, pc \in WithTables, FitsTable
  PROVE  /\ \A a \in Nat : SSL <= a /\ a < SSL + SEGMENT * PAGE => Translated(PageOf(a))
         /\ \A a \in Nat : TSL <= a /\ a < TSL + SEGMENT * PAGE => Translated(PageOf(a))
         /\ \A a \in Nat : RAMFS <= a /\ a < pe_memory_end + kernel.stack_size =>
              Translated(PageOf(a))
  <1>1. PICK s, t, r, e, n \in Nat : LaidOut(s, t, r, e, n)
    BY LaidOutExists
  <1>2. /\ SSL = s * PAGE /\ TSL = t * PAGE /\ RAMFS = r * PAGE /\ pe_memory_end = e * PAGE
        /\ s + SEGMENT <= r /\ t + SEGMENT <= r /\ r <= e /\ e + n <= ENTRIES
        /\ SSL + SEGMENT * PAGE = (s + SEGMENT) * PAGE
        /\ TSL + SEGMENT * PAGE = (t + SEGMENT) * PAGE
        /\ ImagePages = e - r /\ StackPages = n
        /\ kernel.stack_size \in Nat /\ pe_memory_end + kernel.stack_size <= (e + n) * PAGE
    BY <1>1 DEF LaidOut
  <1>3. /\ Pages(SSL, SEGMENT) \subseteq DOMAIN pml1 /\ Pages(TSL, SEGMENT) \subseteq DOMAIN pml1
        /\ Pages(RAMFS, ImagePages) \subseteq DOMAIN pml1
        /\ Pages(pe_memory_end, StackPages) \subseteq DOMAIN pml1
        /\ cpu.linked /\ \A i \in DOMAIN pml1 : i \in Nat /\ pml1[i] = i
    BY DEF MachineInv, WithSsl, WithTsl, WithImages, WithStack
  <1>4. ENTRIES \in Nat /\ SEGMENT \in Nat
    BY TslAssumption
  <1>5. ASSUME NEW p, p \in DOMAIN pml1, p < e + n PROVE Translated(p)
    <2>1. p \in Nat /\ p < ENTRIES
      BY <1>2, <1>3, <1>4, <1>5
    <2> QED
      BY <1>3, <1>5, <2>1 DEF Translated
  <1>6. ASSUME NEW a \in Nat, SSL <= a, a < SSL + SEGMENT * PAGE PROVE Translated(PageOf(a))
    <2>1. PageOf(a) \in Pages(SSL, SEGMENT) /\ PageOf(a) < s + SEGMENT
      BY <1>2, <1>4, <1>6, PagesFacts
    <2>2. PageOf(a) \in DOMAIN pml1 /\ PageOf(a) \in Nat
      BY <1>3, <2>1
    <2>3. PageOf(a) < e + n
      BY <1>2, <1>4, <2>1, <2>2
    <2> QED
      BY <1>5, <2>2, <2>3
  <1>7. ASSUME NEW a \in Nat, TSL <= a, a < TSL + SEGMENT * PAGE PROVE Translated(PageOf(a))
    <2>1. PageOf(a) \in Pages(TSL, SEGMENT) /\ PageOf(a) < t + SEGMENT
      BY <1>2, <1>4, <1>7, PagesFacts
    <2>2. PageOf(a) \in DOMAIN pml1 /\ PageOf(a) \in Nat
      BY <1>3, <2>1
    <2>3. PageOf(a) < e + n
      BY <1>2, <1>4, <2>1, <2>2
    <2> QED
      BY <1>5, <2>2, <2>3
  <1>8. ASSUME NEW a \in Nat, RAMFS <= a, a < pe_memory_end + kernel.stack_size
        PROVE  Translated(PageOf(a))
    <2>1. CASE a < e * PAGE
      <3>1. e - r \in Nat /\ r + (e - r) = e
        BY <1>2
      <3>2. PageOf(a) \in Pages(RAMFS, e - r) /\ PageOf(a) < e
        <4>1. PICK m \in Nat : m = e - r
          BY <3>1
        <4>2. r * PAGE <= a /\ a < (r + m) * PAGE /\ r + m = e
          BY <1>2, <1>8, <2>1, <3>1, <4>1
        <4>3. PageOf(a) \in Pages(r * PAGE, m) /\ PageOf(a) < r + m
          BY <4>2, PagesFacts
        <4> QED
          BY <1>2, <4>1, <4>2, <4>3
      <3>3. PageOf(a) \in DOMAIN pml1 /\ PageOf(a) \in Nat
        BY <1>2, <1>3, <3>2
      <3>4. PageOf(a) < e + n
        BY <3>2, <3>3
      <3> QED
        BY <1>5, <3>3, <3>4
    <2>2. CASE ~(a < e * PAGE)
      <3>1. e * PAGE \in Nat /\ (e + n) * PAGE \in Nat
        <4>1. PICK f : f = e + n
          OBVIOUS
        <4>2. f \in Nat
          BY <4>1
        <4>3. f * PAGE \in Nat /\ e * PAGE \in Nat
          BY <4>2, PagesFacts
        <4> QED
          BY <4>1, <4>3
      <3>2. e * PAGE <= a /\ a < (e + n) * PAGE
        BY <1>2, <1>8, <2>2, <3>1
      <3>3. PageOf(a) \in Pages(pe_memory_end, n) /\ PageOf(a) < e + n
        BY <1>2, <3>2, PagesFacts
      <3>4. PageOf(a) \in DOMAIN pml1
        BY <1>2, <1>3, <3>3
      <3> QED
        BY <1>5, <3>3, <3>4
    <2> QED
      BY <2>1, <2>2
  <1> QED
    BY <1>6, <1>7, <1>8

\* The processor does not fault if the last page has an entry.
LEMMA NoFault ==
  ASSUME PeInv, answer \in Slot, MachineInv, pc \in WithTables, FitsTable
  PROVE  /\ Translated(PageOf(SSL)) /\ Translated(PageOf(TSL))
         /\ Translated(PageOf(kernel.entry)) /\ Translated(PageOf(tmp_stack - 1))
         /\ \A a \in Entered : Translated(PageOf(a))
         /\ DOMAIN mem \cap (pe_memory_end .. (tmp_stack - 1)) = {}
  <1>1. PICK s, t, r, e, n \in Nat : LaidOut(s, t, r, e, n)
    BY LaidOutExists
  <1> PICK end, last, stack : /\ end = pe_memory_end /\ last = pe_get_memory_range_end
                              /\ stack = kernel.stack_size
    OBVIOUS
  <1>2. end \in Nat /\ stack \in Nat /\ last <= end
    BY <1>1 DEF LaidOut
  <1>3. /\ last \in Nat /\ ramfs_get_end <= last /\ ramfs_get_end \in Nat /\ RAMFS <= ramfs_get_end
    BY RangeEnd, EndFacts DEF PeInv
  <1>4. kernel.entry \in Nat /\ RAMFS <= kernel.entry /\ kernel.entry < last
    BY KernelFacts
  <1>5. SEGMENT * PAGE \in Nat /\ SEGMENT * PAGE > 0
    <2> PICK m, page : m = SEGMENT /\ page = PAGE
      OBVIOUS
    <2>1. m \in Nat \ {0} /\ page \in Nat \ {0}
      BY TslAssumption
    <2>2. m * page \in Nat /\ m * page > 0
      BY <2>1
    <2> QED
      BY <2>2
  <1>6. /\ SSL \in Nat /\ TSL \in Nat /\ RAMFS \in Nat /\ SSL < SSL + SEGMENT * PAGE
        /\ TSL < TSL + SEGMENT * PAGE
    BY <1>5, TslAssumption, PeLoaderAssumption
  <1>7. tmp_stack = end + stack
    BY DEF tmp_stack
  <1>8. /\ \A a \in Nat : SSL <= a /\ a < SSL + SEGMENT * PAGE => Translated(PageOf(a))
        /\ \A a \in Nat : TSL <= a /\ a < TSL + SEGMENT * PAGE => Translated(PageOf(a))
        /\ \A a \in Nat : RAMFS <= a /\ a < end + stack => Translated(PageOf(a))
    BY AllMapped
  <1>9. Translated(PageOf(SSL)) /\ Translated(PageOf(TSL))
    BY <1>6, <1>8
  <1>10. kernel.entry < end + stack
    BY <1>2, <1>3, <1>4
  <1>11. /\ tmp_stack - 1 \in Nat /\ RAMFS <= tmp_stack - 1 /\ tmp_stack - 1 < end + stack
    BY <1>2, <1>3, <1>4, <1>6, <1>7
  <1>12. Translated(PageOf(kernel.entry)) /\ Translated(PageOf(tmp_stack - 1))
    BY <1>4, <1>8, <1>10, <1>11
  <1>13. \A a \in DOMAIN mem : a \in Nat /\ RAMFS <= a /\ a < last
    <2> SUFFICES ASSUME NEW a \in DOMAIN mem PROVE a \in Nat /\ RAMFS <= a /\ a < last
      OBVIOUS
    <2>1. a \in Nat /\ \E u \in AllSlot : /\ Named(u) /\ slots[u].load_addr <= a
                                         /\ a < slots[u].load_addr + slots[u].image_size
      BY DEF PeInv, Copies
    <2>2. PICK u \in AllSlot : /\ Named(u) /\ slots[u].load_addr <= a
                               /\ a < slots[u].load_addr + slots[u].image_size
      BY <2>1
    <2>3. slots[u].load_addr + slots[u].image_size <= last
      BY <2>2, RangeEnd
    <2>4. slots[u].load_addr \in Nat /\ slots[u].image_size \in Nat
      BY DEF PeInv, Layout
    <2>5. slots[u].load_addr >= ramfs_get_end
      BY <2>2, NamedAbove
    <2> QED
      BY <1>3, <1>6, <2>1, <2>2, <2>3, <2>4, <2>5
  <1>14. ASSUME NEW a \in Entered PROVE Translated(PageOf(a))
    <2>1. CASE a \in SSL .. (SSL + SEGMENT * PAGE - 1) \cup TSL .. (TSL + SEGMENT * PAGE - 1)
      <3>1. /\ a \in Nat
            /\ \/ SSL <= a /\ a < SSL + SEGMENT * PAGE
               \/ TSL <= a /\ a < TSL + SEGMENT * PAGE
        BY <1>5, <1>6, <2>1
      <3> QED
        BY <1>8, <3>1
    <2>2. CASE a \in RAMFS .. (ramfs_get_end - 1) \cup DOMAIN mem
      <3>1. a \in Nat /\ RAMFS <= a /\ a < end + stack
        BY <1>2, <1>3, <1>6, <1>13, <2>2
      <3> QED
        BY <1>8, <3>1
    <2>3. CASE a \in (tmp_stack - stack) .. (tmp_stack - 1)
      <3>1. a \in Nat /\ RAMFS <= a /\ a < end + stack
        BY <1>2, <1>3, <1>6, <1>7, <2>3
      <3> QED
        BY <1>8, <3>1
    <2> QED
      BY <2>1, <2>2, <2>3 DEF Entered
  <1>15. DOMAIN mem \cap (pe_memory_end .. (tmp_stack - 1)) = {}
    <2> SUFFICES ASSUME NEW a \in DOMAIN mem, a \in end .. (tmp_stack - 1) PROVE FALSE
      OBVIOUS
    <2> QED
      BY <1>2, <1>3, <1>13
  <1> QED
    BY <1>9, <1>12, <1>14, <1>15

-----------------------------------------------------------------------------
(***************************************************************************)
(* Long mode.                                                              *)
(***************************************************************************)
\* What is told of the images does not change after they are loaded.
LEMMA SizesKept ==
  ASSUME UNCHANGED pevars
  PROVE  /\ ImagePages' = ImagePages /\ StackPages' = StackPages /\ pe_memory_end' = pe_memory_end
         /\ (FitsTable' <=> FitsTable)
  <1>1. pe_get_memory_range_end' = pe_get_memory_range_end /\ kernel' = kernel
    BY DEF pevars, pe_get_memory_range_end, kernel, Slot
  <1>2. pe_memory_end' = pe_memory_end /\ StackPages' = StackPages
    BY <1>1 DEF pe_memory_end, StackPages, align_page
  <1> QED
    BY <1>2 DEF ImagePages, FitsTable

LEMMA MappedFacts ==
  ASSUME NEW address \in Nat, NEW count \in Nat, pml1' = Mapped(address, count),
         \A i \in DOMAIN pml1 : i \in Nat /\ pml1[i] = i
  PROVE  /\ DOMAIN pml1 \subseteq DOMAIN pml1' /\ Pages(address, count) \subseteq DOMAIN pml1'
         /\ \A i \in DOMAIN pml1' : i \in Nat /\ pml1'[i] = i
  <1> PICK first, new : /\ first = address \div PAGE
                        /\ new = first .. (first + count - 1)
    OBVIOUS
  <1>1. first \in Nat /\ Pages(address, count) = new
    BY TslAssumption DEF Pages
  <1>2. \A i \in new : i \in Nat
    BY <1>1
  <1>3. pml1' = [i \in DOMAIN pml1 \cup new |-> IF i \in new THEN i ELSE pml1[i]]
    BY DEF Mapped
  <1> QED
    BY <1>1, <1>2, <1>3

LEMMA RsdpFound ==
  ASSUME NEW f \in Firmwares
  PROVE  Min(f.rsdp \cup {BIOS_END}) \in f.rsdp \/ f.rsdp = {}
  <1> PICK S, m : S = f.rsdp \cup {BIOS_END} /\ m = Min(S)
    OBVIOUS
  <1>1. f.rsdp \subseteq BIOS_AREA .. (BIOS_END - 1) /\ BIOS_AREA \in Nat /\ BIOS_END \in Nat
    BY TslAssumption
  <1>2. \A x \in f.rsdp : x \in Nat /\ x < BIOS_END
    BY <1>1
  <1>3. S \subseteq Nat /\ S # {}
    BY <1>1, <1>2
  <1>4. m \in S /\ \A x \in S : m <= x
    BY <1>3, LeastExists
  <1>5. ASSUME NEW x \in f.rsdp PROVE m # BIOS_END
    <2>1. m <= x /\ x < BIOS_END /\ x \in Nat
      BY <1>2, <1>4, <1>5
    <2> QED
      BY <1>1, <2>1
  <1> QED
    BY <1>4, <1>5

AllPages ==
  /\ ImagePages \in Nat /\ StackPages \in Nat /\ pe_memory_end \in Nat

LEMMA PagesTyped ==
  ASSUME PeInv, answer \in Slot
  PROVE  AllPages
  <1>1. PICK s, t, r, e, n \in Nat : LaidOut(s, t, r, e, n)
    BY LaidOutExists
  <1>2. ImagePages = e - r /\ r <= e /\ StackPages = n /\ pe_memory_end \in Nat
    BY <1>1 DEF LaidOut
  <1> QED
    BY <1>2 DEF AllPages

LEMMA MapKept ==
  ASSUME MachineInv, AllPages, UNCHANGED pevars, MapTables
  PROVE  MachineInv'
  <1>1. /\ SSL \in Nat /\ TSL \in Nat /\ RAMFS \in Nat /\ SEGMENT \in Nat
        /\ ImagePages \in Nat /\ StackPages \in Nat /\ pe_memory_end \in Nat
    BY TslAssumption, PeLoaderAssumption DEF AllPages
  <1>2. /\ ImagePages' = ImagePages /\ StackPages' = StackPages /\ pe_memory_end' = pe_memory_end
    BY SizesKept
  <1>3. \A i \in DOMAIN pml1 : i \in Nat /\ pml1[i] = i
    BY DEF MachineInv
  <1>4. CASE MapStep("map SSL", "map TSL", SSL, SEGMENT)
    <2>1. pc = "map SSL" /\ pc' = "map TSL" /\ cpu' = cpu /\ pml1' = Mapped(SSL, SEGMENT)
      BY <1>4 DEF MapStep, At
    <2>2. /\ Pages(SSL, SEGMENT) \subseteq DOMAIN pml1'
          /\ \A i \in DOMAIN pml1' : i \in Nat /\ pml1'[i] = i
      BY <1>1, <1>3, <2>1, MappedFacts
    <2> QED
      BY <2>1, <2>2 DEF MachineInv, WithPae, WithSsl, WithTsl, WithImages, WithStack, WithTables,
                        WithRsdp, WithCr3, WithLme, WithPaging, Pages
  <1>5. CASE MapStep("map TSL", "map images", TSL, SEGMENT)
    <2>1. pc = "map TSL" /\ pc' = "map images" /\ cpu' = cpu /\ pml1' = Mapped(TSL, SEGMENT)
      BY <1>5 DEF MapStep, At
    <2>2. /\ DOMAIN pml1 \subseteq DOMAIN pml1' /\ Pages(TSL, SEGMENT) \subseteq DOMAIN pml1'
          /\ \A i \in DOMAIN pml1' : i \in Nat /\ pml1'[i] = i
      BY <1>1, <1>3, <2>1, MappedFacts
    <2> QED
      BY <2>1, <2>2 DEF MachineInv, WithPae, WithSsl, WithTsl, WithImages, WithStack, WithTables,
                        WithRsdp, WithCr3, WithLme, WithPaging, Pages
  <1>6. CASE MapStep("map images", "map stack", RAMFS, ImagePages)
    <2>1. pc = "map images" /\ pc' = "map stack" /\ cpu' = cpu /\ pml1' = Mapped(RAMFS, ImagePages)
      BY <1>6 DEF MapStep, At
    <2>2. /\ DOMAIN pml1 \subseteq DOMAIN pml1' /\ Pages(RAMFS, ImagePages) \subseteq DOMAIN pml1'
          /\ \A i \in DOMAIN pml1' : i \in Nat /\ pml1'[i] = i
      BY <1>1, <1>3, <2>1, MappedFacts
    <2> QED
      BY <1>2, <2>1, <2>2 DEF MachineInv, WithPae, WithSsl, WithTsl, WithImages, WithStack,
                        WithTables, WithRsdp, WithCr3, WithLme, WithPaging, Pages
  <1>7. CASE MapStep("map stack", "link", pe_memory_end, StackPages)
    <2>1. /\ pc = "map stack" /\ pc' = "link" /\ cpu' = cpu
          /\ pml1' = Mapped(pe_memory_end, StackPages)
      BY <1>7 DEF MapStep, At
    <2>2. /\ DOMAIN pml1 \subseteq DOMAIN pml1'
          /\ Pages(pe_memory_end, StackPages) \subseteq DOMAIN pml1'
          /\ \A i \in DOMAIN pml1' : i \in Nat /\ pml1'[i] = i
      BY <1>1, <1>3, <2>1, MappedFacts
    <2> QED
      BY <1>2, <2>1, <2>2 DEF MachineInv, WithPae, WithSsl, WithTsl, WithImages, WithStack,
                        WithTables, WithRsdp, WithCr3, WithLme, WithPaging, Pages
  <1> QED
    BY <1>4, <1>5, <1>6, <1>7 DEF MapTables

LEMMA PrepareKept ==
  ASSUME MachineInv, PeInv, answer \in Slot, firmware \in Firmwares, Prepare
  PROVE  MachineInv'
  <1>1. UNCHANGED pevars /\ firmware' = firmware
    BY PrepareFacts
  <1>2. /\ ImagePages' = ImagePages /\ StackPages' = StackPages /\ pe_memory_end' = pe_memory_end
        /\ (FitsTable' <=> FitsTable)
    BY <1>1, SizesKept
  <1> USE DEF WithPae, WithSsl, WithTsl, WithImages, WithStack, WithTables, WithRsdp, WithCr3,
              WithLme, WithPaging
  <1>3. CASE enable_PAE
    BY <1>1, <1>2, <1>3 DEF enable_PAE, At, MachineInv, Pages
  <1>4. CASE ClearTables
    BY <1>1, <1>2, <1>4 DEF ClearTables, At, MachineInv, Pages
  <1>5. CASE MapTables
    BY <1>1, <1>5, PagesTyped, MapKept
  <1>6. CASE LinkTables
    BY <1>1, <1>2, <1>6 DEF LinkTables, At, MachineInv, Pages
  <1>7. CASE FindRsdp
    <2>1. rsdp' \in firmware.rsdp \/ firmware.rsdp = {}
      BY <1>7, RsdpFound DEF FindRsdp
    <2> QED
      BY <1>1, <1>2, <1>7, <2>1 DEF FindRsdp, At, MachineInv, Pages
  <1>8. CASE load_page_table
    BY <1>1, <1>2, <1>8 DEF load_page_table, At, MachineInv, Pages
  <1>9. CASE enable_long_mode
    BY <1>1, <1>2, <1>9 DEF enable_long_mode, LongMode, At, MachineInv, Pages
  <1>10. CASE enable_paging
    <2>1. /\ pc = "paging" /\ UNCHANGED <<pml1, rsdp>> /\ cpu' = [cpu EXCEPT !.paging = TRUE]
          /\ pc' = IF cpu.pae /\ cpu.lme /\ cpu.cr3 /\ Translated(PageOf(TSL))
                   THEN "call" ELSE "fault"
      BY <1>10 DEF enable_paging, At
    <2>2. pc \in WithTables /\ cpu.pae /\ cpu.lme /\ cpu.cr3
      BY <2>1 DEF MachineInv
    <2>3. FitsTable => pc' = "call"
      BY <2>1, <2>2, NoFault
    <2>4. pc' \in {"call", "fault"} /\ (pc' = "fault" => ~FitsTable)
      BY <2>1, <2>3
    <2> QED
      BY <1>1, <1>2, <2>1, <2>4 DEF MachineInv, Pages
  <1>11. CASE CallKernel
    <2>1. /\ pc = "call" /\ UNCHANGED <<pml1, rsdp, cpu>>
          /\ pc' = IF /\ Translated(PageOf(SSL)) /\ Translated(PageOf(kernel.entry))
                      /\ Translated(PageOf(tmp_stack - 1))
                   THEN "kernel" ELSE "fault"
      BY <1>11 DEF CallKernel, At
    <2>2. pc \in WithTables
      BY <2>1
    <2>3. FitsTable => pc' = "kernel"
      BY <2>1, <2>2, NoFault
    <2>4. pc' \in {"kernel", "fault"} /\ (pc' = "fault" => ~FitsTable)
      BY <2>1, <2>3
    <2> QED
      BY <1>1, <1>2, <2>1, <2>4 DEF MachineInv, Pages
  <1> QED
    BY <1>3, <1>4, <1>5, <1>6, <1>7, <1>8, <1>9, <1>10, <1>11 DEF Prepare

LEMMA ConstantSteps ==
  /\ WithPae' = WithPae /\ WithSsl' = WithSsl /\ WithTsl' = WithTsl
  /\ WithImages' = WithImages /\ WithStack' = WithStack /\ WithTables' = WithTables
  /\ WithRsdp' = WithRsdp /\ WithCr3' = WithCr3 /\ WithLme' = WithLme
  /\ WithPaging' = WithPaging
  BY DEF WithPae, WithSsl, WithTsl, WithImages, WithStack, WithTables, WithRsdp, WithCr3,
         WithLme, WithPaging

LEMMA MachineInvKept ==
  ASSUME MachineInv, LoadInv, firmware \in Firmwares, [Next]_vars
  PROVE  MachineInv'
  <1>1. CASE CheckSize \/ DisableDevice \/ StartLoading \/ Load \/ Loaded
    <2>1. /\ pc' \in {"pci", "halt", "load", "loading", "pae"}
          /\ UNCHANGED <<pml1, cpu>>
      <3>1. CASE CheckSize
        BY <3>1 DEF CheckSize, At
      <3>2. CASE DisableDevice
        BY <3>2 DEF DisableDevice, At
      <3>3. CASE StartLoading \/ Load \/ Loaded
        BY <3>3 DEF StartLoading, Load, Loaded, At
      <3> QED
        BY <1>1, <3>1, <3>2, <3>3
    <2>2. pc' \notin WithPae /\ pc' # "fault"
      BY <2>1 DEF WithPae, WithSsl, WithTsl, WithImages, WithStack, WithTables, WithRsdp,
                  WithCr3, WithLme, WithPaging
    <2>3. /\ WithSsl \subseteq WithPae /\ WithTsl \subseteq WithPae /\ WithImages \subseteq WithPae
          /\ WithStack \subseteq WithPae /\ WithTables \subseteq WithPae
          /\ WithRsdp \subseteq WithPae /\ WithCr3 \subseteq WithPae /\ WithLme \subseteq WithPae
          /\ WithPaging \subseteq WithPae
      BY DEF WithPae, WithSsl, WithTsl, WithImages, WithStack, WithTables, WithRsdp, WithCr3,
             WithLme, WithPaging
    <2> QED
      BY <2>1, <2>2, <2>3, ConstantSteps DEF MachineInv
  <1>2. CASE Prepare
    <2>1. PeInv /\ answer \in Slot
      BY <1>2, PrepareFacts DEF LoadInv, Early
    <2> QED
      BY <1>2, <2>1, PrepareKept
  <1>3. CASE UNCHANGED vars
    <2>1. UNCHANGED pevars /\ UNCHANGED <<pc, cpu, pml1, rsdp, firmware>>
      BY <1>3 DEF vars
    <2>2. /\ ImagePages' = ImagePages /\ StackPages' = StackPages
          /\ pe_memory_end' = pe_memory_end /\ (FitsTable' <=> FitsTable)
      BY <2>1, SizesKept
    <2> QED
      BY <2>1, <2>2, ConstantSteps DEF MachineInv, Pages
  <1> QED
    BY <1>1, <1>2, <1>3 DEF Next, tsl_entry, Stay, Prepare

-----------------------------------------------------------------------------
(***************************************************************************)
(* What the inductive invariant says when pe_load has answered.            *)
(***************************************************************************)
\* The names of the images are closed under import, and so are all that the
\* kernel needs.
LEMMA AllLoaded ==
  ASSUME PeInv, Called, calls = <<>>, answer \in Slot
  PROVE  \A n \in Needed : \E t \in AllSlot : Named(t) /\ slots[t].name = n
  <1> DEFINE R == {n \in Names : \E t \in AllSlot : Named(t) /\ slots[t].name = n}
  <1>1. answer \in AllSlot /\ Named(answer) /\ slots[answer].name = KERNEL /\ answer # Failure
    BY PeLoaderAssumption DEF PeInv, Answered, Called, Slot, AllSlot, Failure
  <1>2. KERNEL \in R
    BY <1>1, NeededFacts
  <1>3. ASSUME NEW n \in R, NEW i \in ImportedBy(n) PROVE i.dll \in R
    <2>1. PICK t \in AllSlot : Named(t) /\ slots[t].name = n
      BY <1>3
    <2>2. Exists(n)
      BY <2>1, ImageFacts
    <2>3. PICK d \in DOMAIN ramfs_file(n).imports : i = ramfs_file(n).imports[d]
      BY <1>3, <2>2 DEF ImportedBy
    <2>4. PastDir(t, d)
      BY DEF PastDir
    <2>5. Linked(t, d)
      BY <1>1, <2>1, <2>3, <2>4 DEF PeInv, Bindings
    <2>6. \E u \in AllSlot : Named(u) /\ slots[u].name = i.dll
      BY <2>1, <2>3, <2>5 DEF Linked, Import
    <2>7. i.dll \in Names
      BY <2>2, <2>3, ImportFacts DEF PeInv
    <2> QED
      BY <2>6, <2>7
  <1>4. IsClosed(R)
    BY <1>2, <1>3 DEF IsClosed
  <1>5. R \in SUBSET Names
    OBVIOUS
  <1> HIDE DEF R
  <1>6. Needed \subseteq R
    BY <1>4, <1>5, NeededFacts
  <1> QED
    BY <1>6 DEF R

\* There are not more names than slots.
LEMMA NeededFit ==
  ASSUME PeInv, \A n \in Needed : \E t \in AllSlot : Named(t) /\ slots[t].name = n
  PROVE  Cardinality(Needed) <= STATES_MAX
  <1> DEFINE T == {s \in Slot : Named(s)}
             f == [s \in T |-> slots[s].name]
             R == {f[s] : s \in T}
  <1>1. IsFiniteSet(Slot) /\ Cardinality(Slot) = STATES_MAX
    <2>1. STATES_MAX \in Nat /\ 0 \in Int /\ STATES_MAX - 1 \in Int
      BY PeLoaderAssumption
    <2>2. /\ IsFiniteSet(0 .. (STATES_MAX - 1))
          /\ Cardinality(0 .. (STATES_MAX - 1))
               = IF 0 > STATES_MAX - 1 THEN 0 ELSE (STATES_MAX - 1) - 0 + 1
      BY <2>1, FS_Interval
    <2>3. STATES_MAX # 0
      BY PeLoaderAssumption
    <2> QED
      BY <2>1, <2>2, <2>3 DEF Slot
  <1>2. IsFiniteSet(T) /\ Cardinality(T) <= STATES_MAX
    <2>1. T \subseteq Slot
      OBVIOUS
    <2> HIDE DEF T
    <2> QED
      BY <1>1, <2>1, FS_Subset
  <1>3. f \in Surjection(T, R)
    BY DEF Surjection
  <1>4. IsFiniteSet(R) /\ Cardinality(R) <= Cardinality(T)
    <2> HIDE DEF f, R, T
    <2> QED
      BY <1>2, <1>3, FS_Surjection
  <1>5. Needed \subseteq R
    <2> SUFFICES ASSUME NEW n \in Needed PROVE n \in R
      OBVIOUS
    <2>1. PICK t \in AllSlot : Named(t) /\ slots[t].name = n
      OBVIOUS
    <2>2. t \in T
      BY <2>1, ImageFacts
    <2>3. f[t] = n
      BY <2>1, <2>2
    <2> QED
      BY <2>2, <2>3
  <1>6. IsFiniteSet(Needed) /\ Cardinality(Needed) <= Cardinality(R)
    <2> HIDE DEF R
    <2> QED
      BY <1>4, <1>5, FS_Subset
  <1>7. /\ Cardinality(Needed) \in Nat /\ Cardinality(R) \in Nat /\ Cardinality(T) \in Nat
        /\ STATES_MAX \in Nat
    BY <1>2, <1>4, <1>6, FS_CardinalityType, PeLoaderAssumption
  <1> QED
    BY <1>2, <1>4, <1>6, <1>7

\* What is not an activation's any more is bound.
LEMMA AllDone ==
  ASSUME PeInv, calls = <<>>, answer # Failure, NEW s \in AllSlot, Named(s),
         NEW d \in DOMAIN ramfs_file(slots[s].name).imports
  PROVE  /\ Linked(s, d)
         /\ \A m \in DOMAIN ramfs_file(slots[s].name).imports[d].symbols : Bound(s, d, m)
  <1>1. PastDir(s, d) /\ \A m : PastSymbol(s, d, m)
    BY DEF PastDir, PastSymbol
  <1> QED
    BY <1>1 DEF PeInv, Bindings

LEMMA IsLoadable ==
  ASSUME PeInv, Called, calls = <<>>, answer \in Slot
  PROVE  Loadable
  <1>1. \A n \in Needed : \E t \in AllSlot : Named(t) /\ slots[t].name = n
    BY AllLoaded
  <1>2. Cardinality(Needed) <= STATES_MAX
    BY <1>1, NeededFit
  <1>3. answer # Failure
    BY DEF Slot, Failure
  <1>4. ASSUME NEW n \in Needed
        PROVE  /\ Exists(n) /\ ramfs_file(n).valid
               /\ \A i \in ImportedBy(n) : Provided(i)
    <2>1. PICK t \in AllSlot : Named(t) /\ slots[t].name = n
      BY <1>1
    <2>2. Exists(n) /\ ramfs_file(n).valid
      BY <2>1, ImageFacts DEF IsImage
    <2>3. ASSUME NEW i \in ImportedBy(n) PROVE Provided(i)
      <3>1. PICK d \in DOMAIN ramfs_file(n).imports : i = ramfs_file(n).imports[d]
        BY <2>2 DEF ImportedBy
      <3>2. /\ Linked(t, d)
            /\ \A m \in DOMAIN ramfs_file(n).imports[d].symbols : Bound(t, d, m)
        BY <1>3, <2>1, <3>1, AllDone
      <3>3. Import(slots[t].name, d) = i
        BY <2>1, <3>1 DEF Import
      <3>4. ramfs_file(i.dll).exports # <<>>
        BY <3>2, <3>3 DEF Linked
      <3>5. ASSUME NEW m \in DOMAIN i.symbols
            PROVE  /\ ~i.symbols[m].ordinal
                   /\ \E x \in DOMAIN ramfs_file(i.dll).exports :
                        ramfs_file(i.dll).exports[x].name = i.symbols[m].name
        <4>1. Bound(t, d, m)
          BY <3>1, <3>2, <3>5
        <4> QED
          BY <3>3, <4>1 DEF Bound
      <3> QED
        BY <3>4, <3>5 DEF Provided
    <2> QED
      BY <2>2, <2>3
  <1> QED
    BY <1>2, <1>4 DEF Loadable

LEMMA IsBound ==
  ASSUME PeInv, calls = <<>>, answer \in Slot
  PROVE  AllBound
  <1>1. answer # Failure
    BY DEF Slot, Failure
  <1>2. \A s : s \in Registered <=> s \in AllSlot /\ Named(s)
    BY DEF Registered, Named
  <1>3. \A s \in Registered : Image(s) = ramfs_file(slots[s].name)
    BY <1>2, ImageFacts
  <1>4. ASSUME NEW s \in Registered, NEW d \in DOMAIN Image(s).imports,
               NEW m \in DOMAIN Image(s).imports[d].symbols
        PROVE  \E t \in Registered : \E x \in DOMAIN Image(t).exports :
                 /\ slots[t].name = Image(s).imports[d].dll
                 /\ Image(t).exports[x].name = Image(s).imports[d].symbols[m].name
                 /\ iat[s][d][m] = [base  |-> slots[t].load_addr,
                                    entry |-> Image(t).exports[x].entry]
    <2>1. Bound(s, d, m)
      BY <1>1, <1>2, <1>3, <1>4, AllDone
    <2> PICK import : import = Import(slots[s].name, d)
      OBVIOUS
    <2>2. import = Image(s).imports[d]
      BY <1>3 DEF Import
    <2>3. PICK t \in AllSlot : \E x \in DOMAIN ramfs_file(import.dll).exports :
             /\ Named(t) /\ slots[t].name = import.dll
             /\ ramfs_file(import.dll).exports[x].name = import.symbols[m].name
             /\ iat[s][d][m] = [base  |-> slots[t].load_addr,
                                entry |-> ramfs_file(import.dll).exports[x].entry]
      BY <2>1 DEF Bound
    <2>4. t \in Registered /\ Image(t) = ramfs_file(import.dll) /\ slots[t].name = import.dll
      BY <1>2, <1>3, <2>3
    <2> QED
      BY <2>2, <2>3, <2>4
  <1> QED
    BY <1>4 DEF AllBound

LEMMA AreIntact ==
  ASSUME PeInv
  PROVE  ImagesIntact
  <1>1. ASSUME NEW s \in Registered, NEW c \in 0 .. (slots[s].image_size - 1)
        PROVE  mem[slots[s].load_addr + c] = [file |-> Min(Matches(slots[s].name)), cell |-> c]
    <2>1. s \in AllSlot /\ Named(s)
      BY DEF Registered, Named
    <2> QED
      BY <1>1, <2>1 DEF PeInv, Copies
  <1>2. ASSUME NEW a \in DOMAIN mem PROVE a >= ramfs_get_end
    <2>1. a \in Nat /\ \E t \in AllSlot : Named(t) /\ slots[t].load_addr <= a
      BY DEF PeInv, Copies
    <2>2. PICK t \in AllSlot : Named(t) /\ slots[t].load_addr <= a
      BY <2>1
    <2>3. slots[t].load_addr >= ramfs_get_end /\ slots[t].load_addr \in Nat
      BY <2>2, NamedAbove DEF PeInv, Layout
    <2>4. ramfs_get_end \in Nat
      BY EndFacts DEF PeInv
    <2> QED
      BY <2>1, <2>2, <2>3, <2>4
  <1> QED
    BY <1>1, <1>2 DEF ImagesIntact

LEMMA PeTyped ==
  ASSUME PeInv
  PROVE  PeTypeOK
  <1>1. \A s \in AllSlot : slots[s].load_addr \in Nat /\ slots[s].image_size \in Nat
    BY DEF PeInv, Layout
  <1>2. slots[STATES_MAX] = Empty /\ \A a \in DOMAIN mem : mem[a].file \in DOMAIN archive
    BY DEF PeInv, Layout, Copies
  <1>3. answer \in Slot \cup {NoAnswer, Failure}
    BY DEF PeInv, Answered
  <1>4. \A k \in DOMAIN calls : /\ calls[k].slot \in Slot /\ calls[k].dll \in Slot
                                /\ calls[k].pc \in {"enter", "imports", "loading", "symbols"}
    <2>1. \A k \in DOMAIN calls : calls[k] \in Act
      BY DEF PeInv, Stack
    <2> QED
      BY <2>1 DEF Act
  <1> QED
    BY <1>1, <1>2, <1>3, <1>4 DEF PeTypeOK

LEMMA InitTyped ==
  ASSUME Init
  PROVE  PeTypeOK /\ ImagesIntact
  <1>1. /\ \A s \in AllSlot : slots[s] = Empty
        /\ STATES_MAX \in AllSlot /\ DOMAIN mem = {} /\ DOMAIN calls = {} /\ answer = NoAnswer
    BY PeLoaderAssumption DEF Init, AllSlot
  <1>2. Registered = {}
    BY <1>1 DEF Registered, Empty
  <1>3. Empty.load_addr \in Nat /\ Empty.image_size \in Nat
    BY DEF Empty
  <1>4. PeTypeOK
    BY <1>1, <1>3 DEF PeTypeOK
  <1>5. ImagesIntact
    BY <1>1, <1>2 DEF ImagesIntact
  <1> QED
    BY <1>4, <1>5

-----------------------------------------------------------------------------
(***************************************************************************)
(* Theorems.                                                               *)
(***************************************************************************)
LEMMA Initially ==
  ASSUME TslInit
  PROVE  IInv
  <1>1. archive \in Archives /\ Init /\ pc = "size" /\ firmware \in Firmwares
    BY DEF TslInit, Init
  <1>2. LoadInv
    BY <1>1 DEF LoadInv
  <1>3. PciInv
    <2>1. pci = firmware.pci /\ device = 0
      BY DeviceFacts DEF TslInit
    <2>2. \A x \in DOMAIN pci :
            pci[x] \in [io : BOOLEAN, memory : BOOLEAN, master : BOOLEAN, errors : BOOLEAN]
      BY <1>1, <2>1, FirmwareFacts
    <2> QED
      BY <1>1, <2>1, <2>2 DEF PciInv
  <1>4. MachineInv
    BY DEF TslInit, Unpaged, MachineInv, WithPae, WithSsl, WithTsl, WithImages, WithStack,
           WithTables, WithRsdp, WithCr3, WithLme, WithPaging
  <1> QED
    BY <1>1, <1>2, <1>3, <1>4 DEF IInv

LEMMA Step ==
  ASSUME IInv, [Next]_vars
  PROVE  IInv'
  BY LoadInvKept, PciInvKept, MachineInvKept DEF IInv, PciInv

\* The inductive invariant: the images lie behind each other and behind the
\* archive, the activations of pe_load know theirs, what they are done with is
\* bound, the PCI devices that were reached are off, and the page tables have
\* what was mapped.
THEOREM Invariance == Spec => []IInv
  <1>1. TslInit => IInv
    BY Initially
  <1>2. IInv /\ [Next]_vars => IInv'
    BY Step
  <1> QED
    BY <1>1, <1>2, PTL DEF Spec

\* The state of the third-stage loader has the shape that its declarations
\* give it, and the spare slot of the array of images is never used.
THEOREM TypeCorrect == Spec => []TypeOK
  <1>1. ASSUME IInv PROVE TypeOK
    <2>1. PeTypeOK
      BY <1>1, PeTyped, InitTyped DEF IInv, LoadInv
    <2>2. \A i \in DOMAIN pml1 : pml1[i] \in Nat
      BY <1>1 DEF IInv, MachineInv
    <2>3. DOMAIN pci = DOMAIN firmware.pci
      BY <1>1 DEF IInv, PciInv
    <2>4. pc \in {"size", "pci", "load", "loading", "pae", "clear", "map SSL", "map TSL",
                  "map images", "map stack", "link", "rsdp", "cr3", "lme", "paging", "call",
                  "kernel", "halt", "fault"}
      BY <1>1 DEF IInv, MachineInv, WithPae, WithSsl, WithTsl, WithImages, WithStack,
                  WithTables, WithRsdp, WithCr3, WithLme, WithPaging
    <2> QED
      BY <2>1, <2>2, <2>3, <2>4 DEF TypeOK
  <1>2. IInv => TypeOK
    BY <1>1
  <1> QED
    BY <1>2, Invariance, PTL

\* Every loaded image stays in memory as it was copied, and no image is put on
\* the archive.
THEOREM ImagesKept == Spec => []ImagesIntact
  <1>1. IInv => ImagesIntact
    BY AreIntact, InitTyped DEF IInv, LoadInv
  <1> QED
    BY <1>1, Invariance, PTL

\* Before the kernel is loaded no function of any PCI device answers to I/O
\* ports or memory any more.
THEOREM PciDisabled == Spec => []PciOff
  <1>1. IInv => PciOff
    BY DEF IInv, PciInv, PciOff, IsOff
  <1> QED
    BY <1>1, Invariance, PTL

\* The loader gets past pe_load exactly when it can, with every symbol bound.
THEOREM LoadsRight == Spec => []LoadsExactly
  <1>1. ASSUME IInv PROVE LoadsExactly
    <2>1. ASSUME pc \in {"pae", "kernel"} PROVE Loadable /\ AllBound
      <3>1. PeInv /\ Called /\ calls = <<>> /\ answer \in Slot
        BY <1>1, <2>1 DEF IInv, LoadInv
      <3> QED
        BY <3>1, IsLoadable, IsBound
    <2>2. ASSUME pc = "halt", firmware.info_size_ok PROVE ~Loadable
      <3>1. PeInv /\ answer = Failure
        BY <1>1, <2>2 DEF IInv, LoadInv
      <3> QED
        BY <3>1 DEF PeInv, Answered
    <2> QED
      BY <2>1, <2>2 DEF LoadsExactly
  <1>2. IInv => LoadsExactly
    BY <1>1
  <1> QED
    BY <1>2, Invariance, PTL

\* If the page table is large enough, the processor never faults on the way to
\* the kernel, which finds everything it is entered with mapped.
THEOREM KernelEntered == Spec => []KernelReady
  <1>1. ASSUME IInv PROVE KernelReady
    <2> SUFFICES ASSUME pc \in {"fault", "kernel"}, FitsTable
                 PROVE  /\ pc = "kernel"
                        /\ \A a \in Entered : Translated(PageOf(a))
                        /\ DOMAIN mem \cap (pe_memory_end .. (tmp_stack - 1)) = {}
                        /\ cpu = [pae |-> TRUE, linked |-> TRUE, cr3 |-> TRUE, lme |-> TRUE,
                                  paging |-> TRUE]
                        /\ rsdp \in firmware.rsdp \/ firmware.rsdp = {}
      BY DEF KernelReady
    <2>1. pc = "kernel"
      BY <1>1 DEF IInv, MachineInv
    <2>2. PeInv /\ answer \in Slot /\ MachineInv
      BY <1>1, <2>1 DEF IInv, LoadInv
    <2>3. /\ pc \in WithTables /\ pc \in WithPae /\ pc \in WithCr3 /\ pc \in WithLme
          /\ pc \in WithPaging /\ pc \in WithRsdp
      BY <2>1 DEF WithPae, WithSsl, WithTsl, WithImages, WithStack, WithTables, WithRsdp,
                  WithCr3, WithLme, WithPaging
    <2>4. /\ \A a \in Entered : Translated(PageOf(a))
          /\ DOMAIN mem \cap (pe_memory_end .. (tmp_stack - 1)) = {}
      BY <2>2, <2>3, NoFault
    <2>5. /\ cpu \in [pae : BOOLEAN, linked : BOOLEAN, cr3 : BOOLEAN, lme : BOOLEAN,
                      paging : BOOLEAN]
          /\ cpu.pae /\ cpu.linked /\ cpu.cr3 /\ cpu.lme /\ cpu.paging
      BY <2>2, <2>3 DEF MachineInv
    <2>6. cpu = [pae |-> TRUE, linked |-> TRUE, cr3 |-> TRUE, lme |-> TRUE, paging |-> TRUE]
      BY <2>5
    <2>7. rsdp \in firmware.rsdp \/ firmware.rsdp = {}
      BY <2>2, <2>3 DEF MachineInv
    <2> QED
      BY <2>1, <2>4, <2>6, <2>7
  <1>2. IInv => KernelReady
    BY <1>1
  <1> QED
    BY <1>2, Invariance, PTL

=============================================================================
