--------------------------- MODULE MbrFormatProofs ---------------------------
(***************************************************************************)
(* Theorems about the two components that use no other: Mbr, for every     *)
(* drive and every size of the segment, the registers and the loader that  *)
(* is read; and Format, for every call and buffer, number of bits, size of *)
(* the width and precision fields and num_buffer that holds a number, down *)
(* to the long division of Arithmetic64.                                   *)
(*                                                                         *)
(* Format's definitions recur: the bits of a quotient, the digits of a     *)
(* number, the characters of a text.  Each of these recursive functions is *)
(* shown to be the only one with its equation, by an induction over sets   *)
(* (Induction, SequenceInduction below), and then to be what is claimed.   *)
(***************************************************************************)
EXTENDS Mbr, Format, WellFoundedInduction, FiniteSetTheorems, TLAPS

-----------------------------------------------------------------------------
(***************************************************************************)
(* Numbers.                                                                *)
(***************************************************************************)
\* The sectors a number of units takes, as a word counts them.
LEMMA Rounded ==
  ASSUME NEW units \in Nat, NEW sector \in Nat \ {0}, NEW limit \in Nat,
         NEW word \in Nat \ {0}, units <= limit * sector, limit < word,
         NEW n, n = (units \div sector + (IF units % sector = 0 THEN 0 ELSE 1)) % word
  PROVE  n \in Nat /\ units <= n * sector /\ units \div sector <= limit
  <1>1. PICK q, r, k : /\ q = units \div sector /\ r = units % sector
                       /\ k = units \div sector + (IF units % sector = 0 THEN 0 ELSE 1)
    OBVIOUS
  <1>2. /\ q \in Nat /\ r \in Nat /\ r < sector /\ units = q * sector + r
        /\ k = IF r = 0 THEN q ELSE q + 1
    BY <1>1
  <1>3. q <= limit
    <2>1. CASE q >= limit + 1
      <3>1. q * sector >= limit * sector + sector
        BY <1>2, <2>1
      <3> QED
        BY <1>2, <3>1
    <2> QED
      BY <1>2, <2>1
  <1>4. k \in Nat /\ k <= limit /\ units <= k * sector
    <2>1. CASE r = 0
      BY <1>2, <1>3, <2>1
    <2>2. CASE r # 0
      <3>1. k = q + 1 /\ k * sector = q * sector + sector /\ q * sector \in Nat
        BY <1>2, <2>2
      <3>2. q # limit
        BY <1>2, <2>2
      <3> QED
        BY <1>2, <1>3, <3>1, <3>2
    <2> QED
      BY <2>1, <2>2
  <1>5. n = k % word
    BY <1>1, Zenon
  <1>6. n = k
    BY <1>4, <1>5
  <1> QED
    BY <1>1, <1>3, <1>4, <1>6

\* Sector and unit of an offset lead back to the offset.
LEMMA OffsetFacts ==
  ASSUME NEW o \in Nat, NEW sector \in Nat \ {0}, NEW lba \in Nat
  PROVE  /\ o \div sector \in Nat /\ o % sector \in 0 .. (sector - 1)
         /\ lba + o \div sector \in Nat /\ lba + o \div sector >= lba
         /\ ((lba + o \div sector) - lba) * sector + (o % sector) = o
  <1>1. PICK q, r : q = o \div sector /\ r = o % sector
    OBVIOUS
  <1>2. q \in Nat /\ r \in 0 .. (sector - 1) /\ o = q * sector + r
    BY <1>1
  <1>3. (lba + q) - lba = q
    BY <1>2
  <1> QED
    BY <1>1, <1>2, <1>3

\* Unit r of entry n is in entry n.
LEMMA EntryFacts ==
  ASSUME NEW n \in Nat, NEW size \in Nat \ {0}, NEW r \in 0 .. (size - 1),
         NEW o, o = n * size + r
  PROVE  o \in Nat /\ o \div size = n /\ o % size = r
  <1>1. o \in Nat
    OBVIOUS
  <1>2. PICK q, m : q = o \div size /\ m = o % size
    OBVIOUS
  <1>3. q \in Nat /\ m \in 0 .. (size - 1) /\ o = q * size + m
    BY <1>1, <1>2
  <1>4. n * size \in Nat /\ q * size \in Nat
    BY <1>3
  <1>5. ~(q >= n + 1)
    <2> SUFFICES ASSUME q >= n + 1 PROVE FALSE
      OBVIOUS
    <2>1. q * size >= n * size + size
      BY <1>3
    <2> QED
      BY <1>3, <1>4, <2>1
  <1>6. ~(n >= q + 1)
    <2> SUFFICES ASSUME n >= q + 1 PROVE FALSE
      OBVIOUS
    <2>1. n * size >= q * size + size
      BY <1>3
    <2> QED
      BY <1>3, <1>4, <2>1
  <1>7. q = n
    BY <1>3, <1>5, <1>6
  <1>8. m = r
    BY <1>3, <1>4, <1>7
  <1> QED
    BY <1>1, <1>2, <1>7, <1>8

\* An entry before the last ends before the end of the table.
LEMMA EntryEnds ==
  ASSUME NEW n \in Nat, NEW count \in Nat, n < count, NEW size \in Nat
  PROVE  n * size \in Nat /\ count * size \in Nat /\ n * size + size <= count * size
  <1>1. PICK d \in Nat : count = n + 1 + d
    <2>1. count - n - 1 \in Nat /\ count = n + 1 + (count - n - 1)
      OBVIOUS
    <2> QED
      BY <2>1
  <1>2. count * size = n * size + size + d * size /\ d * size \in Nat /\ n * size \in Nat
    BY <1>1
  <1> QED
    BY <1>2

-----------------------------------------------------------------------------
(***************************************************************************)
(* The types.                                                              *)
(***************************************************************************)
TypeInv == drive \in Drives /\ TypeOK

LEMMA DriveFacts ==
  ASSUME drive \in Drives
  PROVE  /\ drive.count \in Nat /\ drive.size \in Nat /\ drive.size > 2
         /\ drive.lba \in Nat \ {0} /\ drive.limit \in Nat
         /\ drive.limit * SECTOR <= SEGMENT /\ drive.limit < WORD
         /\ DOMAIN drive.ssl \subseteq 0 .. (drive.count - 1)
         /\ \A e \in DOMAIN drive.ssl : drive.ssl[e] \in Nat
  <1>1. /\ drive.count \in Nat /\ drive.size \in Nat /\ drive.size > 2
        /\ drive.lba \in Nat \ {0} /\ drive.limit \in Nat
        /\ drive.limit * SECTOR <= SEGMENT
        /\ DOMAIN drive.ssl \subseteq 0 .. (drive.count - 1)
        /\ \A e \in DOMAIN drive.ssl : drive.ssl[e] \in Nat
    BY MbrAssumption
  <1>2. drive.limit < WORD
    <2>1. PICK limit : limit = drive.limit
      OBVIOUS
    <2>2. limit \in Nat /\ limit * SECTOR < WORD * SECTOR /\ SECTOR \in Nat \ {0} /\ WORD \in Nat
      BY <1>1, <2>1, MbrAssumption
    <2>3. CASE limit >= WORD
      <3>1. PICK d \in Nat : limit = WORD + d
        <4>1. limit - WORD \in Nat /\ limit = WORD + (limit - WORD)
          BY <2>2, <2>3
        <4> QED
          BY <4>1
      <3>2. limit * SECTOR = WORD * SECTOR + d * SECTOR /\ d * SECTOR \in Nat
        BY <2>2, <3>1
      <3> QED
        BY <2>2, <3>2
    <2> QED
      BY <2>1, <2>2, <2>3
  <1> QED
    BY <1>1, <1>2

LEMMA SslFits == SSL_SECTORS \in 0 .. (WORD - 1)
  <1>1. /\ SSL_SECTORS \in Nat /\ SSL_SECTORS * SECTOR < WORD * SECTOR
        /\ SECTOR \in Nat \ {0} /\ WORD \in Nat
    BY MbrAssumption
  <1>2. CASE SSL_SECTORS >= WORD
    <2>1. PICK d \in Nat : SSL_SECTORS = WORD + d
      <3>1. SSL_SECTORS - WORD \in Nat /\ SSL_SECTORS = WORD + (SSL_SECTORS - WORD)
        BY <1>1, <1>2
      <3> QED
        BY <3>1
    <2>2. SSL_SECTORS * SECTOR = WORD * SECTOR + d * SECTOR /\ d * SECTOR \in Nat
      BY <1>1, <2>1
    <2> QED
      BY <1>1, <2>2
  <1> QED
    BY <1>1, <1>2

\* What a cell of the segment holds.
Cells(m) ==
  /\ DOMAIN m = 0 .. (SEGMENT - 1)
  /\ \A o \in DOMAIN m : m[o].lba \in Nat /\ m[o].k \in 0 .. (SECTOR - 1)

LEMMA TransferFacts ==
  ASSUME Cells(es), Transfer, dap'.lba \in Nat, dap'.sectors \in Nat
  PROVE  /\ Cells(es')
         /\ dap'.sectors <= drive.limit
         /\ \A o \in DOMAIN es' :
              o < dap'.sectors * SECTOR =>
                es'[o] = Unit(dap'.lba + o \div SECTOR, o % SECTOR)
  <1>1. PICK lba, n : lba = dap'.lba /\ n = dap'.sectors * SECTOR
    OBVIOUS
  <1>2. es' = [o \in DOMAIN es |-> IF o < n THEN Unit(lba + o \div SECTOR, o % SECTOR)
                                           ELSE es[o]]
    BY <1>1 DEF Transfer
  <1>3. DOMAIN es' = DOMAIN es
    BY <1>2
  <1>4. ASSUME NEW o \in DOMAIN es'
        PROVE  /\ es'[o].lba \in Nat /\ es'[o].k \in 0 .. (SECTOR - 1)
               /\ o < n => es'[o] = Unit(lba + o \div SECTOR, o % SECTOR)
    <2>1. o \in Nat /\ lba \in Nat /\ SECTOR \in Nat \ {0} /\ o \in DOMAIN es
      BY <1>1, <1>3, MbrAssumption DEF Cells
    <2>2. CASE o < n
      <3>1. es'[o] = Unit(lba + o \div SECTOR, o % SECTOR)
        BY <1>2, <2>1, <2>2
      <3>2. lba + o \div SECTOR \in Nat /\ o % SECTOR \in 0 .. (SECTOR - 1)
        BY <2>1, OffsetFacts
      <3> QED
        BY <3>1, <3>2 DEF Unit
    <2>3. CASE ~(o < n)
      BY <1>2, <2>1, <2>3 DEF Cells
    <2> QED
      BY <2>2, <2>3
  <1> QED
    BY <1>1, <1>3, <1>4 DEF Cells, Transfer

LEMMA InitTypes ==
  ASSUME Init
  PROVE  TypeInv
  <1>1. LEFTOVER.lba \in Nat /\ OLDTYPE.lba \in Nat
        /\ LEFTOVER.k \in 0 .. (SECTOR - 1) /\ OLDTYPE.k \in 0 .. (SECTOR - 1)
    BY MbrAssumption DEF LEFTOVER, OLDTYPE, Unit
  <1>2. PICK old \in {LEFTOVER, OLDTYPE} :
          es = [o \in 0 .. (SEGMENT - 1) |-> IF o = SECTOR + 1 THEN old ELSE LEFTOVER]
    BY DEF Init
  <1>3. Cells(es)
    BY <1>1, <1>2 DEF Cells
  <1>4. dap \in [lba : Nat, sectors : 0 .. (WORD - 1)]
    <2>1. 1 \in 0 .. (WORD - 1)
      BY MbrAssumption
    <2> QED
      BY <2>1 DEF Init
  <1>5. 0 \in 0 .. (WORD - 1)
    BY MbrAssumption
  <1> QED
    BY <1>3, <1>4, <1>5 DEF Init, TypeInv, TypeOK, Cells

\* The start LBA that a unit holds, or 0.
LEMMA QuadFacts ==
  ASSUME drive \in Drives, NEW u
  PROVE  Quad(u) \in Nat
  BY DriveFacts DEF Quad

\* The error codes and the steps go together.
Halted == al' \in 1 .. 7 /\ pc' = "halt"

LEMMA FailFacts ==
  /\ Fail(1) => Halted /\ al' = 1
  /\ Fail(2) => Halted /\ al' = 2
  /\ Fail(3) => Halted /\ al' = 3
  /\ Fail(4) => Halted /\ al' = 4
  /\ Fail(5) => Halted /\ al' = 5
  /\ Fail(6) => Halted /\ al' = 6
  /\ Fail(7) => Halted /\ al' = 7
  BY DEF Fail, Halted

LEMMA HaltedFacts ==
  ASSUME Halted
  PROVE  al' \in 0 .. 7 /\ al' # 0 /\ pc' = "halt"
  BY DEF Halted

LEMMA TypesKept ==
  ASSUME TypeInv, Next
  PROVE  TypeInv'
  <1>1. /\ Cells(es) /\ dap \in [lba : Nat, sectors : 0 .. (WORD - 1)]
        /\ dap.lba \in Nat /\ dap.sectors \in Nat
        /\ cx \in 0 .. (WORD - 1) /\ edx \in Nat /\ ebp \in Nat /\ al \in 0 .. 7
        /\ al # 0 <=> pc = "halt"
        /\ drive \in Drives
    <2>1. /\ Cells(es) /\ dap \in [lba : Nat, sectors : 0 .. (WORD - 1)]
          /\ cx \in 0 .. (WORD - 1) /\ edx \in Nat /\ ebp \in Nat /\ al \in 0 .. 7
      BY DEF TypeInv, TypeOK, Cells
    <2>2. (al # 0 <=> pc = "halt") /\ drive \in Drives
      BY DEF TypeInv, TypeOK
    <2>3. dap.lba \in Nat /\ dap.sectors \in 0 .. (WORD - 1) /\ WORD \in Nat
      BY <2>1, MbrAssumption
    <2> QED
      BY <2>1, <2>2, <2>3
  <1>3. ASSUME UNCHANGED <<drive, es, dap, cx, edx, ebp>>,
               \/ Halted
               \/ /\ UNCHANGED al /\ pc # "halt"
                  /\ pc' \in {"sector size", "header", "table", "fault"}
        PROVE  TypeInv'
    <2>1. Cells(es') /\ drive' \in Drives
      BY <1>1, <1>3
    <2>2. /\ dap' \in [lba : Nat, sectors : 0 .. (WORD - 1)]
          /\ cx' \in 0 .. (WORD - 1) /\ edx' \in Nat /\ ebp' \in Nat
      BY <1>1, <1>3
    <2>3. /\ al' \in 0 .. 7 /\ (al' # 0 <=> pc' = "halt")
          /\ pc' \in {"sector size", "header", "table", "fault", "halt"}
      <3>1. CASE Halted
        BY <3>1, HaltedFacts
      <3>2. CASE /\ UNCHANGED al /\ pc # "halt"
                 /\ pc' \in {"sector size", "header", "table", "fault"}
        <4>1. al' = 0 /\ al' \in 0 .. 7
          BY <1>1, <3>2
        <4>2. pc' # "halt" /\ pc' \in {"sector size", "header", "table", "fault", "halt"}
          BY <3>2, Zenon
        <4> QED
          BY <4>1, <4>2
      <3> QED
        BY <1>3, <3>1, <3>2
    <2> QED
      BY <2>1, <2>2, <2>3 DEF TypeInv, TypeOK, Cells
  <1>4. CASE CheckExtensions \/ CheckSectorSize \/ CheckSignature
    <2>1. /\ UNCHANGED <<drive, es, dap, cx, edx, ebp>>
          /\ \/ Halted
             \/ /\ UNCHANGED al /\ pc # "halt"
                /\ pc' \in {"sector size", "header", "table", "fault"}
      <3>1. CASE CheckExtensions
        BY <3>1, FailFacts DEF CheckExtensions
      <3>2. CASE CheckSectorSize
        BY <3>2, FailFacts DEF CheckSectorSize
      <3>3. CASE CheckSignature
        BY <3>3, FailFacts DEF CheckSignature
      <3> QED
        BY <1>4, <3>1, <3>2, <3>3
    <2> QED
      BY <1>3, <2>1
  <1>5. CASE DivideFaults \/ LimitFaults
    <2>1. /\ UNCHANGED <<drive, es, dap, cx, edx, ebp, al>>
          /\ pc # "halt" /\ pc' = "fault"
      BY <1>5 DEF DivideFaults, LimitFaults
    <2> QED
      BY <1>3, <2>1
  <1>6. CASE ReadHeader
    <2>1. /\ UNCHANGED <<drive, dap, cx, edx, ebp>> /\ pc = "header"
          /\ \/ Transfer /\ pc' = "signature" /\ UNCHANGED al
             \/ Halted /\ UNCHANGED es
      BY <1>6, FailFacts DEF ReadHeader
    <2>2. CASE Transfer /\ pc' = "signature" /\ UNCHANGED al
      <3>1. Cells(es')
        BY <1>1, <2>1, <2>2, TransferFacts
      <3> QED
        BY <1>1, <2>1, <2>2, <3>1 DEF TypeInv, TypeOK, Cells
    <2>3. CASE Halted /\ UNCHANGED es
      BY <2>1, <2>3, <1>3
    <2> QED
      BY <2>1, <2>2, <2>3
  <1>7. CASE ReadTable
    <2>1. /\ pc = "table" /\ dap' = TablePacket /\ UNCHANGED drive
          /\ \/ /\ Transfer /\ ebp' = drive.size /\ cx' = drive.count % WORD /\ edx' = 0
                /\ pc' = "search" /\ UNCHANGED al
             \/ Halted /\ UNCHANGED <<es, cx, edx, ebp>>
      BY <1>7, FailFacts DEF ReadTable
    <2>2. /\ dap' \in [lba : Nat, sectors : 0 .. (WORD - 1)]
          /\ dap'.lba \in Nat /\ dap'.sectors \in Nat
      <3>1. drive.lba \in Nat /\ drive.count * drive.size \in Nat
        BY <1>1, DriveFacts
      <3>2. Sectors(drive.count * drive.size) \in 0 .. (WORD - 1)
        <4>1. PICK units : units = drive.count * drive.size
          OBVIOUS
        <4>2. PICK k : k = units \div SECTOR + (IF units % SECTOR = 0 THEN 0 ELSE 1)
          OBVIOUS
        <4>3. k \in Nat /\ Sectors(units) = k % WORD
          BY <3>1, <4>1, <4>2, MbrAssumption DEF Sectors
        <4> QED
          BY <4>1, <4>3, MbrAssumption
      <3> QED
        BY <2>1, <3>1, <3>2 DEF TablePacket
    <2>3. CASE /\ Transfer /\ ebp' = drive.size /\ cx' = drive.count % WORD /\ edx' = 0
               /\ pc' = "search" /\ UNCHANGED al
      <3>1. Cells(es')
        BY <1>1, <2>2, <2>3, TransferFacts
      <3>2. cx' \in 0 .. (WORD - 1) /\ ebp' \in Nat
        BY <1>1, <2>3, DriveFacts, MbrAssumption
      <3> QED
        BY <1>1, <2>1, <2>2, <2>3, <3>1, <3>2 DEF TypeInv, TypeOK, Cells
    <2>4. CASE Halted /\ UNCHANGED <<es, cx, edx, ebp>>
      BY <1>1, <2>1, <2>2, <2>4, HaltedFacts DEF TypeInv, TypeOK, Cells
    <2> QED
      BY <2>1, <2>3, <2>4
  <1>8. CASE Search
    <2>1. /\ pc = "search" /\ UNCHANGED <<drive, es, dap, ebp>>
          /\ \/ pc' = "load" /\ UNCHANGED <<cx, edx, al>>
             \/ NextEntry
      BY <1>8 DEF Search
    <2>2. CASE pc' = "load" /\ UNCHANGED <<cx, edx, al>>
      BY <1>1, <2>1, <2>2 DEF TypeInv, TypeOK
    <2>3. CASE NextEntry
      <3>1. /\ edx' = edx + ebp /\ cx' = (cx - 1) % WORD
            /\ \/ UNCHANGED <<al, pc>>
               \/ Halted
        BY <2>3, FailFacts DEF NextEntry
      <3>2. edx' \in Nat /\ cx' \in 0 .. (WORD - 1)
        BY <1>1, <3>1, MbrAssumption
      <3> QED
        <4>1. /\ al' \in 0 .. 7 /\ (al' # 0 <=> pc' = "halt")
              /\ pc' \in {"search", "halt"}
          <5>1. CASE Halted
            BY <5>1, HaltedFacts
          <5>2. CASE UNCHANGED <<al, pc>>
            BY <1>1, <2>1, <5>2
          <5> QED
            BY <3>1, <5>1, <5>2
        <4> QED
          BY <1>1, <2>1, <3>2, <4>1 DEF TypeInv, TypeOK, Cells
    <2> QED
      BY <2>1, <2>2, <2>3
  <1>9. CASE LoadSsl
    <2>1. /\ pc = "load" /\ UNCHANGED <<drive, cx, edx, ebp>>
          /\ dap' = [lba |-> Quad(es[edx + 2]), sectors |-> SSL_SECTORS]
          /\ \/ Transfer /\ pc' = "ssl" /\ UNCHANGED al
             \/ Halted /\ UNCHANGED es
      BY <1>9, FailFacts DEF LoadSsl
    <2>2. /\ dap' \in [lba : Nat, sectors : 0 .. (WORD - 1)]
          /\ dap'.lba \in Nat /\ dap'.sectors \in Nat
      BY <1>1, <2>1, QuadFacts, SslFits, MbrAssumption
    <2>3. CASE Transfer /\ pc' = "ssl" /\ UNCHANGED al
      <3>1. Cells(es')
        BY <1>1, <2>2, <2>3, TransferFacts
      <3> QED
        BY <1>1, <2>1, <2>2, <2>3, <3>1 DEF TypeInv, TypeOK, Cells
    <2>4. CASE Halted /\ UNCHANGED es
      BY <1>1, <2>1, <2>2, <2>4, HaltedFacts DEF TypeInv, TypeOK, Cells
    <2> QED
      BY <2>1, <2>3, <2>4
  <1>10. CASE UNCHANGED vars
    BY <1>10 DEF TypeInv, TypeOK, vars
  <1> QED
    BY <1>4, <1>5, <1>6, <1>7, <1>8, <1>9, <1>10 DEF Next, Stay

-----------------------------------------------------------------------------
(***************************************************************************)
(* The search.                                                             *)
(***************************************************************************)
\* The table is at the start of the segment.
TableIn ==
  \A o \in 0 .. (drive.count * drive.size - 1) :
    es[o] = Unit(drive.lba + o \div SECTOR, o % SECTOR)

\* No entry before the n-th is an SSL entry.
NoneBefore(n) == \A e \in DOMAIN drive.ssl : n <= e

\* CX counts the entries from the one at EDX on.
Searching ==
  /\ TableIn /\ ebp = drive.size
  /\ \E n \in 0 .. (drive.count - 1) :
       /\ edx = n * drive.size /\ cx = (drive.count - n) % WORD
       /\ NoneBefore(n)

FoundFirst ==
  /\ TableIn
  /\ \E n \in DOMAIN drive.ssl : edx = n * drive.size /\ NoneBefore(n)

Started ==
  \E n \in DOMAIN drive.ssl :
    /\ NoneBefore(n)
    /\ \A o \in 0 .. (SSL_SECTORS * SECTOR - 1) :
         es[o] = Unit(drive.ssl[n] + o \div SECTOR, o % SECTOR)

Progress ==
  /\ pc = "search" => Searching
  /\ pc = "load" => FoundFirst
  /\ pc = "ssl" => Started
  /\ al = 6 => DOMAIN drive.ssl = {}
  /\ pc # "fault"

IInv == TypeInv /\ (Readable => Progress)

LEMMA TableFacts ==
  ASSUME TypeInv, Readable, TableIn, NEW o \in 0 .. (drive.count * drive.size - 1)
  PROVE  /\ o \in DOMAIN es /\ o < SEGMENT
         /\ InTable(es[o]) /\ Position(es[o]) = o /\ es[o] # OLDTYPE
  <1>1. PICK units : units = drive.count * drive.size
    OBVIOUS
  <1>2. /\ units \in Nat /\ units <= SEGMENT /\ o \in Nat /\ o < units
        /\ SECTOR \in Nat \ {0} /\ drive.lba \in Nat \ {0} /\ SEGMENT \in Nat
    <2>1. /\ drive.count \in Nat /\ drive.size \in Nat /\ drive.limit \in Nat
          /\ drive.lba \in Nat \ {0} /\ drive.limit * SECTOR <= SEGMENT
      BY DriveFacts DEF TypeInv
    <2>2. units \in Nat
      BY <1>1, <2>1
    <2>3. units <= drive.limit * SECTOR
      BY <1>1 DEF Readable
    <2>4. drive.limit * SECTOR \in Nat /\ SEGMENT \in Nat /\ SECTOR \in Nat \ {0}
      BY <2>1, MbrAssumption
    <2> QED
      BY <1>1, <2>1, <2>2, <2>3, <2>4
  <1>3. PICK lba, q, r : lba = drive.lba /\ q = o \div SECTOR /\ r = o % SECTOR
    OBVIOUS
  <1>4. es[o] = Unit(lba + q, r)
    BY <1>3 DEF TableIn
  <1>5. q \in Nat /\ lba + q \in Nat /\ lba + q >= lba /\ ((lba + q) - lba) * SECTOR + r = o
        /\ lba + q # 0
    <2>1. lba \in Nat \ {0}
      BY <1>2, <1>3
    <2>2. q \in Nat /\ lba + q \in Nat /\ lba + q >= lba /\ ((lba + q) - lba) * SECTOR + r = o
      BY <1>2, <1>3, <2>1, OffsetFacts
    <2> QED
      BY <2>1, <2>2
  <1>6. es[o].lba = lba + q /\ es[o].k = r
    BY <1>4 DEF Unit
  <1>7. Position(es[o]) = o
    BY <1>3, <1>5, <1>6 DEF Position
  <1>8. InTable(es[o])
    BY <1>1, <1>2, <1>3, <1>5, <1>6, <1>7 DEF InTable
  <1>9. es[o] # OLDTYPE
    BY <1>5, <1>6 DEF OLDTYPE, Unit
  <1>10. o < SEGMENT /\ o \in 0 .. (SEGMENT - 1)
    BY <1>2
  <1> QED
    BY <1>7, <1>8, <1>9, <1>10 DEF TypeInv, TypeOK

\* Where an entry begins, its type is compared.
LEMMA TypeFacts ==
  ASSUME TypeInv, Readable, TableIn, NEW n \in 0 .. (drive.count - 1),
         NEW o, o = n * drive.size
  PROVE  /\ o \in Nat /\ o + 2 < SEGMENT /\ o % SEGMENT = o
         /\ IsSslType(es[o]) <=> n \in DOMAIN drive.ssl
         /\ n \in DOMAIN drive.ssl => Quad(es[o + 2]) = drive.ssl[n]
  <1>1. PICK size, count, units : size = drive.size /\ count = drive.count
                                  /\ units = count * size
    OBVIOUS
  <1>2. /\ size \in Nat \ {0} /\ size > 2 /\ count \in Nat /\ n \in Nat /\ n < count
        /\ SEGMENT \in Nat
    BY <1>1, DriveFacts, MbrAssumption DEF TypeInv
  <1>3. o \in Nat /\ units \in Nat /\ o + size <= units
    BY <1>1, <1>2, EntryEnds
  <1>4. o \in 0 .. (units - 1) /\ o + 2 \in 0 .. (units - 1)
    BY <1>2, <1>3
  <1>5. /\ InTable(es[o]) /\ Position(es[o]) = o /\ es[o] # OLDTYPE
        /\ InTable(es[o + 2]) /\ Position(es[o + 2]) = o + 2 /\ o + 2 < SEGMENT
    BY <1>1, <1>4, TableFacts
  <1>6. o % size = 0 /\ o \div size = n
    <2>1. 0 \in 0 .. (size - 1) /\ o = n * size + 0
      BY <1>1, <1>2, <1>3
    <2> QED
      BY <1>2, <2>1, EntryFacts
  <1>7. (o + 2) % size = 2 /\ (o + 2) \div size = n
    <2>1. PICK u : u = o + 2
      OBVIOUS
    <2>2. 2 \in 0 .. (size - 1) /\ u = n * size + 2
      BY <1>1, <1>2, <1>3, <2>1
    <2>3. u % size = 2 /\ u \div size = n
      <3>1. PICK r : r = 2
        OBVIOUS
      <3>2. r \in 0 .. (size - 1) /\ u = n * size + r /\ n \in Nat /\ size \in Nat \ {0}
        BY <1>2, <2>2, <3>1
      <3>3. u % size = r /\ u \div size = n
        <4>1. r \in 0 .. (size - 1)
          BY <3>2
        <4>2. u = n * size + r
          BY <3>2
        <4>3. n \in Nat /\ size \in Nat \ {0}
          BY <3>2
        <4>4. \A a : a = n * size + r => a \in Nat /\ a \div size = n /\ a % size = r
          BY <4>1, <4>3, EntryFacts, ZenonT(60)
        <4> QED
          BY <4>2, <4>4, Zenon
      <3> QED
        BY <3>1, <3>3
    <2> QED
      BY <2>1, <2>3
  <1>8. IsSslType(es[o]) <=> n \in DOMAIN drive.ssl
    BY <1>1, <1>5, <1>6 DEF IsSslType
  <1>9. n \in DOMAIN drive.ssl => Quad(es[o + 2]) = drive.ssl[n]
    BY <1>1, <1>5, <1>7 DEF Quad
  <1>10. o % SEGMENT = o
    BY <1>2, <1>3, <1>5
  <1> QED
    BY <1>3, <1>5, <1>8, <1>9, <1>10

\* The table comes in whole.
LEMMA ReadTableProgress ==
  ASSUME TypeInv, Readable, ReadTable, pc' = "search"
  PROVE  Searching'
  <1>1. /\ dap' = TablePacket /\ Transfer /\ ebp' = drive.size /\ edx' = 0
        /\ cx' = drive.count % WORD /\ UNCHANGED drive
    BY DEF ReadTable, Fail
  <1>2. PICK units, n : units = drive.count * drive.size /\ n = Sectors(units)
    OBVIOUS
  <1>3. /\ drive.count \in Nat /\ drive.size \in Nat /\ drive.limit \in Nat
        /\ drive.limit < WORD /\ drive.lba \in Nat
        /\ drive.limit * SECTOR <= SEGMENT /\ SEGMENT \in Nat
        /\ SECTOR \in Nat \ {0} /\ WORD \in Nat \ {0}
    BY DriveFacts, MbrAssumption DEF TypeInv
  <1>4. units \in Nat /\ units <= drive.limit * SECTOR
    BY <1>2, <1>3 DEF Readable
  <1>5. n \in Nat /\ units <= n * SECTOR
    BY <1>2, <1>3, <1>4, Rounded DEF Sectors
  <1>6. dap'.lba = drive.lba /\ dap'.sectors = n
    BY <1>1, <1>2 DEF TablePacket
  <1>7. \A o \in DOMAIN es' : o < n * SECTOR =>
          es'[o] = Unit(drive.lba + o \div SECTOR, o % SECTOR)
    <2>1. Cells(es)
      BY DEF TypeInv, TypeOK, Cells
    <2>2. \A o \in DOMAIN es' : o < dap'.sectors * SECTOR =>
            es'[o] = Unit(dap'.lba + o \div SECTOR, o % SECTOR)
      BY <1>1, <1>3, <1>5, <1>6, <2>1, TransferFacts
    <2> QED
      BY <1>6, <2>2
  <1>8. DOMAIN es' = 0 .. (SEGMENT - 1)
    BY <1>1 DEF Transfer, TypeInv, TypeOK
  <1>9. ASSUME NEW o \in 0 .. (units - 1)
        PROVE  es'[o] = Unit(drive.lba + o \div SECTOR, o % SECTOR)
    <2>1. PICK room, all : room = drive.limit * SECTOR /\ all = n * SECTOR
      OBVIOUS
    <2>2. units <= room /\ room \in Nat /\ room <= SEGMENT /\ units <= all /\ all \in Nat
      BY <1>3, <1>4, <1>5, <2>1
    <2>3. o \in DOMAIN es' /\ o < n * SECTOR
      BY <1>3, <1>4, <1>8, <2>1, <2>2
    <2> QED
      BY <1>7, <2>3
  <1>10. TableIn'
    BY <1>1, <1>2, <1>9 DEF TableIn
  <1>11. NoneBefore(0)'
    BY <1>1, DriveFacts DEF NoneBefore, TypeInv
  <1>12. 0 \in 0 .. (drive'.count - 1) /\ 0 * drive'.size = 0 /\ drive'.count - 0 = drive'.count
    BY <1>1, <1>3 DEF Readable
  <1> QED
    BY <1>1, <1>10, <1>11, <1>12 DEF Searching

LEMMA SearchProgress ==
  ASSUME TypeInv, Readable, Searching, Search
  PROVE  /\ pc' = "search" => Searching'
         /\ pc' = "load" => FoundFirst'
         /\ al' = 6 => DOMAIN drive.ssl = {}
  <1>1. PICK n \in 0 .. (drive.count - 1) :
          /\ edx = n * drive.size /\ cx = (drive.count - n) % WORD
          /\ NoneBefore(n)
    BY DEF Searching
  <1>2. /\ TableIn /\ ebp = drive.size /\ pc = "search" /\ UNCHANGED <<drive, es, dap, ebp>>
        /\ al = 0
    BY DEF Searching, Search, TypeInv, TypeOK
  <1>3. edx % SEGMENT = edx /\ (IsSslType(es[edx]) <=> n \in DOMAIN drive.ssl)
    BY <1>1, <1>2, TypeFacts
  <1>4. TableIn'
    BY <1>2 DEF TableIn
  <1>5. \/ n \in DOMAIN drive.ssl /\ pc' = "load" /\ UNCHANGED <<cx, edx, al>>
        \/ n \notin DOMAIN drive.ssl /\ NextEntry
    BY <1>3 DEF Search
  <1>6. CASE n \in DOMAIN drive.ssl /\ pc' = "load" /\ UNCHANGED <<cx, edx, al>>
    BY <1>1, <1>2, <1>4, <1>6 DEF FoundFirst, NoneBefore
  <1>7. CASE n \notin DOMAIN drive.ssl /\ NextEntry
    <2>1. PICK count, size : count = drive.count /\ size = drive.size
      OBVIOUS
    <2>2. /\ count \in 1 .. WORD /\ n \in Nat /\ n < count /\ size \in Nat
          /\ WORD \in Nat \ {0, 1} /\ DOMAIN drive.ssl \subseteq 0 .. (count - 1)
      BY <2>1, DriveFacts, MbrAssumption DEF Readable, TypeInv
    <2>3. \A e \in DOMAIN drive.ssl : n + 1 <= e
      <3> SUFFICES ASSUME NEW e \in DOMAIN drive.ssl PROVE n + 1 <= e
        OBVIOUS
      <3>1. n <= e /\ e # n /\ e \in Nat
        BY <1>1, <1>7, <2>2 DEF NoneBefore
      <3> QED
        BY <2>2, <3>1
    <2>4. PICK left : left = count - n
      OBVIOUS
    <2>5. left \in 1 .. WORD /\ cx = left % WORD
      BY <1>1, <2>1, <2>2, <2>4
    <2>6. cx = 1 <=> left = 1
      <3>1. CASE left = WORD
        BY <2>2, <2>5, <3>1
      <3>2. CASE left # WORD
        <4>1. left % WORD = left
          BY <2>2, <2>5, <3>2
        <4> QED
          BY <2>5, <4>1
      <3> QED
        BY <3>1, <3>2
    <2>7. CASE cx = 1
      <3>1. n = count - 1
        BY <2>2, <2>4, <2>5, <2>6, <2>7
      <3>2. DOMAIN drive.ssl = {}
        BY <2>2, <2>3, <3>1
      <3>3. pc' = "halt"
        BY <1>7, <2>7 DEF NextEntry, Fail
      <3> QED
        BY <3>2, <3>3
    <2>8. CASE cx # 1
      <3>1. edx' = edx + ebp /\ cx' = (cx - 1) % WORD /\ UNCHANGED <<al, pc>>
        BY <1>7, <2>8 DEF NextEntry
      <3>2. n + 1 \in 0 .. (count - 1)
        BY <2>2, <2>4, <2>5, <2>6, <2>8
      <3>3. edx' = (n + 1) * size
        <4>1. edx = n * size /\ edx' = edx + size
          BY <1>1, <1>2, <2>1, <3>1
        <4>2. (n + 1) * size = n * size + size
          BY <2>2
        <4> QED
          BY <4>1, <4>2
      <3>4. cx' = (count - (n + 1)) % WORD
        <4>1. count - (n + 1) = left - 1 /\ left - 1 \in 1 .. (WORD - 1)
          BY <2>2, <2>4, <2>5, <2>6, <2>8
        <4>2. (left - 1) % WORD = left - 1
          BY <2>2, <4>1
        <4>3. cx' = left - 1
          <5>1. CASE left = WORD
            <6>1. cx = 0
              BY <2>2, <2>5, <5>1
            <6>2. (0 - 1) % WORD = WORD - 1
              BY <2>2
            <6> QED
              BY <3>1, <5>1, <6>1, <6>2
          <5>2. CASE left # WORD
            <6>1. cx = left
              BY <2>2, <2>5, <5>2
            <6> QED
              BY <3>1, <4>2, <6>1
          <5> QED
            BY <5>1, <5>2
        <4> QED
          BY <4>1, <4>2, <4>3
      <3>5. NoneBefore(n + 1)'
        BY <1>2, <2>3 DEF NoneBefore
      <3>6. Searching'
        BY <1>2, <1>4, <2>1, <3>2, <3>3, <3>4, <3>5 DEF Searching
      <3> QED
        BY <1>2, <3>1, <3>6
    <2> QED
      BY <2>7, <2>8
  <1> QED
    BY <1>5, <1>6, <1>7

LEMMA LoadProgress ==
  ASSUME TypeInv, Readable, FoundFirst, LoadSsl, pc' = "ssl"
  PROVE  Started'
  <1>1. PICK n \in DOMAIN drive.ssl : edx = n * drive.size /\ NoneBefore(n)
    BY DEF FoundFirst
  <1>2. /\ dap' = [lba |-> Quad(es[edx + 2]), sectors |-> SSL_SECTORS]
        /\ Transfer /\ UNCHANGED drive
    BY DEF LoadSsl, Fail
  <1>3. n \in 0 .. (drive.count - 1) /\ drive.ssl[n] \in Nat
    BY <1>1, DriveFacts DEF TypeInv
  <1>4. Quad(es[edx + 2]) = drive.ssl[n]
    BY <1>1, <1>3, TypeFacts DEF FoundFirst
  <1>5. dap'.lba = drive.ssl[n] /\ dap'.sectors = SSL_SECTORS
    BY <1>2, <1>4
  <1>6. /\ SSL_SECTORS \in Nat /\ SECTOR \in Nat /\ SEGMENT \in Nat
        /\ SSL_SECTORS * SECTOR <= SEGMENT /\ SSL_SECTORS * SECTOR \in Nat
    BY MbrAssumption
  <1>7. \A o \in DOMAIN es' : o < SSL_SECTORS * SECTOR =>
          es'[o] = Unit(drive.ssl[n] + o \div SECTOR, o % SECTOR)
    <2>1. Cells(es)
      BY DEF TypeInv, TypeOK, Cells
    <2>2. \A o \in DOMAIN es' : o < dap'.sectors * SECTOR =>
            es'[o] = Unit(dap'.lba + o \div SECTOR, o % SECTOR)
      BY <1>2, <1>3, <1>5, <1>6, <2>1, TransferFacts
    <2> QED
      BY <1>5, <2>2
  <1>8. DOMAIN es' = 0 .. (SEGMENT - 1)
    BY <1>2 DEF Transfer, TypeInv, TypeOK
  <1>9. \A o \in 0 .. (SSL_SECTORS * SECTOR - 1) :
          es'[o] = Unit(drive.ssl[n] + o \div SECTOR, o % SECTOR)
    <2> SUFFICES ASSUME NEW o \in 0 .. (SSL_SECTORS * SECTOR - 1)
                 PROVE  es'[o] = Unit(drive.ssl[n] + o \div SECTOR, o % SECTOR)
      OBVIOUS
    <2>1. o \in DOMAIN es' /\ o < SSL_SECTORS * SECTOR
      BY <1>6, <1>8
    <2> QED
      BY <1>7, <2>1
  <1> QED
    BY <1>1, <1>2, <1>9 DEF Started, NoneBefore

\* Neither the division nor the limit of the segment is a problem.
LEMMA NoFault ==
  ASSUME TypeInv, Readable, pc = "load" => FoundFirst
  PROVE  ~DivideFaults /\ ~LimitFaults
  <1>1. ~DivideFaults
    <2>1. PICK units, limit : units = drive.count * drive.size /\ limit = drive.limit
      OBVIOUS
    <2>2. /\ units \in Nat /\ limit \in Nat /\ units <= limit * SECTOR /\ limit < WORD
          /\ SECTOR \in Nat \ {0} /\ WORD \in Nat \ {0} /\ DWORD \in Nat /\ WORD <= DWORD
      BY <2>1, DriveFacts, MbrAssumption DEF TypeInv, Readable
    <2>3. units \div SECTOR <= limit
      BY <2>2, Rounded
    <2>4. units \div SECTOR \in Nat
      BY <2>2
    <2> QED
      BY <2>1, <2>2, <2>3, <2>4 DEF DivideFaults
  <1>2. ~LimitFaults
    <2> SUFFICES ASSUME pc = "load" PROVE edx + 2 < SEGMENT
      <3>1. edx \in Nat /\ SEGMENT \in Nat
        BY MbrAssumption DEF TypeInv, TypeOK
      <3> QED
        BY <3>1 DEF LimitFaults
    <2>1. PICK n \in DOMAIN drive.ssl : edx = n * drive.size
      BY DEF FoundFirst
    <2>2. n \in 0 .. (drive.count - 1)
      BY DriveFacts DEF TypeInv
    <2> QED
      BY <2>1, <2>2, TypeFacts DEF FoundFirst
  <1> QED
    BY <1>1, <1>2

LEMMA ProgressKept ==
  ASSUME TypeInv, Readable, Progress, Next
  PROVE  Progress'
  <1>1. UNCHANGED drive
    BY DEF Next, CheckExtensions, CheckSectorSize, ReadHeader, CheckSignature, ReadTable,
           DivideFaults, Search, LoadSsl, LimitFaults, Stay, vars
  <1>2. CASE CheckExtensions \/ CheckSectorSize \/ ReadHeader \/ CheckSignature
    <2>1. /\ pc' \in {"sector size", "header", "signature", "table", "halt"}
          /\ al' # 6
      <3>1. pc # "halt" /\ al = 0
        BY <1>2
        DEF CheckExtensions, CheckSectorSize, ReadHeader, CheckSignature, TypeInv, TypeOK
      <3>2. \/ /\ al' = al
               /\ pc' \in {"sector size", "header", "signature", "table"}
            \/ Fail(1) \/ Fail(2) \/ Fail(3) \/ Fail(4)
        BY <1>2 DEF CheckExtensions, CheckSectorSize, ReadHeader, CheckSignature
      <3>3. CASE al' = al /\ pc' \in {"sector size", "header", "signature", "table"}
        <4>1. al' = 0
          BY <3>1, <3>3, Zenon
        <4>2. al' # 6
          BY <4>1
        <4> QED
          BY <3>3, <4>2, Zenon
      <3>4. CASE Fail(1) \/ Fail(2) \/ Fail(3) \/ Fail(4)
        <4>1. al' # 6
          BY <3>4 DEF Fail
        <4>2. pc' = "halt"
          BY <3>4, FailFacts, HaltedFacts
        <4> QED
          BY <4>1, <4>2, Zenon
      <3> QED
        BY <3>2, <3>3, <3>4
    <2> QED
      BY <2>1 DEF Progress
  <1>3. CASE ReadTable
    <2>1. \/ pc' = "search" /\ UNCHANGED al /\ al = 0
          \/ al' = 5 /\ pc' = "halt"
      BY <1>3 DEF ReadTable, Fail, TypeInv, TypeOK
    <2> QED
      BY <1>3, <2>1, ReadTableProgress DEF Progress
  <1>4. CASE Search
    <2>1. pc' \in {"search", "load", "halt"} /\ Searching
      BY <1>4 DEF Search, NextEntry, Fail, Progress
    <2> QED
      BY <1>1, <1>4, <2>1, SearchProgress DEF Progress
  <1>5. CASE LoadSsl
    <2>1. \/ pc' = "ssl" /\ UNCHANGED al /\ al = 0
          \/ al' = 7 /\ pc' = "halt"
      BY <1>5 DEF LoadSsl, Fail, TypeInv, TypeOK
    <2>2. FoundFirst
      BY <1>5 DEF LoadSsl, Progress
    <2> QED
      BY <1>5, <2>1, <2>2, LoadProgress DEF Progress
  <1>6. ~DivideFaults /\ ~LimitFaults
    BY NoFault DEF Progress
  <1>7. CASE UNCHANGED vars
    BY <1>7 DEF vars, Progress, Searching, FoundFirst, Started, TableIn, NoneBefore
  <1> QED
    BY <1>2, <1>3, <1>4, <1>5, <1>6, <1>7 DEF Next, Stay

\* The inductive invariant: on a drive whose table is readable, the table lies
\* in the segment while it is searched, CX counts what is left of it, and no
\* entry before EDX is of the SSL.
THEOREM Invariance == Spec => []IInv
  <1>1. Init => IInv
    BY InitTypes DEF Init, IInv, Progress
  <1>2. IInv /\ [Next]_vars => IInv'
    <2> SUFFICES ASSUME IInv, [Next]_vars PROVE IInv'
      OBVIOUS
    <2>1. CASE Next
      <3>1. TypeInv'
        BY <2>1, TypesKept DEF IInv
      <3>2. Readable' <=> Readable
        BY <2>1
        DEF Next, CheckExtensions, CheckSectorSize, ReadHeader, CheckSignature, ReadTable,
            DivideFaults, Search, LoadSsl, LimitFaults, Stay, vars, Readable
      <3> QED
        BY <2>1, <3>1, <3>2, ProgressKept DEF IInv
    <2>2. CASE UNCHANGED vars
      BY <2>2 DEF vars, IInv, TypeInv, TypeOK, Readable, Progress, Searching, FoundFirst, Started,
                  TableIn, NoneBefore
    <2> QED
      BY <2>1, <2>2
  <1> QED
    BY <1>1, <1>2, PTL DEF Spec

\* The counter and the packet stay in their words, whatever the header of the
\* table says, and an error code is printed exactly when the program halts.
THEOREM TypeCorrect == Spec => []TypeOK
  <1>1. IInv => TypeOK
    BY DEF IInv, TypeInv
  <1> QED
    BY <1>1, Invariance, PTL

\* From a table that could be read whole the program starts the first SSL
\* entry, all of it, or says truly that there is none; and nothing faults.
THEOREM FirstStarted == Spec => []SearchExact
  <1>1. IInv => SearchExact
    BY DEF IInv, Progress, Started, NoneBefore, SearchExact
  <1> QED
    BY <1>1, Invariance, PTL

-----------------------------------------------------------------------------
(***************************************************************************)
(* Induction and recursive functions.                                      *)
(***************************************************************************)
\* Every set of numbers has a least one.
LEMMA SomeLeast ==
  ASSUME NEW S, S \subseteq Nat, S # {}
  PROVE  \E x \in S : \A y \in S : x <= y
  <1> DEFINE R == {ss \in Nat \X Nat : ss[1] < ss[2]}
  <1>1. IsWellFoundedOn(R, Nat)
    BY NatLessThanWellFounded, Zenon DEF OpToRel
  <1>2. \E x \in S : \A y \in S : ~ (<<y, x>> \in R)
    <2> HIDE DEF R
    <2> QED
      BY <1>1, WFMin
  <1>3. PICK x \in S : \A y \in S : ~ (<<y, x>> \in R)
    BY <1>2
  <1> SUFFICES ASSUME NEW y \in S PROVE x <= y
    BY Zenon
  <1>4. <<y, x>> \in Nat \X Nat /\ ~(y < x)
    BY <1>3
  <1> QED
    BY <1>4

\* Induction, for a set of numbers.
LEMMA Induction ==
  ASSUME NEW S, 0 \in S, \A n \in Nat : n \in S => n + 1 \in S
  PROVE  Nat \subseteq S
  <1> SUFFICES ASSUME Nat \ S # {} PROVE FALSE
    OBVIOUS
  <1>1. PICK x \in Nat \ S : \A y \in Nat \ S : x <= y
    <2> DEFINE T == Nat \ S
    <2> HIDE DEF T
    <2>1. T \subseteq Nat /\ T # {}
      BY DEF T
    <2>2. \E x \in T : \A y \in T : x <= y
      BY <2>1, SomeLeast
    <2> QED
      BY <2>2 DEF T
  <1>2. x # 0 /\ x - 1 \in Nat
    BY <1>1
  <1>3. x - 1 \in S
    BY <1>1, <1>2
  <1>4. (x - 1) + 1 \in S /\ (x - 1) + 1 = x
    BY <1>2, <1>3, <1>1
  <1> QED
    BY <1>1, <1>4

\* Induction from all smaller numbers.
LEMMA StrongInduction ==
  ASSUME NEW S, \A n \in Nat : (\A m \in 0 .. (n - 1) : m \in S) => n \in S
  PROVE  Nat \subseteq S
  <1> SUFFICES ASSUME Nat \ S # {} PROVE FALSE
    OBVIOUS
  <1>1. PICK x \in Nat \ S : \A y \in Nat \ S : x <= y
    <2> DEFINE T == Nat \ S
    <2> HIDE DEF T
    <2>1. T \subseteq Nat /\ T # {}
      BY DEF T
    <2>2. \E x \in T : \A y \in T : x <= y
      BY <2>1, SomeLeast
    <2> QED
      BY <2>2 DEF T
  <1>2. \A m \in 0 .. (x - 1) : m \in S
    BY <1>1
  <1> QED
    BY <1>1, <1>2

\* g begins with base, and F[k] makes its value at k of the one before.
Iterates(g, n, S, base, F) ==
  g \in [0 .. n -> S] /\ g[0] = base /\ \A k \in 1 .. n : g[k] = F[k][g[k - 1]]

\* A function that is defined from its value before exists.
LEMMA Iterated ==
  ASSUME NEW n \in Nat, NEW S, NEW base \in S, NEW F,
         \A k \in 1 .. n : \A s \in S : F[k][s] \in S
  PROVE  \E g : Iterates(g, n, S, base, F)
  <1> DEFINE Upto(m) == \E g \in [0 .. m -> S] :
                          g[0] = base /\ \A k \in 1 .. m : g[k] = F[k][g[k - 1]]
             T == {m \in Nat : m <= n => Upto(m)}
  <1>1. 0 \in T
    <2>1. PICK g : g = [k \in 0 .. 0 |-> base]
      OBVIOUS
    <2>2. g \in [0 .. 0 -> S] /\ g[0] = base /\ \A k \in 1 .. 0 : g[k] = F[k][g[k - 1]]
      BY <2>1
    <2>3. Upto(0)
      BY <2>2
    <2> QED
      BY <2>3
  <1>2. ASSUME NEW m \in Nat, m \in T PROVE m + 1 \in T
    <2> SUFFICES ASSUME m + 1 <= n PROVE Upto(m + 1)
      OBVIOUS
    <2>1. PICK g \in [0 .. m -> S] :
            g[0] = base /\ \A k \in 1 .. m : g[k] = F[k][g[k - 1]]
      BY <1>2
    <2> DEFINE h == [k \in 0 .. (m + 1) |-> IF k = m + 1 THEN F[m + 1][g[m]] ELSE g[k]]
    <2>2. g[m] \in S /\ m + 1 \in 1 .. n
      BY <2>1
    <2>3. F[m + 1][g[m]] \in S
      BY <2>2
    <2>4. h \in [0 .. (m + 1) -> S]
      BY <2>1, <2>3
    <2>5. h[0] = base
      BY <2>1
    <2>6. ASSUME NEW k \in 1 .. (m + 1) PROVE h[k] = F[k][h[k - 1]]
      <3>1. CASE k = m + 1
        <4>1. h[k - 1] = g[m] /\ h[k] = F[m + 1][g[m]]
          BY <3>1
        <4> QED
          BY <4>1, <3>1
      <3>2. CASE k # m + 1
        <4>1. k \in 1 .. m /\ k - 1 \in 0 .. m
          BY <3>2
        <4>2. h[k] = g[k] /\ h[k - 1] = g[k - 1]
          BY <4>1
        <4> QED
          BY <4>1, <4>2, <2>1
      <3> QED
        BY <3>1, <3>2
    <2> HIDE DEF h
    <2> QED
      BY <2>4, <2>5, <2>6
  <1> HIDE DEF T
  <1>3. Nat \subseteq T
    BY <1>1, <1>2, Induction
  <1> QED
    BY <1>3 DEF T, Iterates

\* Functions made by the same steps agree.
LEMMA IteratesAgree ==
  ASSUME NEW n \in Nat, NEW m \in Nat, n <= m, NEW S, NEW base, NEW F, NEW G, NEW f, NEW g,
         Iterates(f, n, S, base, F), Iterates(g, m, S, base, G),
         \A k \in 1 .. n : \A s \in S : F[k][s] = G[k][s]
  PROVE  f[n] = g[n]
  <1> DEFINE T == {k \in Nat : k <= n => f[k] = g[k]}
  <1>1. 0 \in T
    BY DEF Iterates
  <1>2. ASSUME NEW k \in Nat, k \in T PROVE k + 1 \in T
    <2> SUFFICES ASSUME k + 1 <= n PROVE f[k + 1] = g[k + 1]
      OBVIOUS
    <2>1. f[k] = g[k] /\ k + 1 \in 1 .. n /\ k + 1 \in 1 .. m /\ (k + 1) - 1 = k
      BY <1>2
    <2>2. f[k] \in S
      BY <2>1 DEF Iterates
    <2>3. f[k + 1] = F[k + 1][f[k]] /\ g[k + 1] = G[k + 1][g[k]]
      BY <2>1 DEF Iterates
    <2> QED
      BY <2>1, <2>2, <2>3
  <1> HIDE DEF T
  <1>3. n \in T
    BY <1>1, <1>2, Induction
  <1> QED
    BY <1>3 DEF T

-----------------------------------------------------------------------------
(***************************************************************************)
(* Powers.                                                                 *)
(***************************************************************************)
\* The function under Power.
LEMMA PowerFunction ==
  ASSUME NEW base \in Nat, NEW n \in Nat
  PROVE  \E f : /\ Power(base, n) = f[n]
                /\ f[0] = 1 /\ \A k \in 1 .. n : f[k] = base * f[k - 1]
  <1>1. PICK S : S = Nat
    OBVIOUS
  <1>2. PICK F : F = [k \in 1 .. n |-> [s \in S |-> base * s]]
    OBVIOUS
  <1>3. \A k \in 1 .. n : \A s \in S : F[k][s] = base * s /\ F[k][s] \in S
    BY <1>1, <1>2
  <1>4. PICK g \in [0 .. n -> S] : g[0] = 1 /\ \A k \in 1 .. n : g[k] = F[k][g[k - 1]]
    <2>1. PICK one \in S : one = 1
      BY <1>1
    <2>2. \A k \in 1 .. n : \A s \in S : F[k][s] \in S
      BY <1>3
    <2>3. \E g : Iterates(g, n, S, one, F)
      BY <2>2, Iterated
    <2> QED
      BY <2>1, <2>3 DEF Iterates
  <1>5. ASSUME NEW k \in 0 .. n PROVE g[k] = IF k = 0 THEN 1 ELSE base * g[k - 1]
    <2>1. CASE k # 0
      <3>1. k \in 1 .. n /\ g[k - 1] \in S
        BY <1>4, <2>1
      <3> QED
        BY <1>3, <1>4, <3>1, <2>1
    <2> QED
      BY <1>4, <2>1
  <1>6. g = [k \in 0 .. n |-> IF k = 0 THEN 1 ELSE base * g[k - 1]]
    BY <1>5
  <1> DEFINE f == CHOOSE f : f = [k \in 0 .. n |-> IF k = 0 THEN 1 ELSE base * f[k - 1]]
  <1>7. f = [k \in 0 .. n |-> IF k = 0 THEN 1 ELSE base * f[k - 1]]
    BY <1>6, Zenon
  <1>8. Power(base, n) = f[n]
    BY Zenon DEF Power
  <1> HIDE DEF f
  <1>9. f[0] = 1 /\ \A k \in 1 .. n : f[k] = base * f[k - 1]
    BY <1>7
  <1> QED
    BY <1>8, <1>9

\* Power is the power.
LEMMA PowerFacts ==
  ASSUME NEW base \in Nat, NEW n \in Nat
  PROVE  /\ Power(base, 0) = 1
         /\ Power(base, n + 1) = base * Power(base, n)
  <1>1. Power(base, 0) = 1
    BY PowerFunction
  <1>2. PICK f : /\ Power(base, n + 1) = f[n + 1]
                 /\ f[0] = 1 /\ \A k \in 1 .. (n + 1) : f[k] = base * f[k - 1]
    <2>1. n + 1 \in Nat
      OBVIOUS
    <2> QED
      BY <2>1, PowerFunction
  <1>3. PICK g : /\ Power(base, n) = g[n]
                 /\ g[0] = 1 /\ \A k \in 1 .. n : g[k] = base * g[k - 1]
    BY PowerFunction
  <1> DEFINE T == {k \in Nat : k <= n => f[k] = g[k]}
  <1>4. 0 \in T
    BY <1>2, <1>3
  <1>5. ASSUME NEW k \in Nat, k \in T PROVE k + 1 \in T
    <2> SUFFICES ASSUME k + 1 <= n PROVE f[k + 1] = g[k + 1]
      OBVIOUS
    <2>1. f[k] = g[k] /\ k + 1 \in 1 .. n /\ k + 1 \in 1 .. (n + 1) /\ (k + 1) - 1 = k
      BY <1>5
    <2> QED
      BY <1>2, <1>3, <2>1
  <1> HIDE DEF T
  <1>6. n \in T
    BY <1>4, <1>5, Induction
  <1>7. f[n] = g[n]
    BY <1>6 DEF T
  <1>8. f[n + 1] = base * f[n]
    <2>1. n + 1 \in 1 .. (n + 1) /\ (n + 1) - 1 = n
      OBVIOUS
    <2> QED
      BY <1>2, <2>1
  <1> QED
    BY <1>1, <1>2, <1>3, <1>7, <1>8

\* A power of a positive number is positive.
LEMMA PowerPositive ==
  ASSUME NEW base \in Nat \ {0}
  PROVE  \A n \in Nat : Power(base, n) \in Nat \ {0}
  <1> DEFINE T == {n \in Nat : Power(base, n) \in Nat \ {0}}
  <1>1. 0 \in T
    BY PowerFacts
  <1>2. ASSUME NEW n \in Nat, n \in T PROVE n + 1 \in T
    <2>1. Power(base, n + 1) = base * Power(base, n)
      BY PowerFacts
    <2>2. base * Power(base, n) \in Nat \ {0}
      BY <1>2
    <2> QED
      BY <2>1, <2>2
  <1> HIDE DEF T
  <1>3. Nat \subseteq T
    BY <1>1, <1>2, Induction
  <1> QED
    BY <1>3 DEF T

\* A power grows with its exponent, and with its base.
LEMMA PowerGrows ==
  ASSUME NEW base \in Nat, base > 1
  PROVE  /\ \A m, n \in Nat : m <= n => Power(base, m) <= Power(base, n)
         /\ \A n \in Nat : Power(2, n) <= Power(base, n)
  <1> DEFINE S == {d \in Nat : \A m \in Nat : Power(base, m) <= Power(base, m + d)}
             T == {n \in Nat : Power(2, n) <= Power(base, n)}
  <1>1. \A n \in Nat : /\ Power(base, n) \in Nat \ {0} /\ Power(2, n) \in Nat \ {0}
                       /\ Power(base, n + 1) = base * Power(base, n)
                       /\ Power(2, n + 1) = 2 * Power(2, n)
    <2>1. base \in Nat \ {0} /\ 2 \in Nat \ {0} /\ 2 \in Nat
      OBVIOUS
    <2>2. \A n \in Nat : Power(base, n) \in Nat \ {0} /\ Power(2, n) \in Nat \ {0}
      BY <2>1, PowerPositive
    <2>3. \A n \in Nat : Power(base, n + 1) = base * Power(base, n)
      BY <2>1, PowerFacts
    <2>4. \A n \in Nat : Power(2, n + 1) = 2 * Power(2, n)
      BY <2>1, PowerFacts
    <2> QED
      BY <2>2, <2>3, <2>4
  <1>2. \A a \in Nat : base * a >= 2 * a /\ base * a >= a
    OBVIOUS
  <1>3. Nat \subseteq S
    <2>1. 0 \in S
      BY <1>1
    <2>2. ASSUME NEW d \in Nat, d \in S PROVE d + 1 \in S
      <3> SUFFICES ASSUME NEW m \in Nat PROVE Power(base, m) <= Power(base, m + (d + 1))
        OBVIOUS
      <3>1. Power(base, m) <= Power(base, m + d) /\ m + d \in Nat /\ m + (d + 1) = (m + d) + 1
        BY <2>2
      <3>2. Power(base, (m + d) + 1) >= Power(base, m + d)
        BY <3>1, <1>1, <1>2
      <3>3. Power(base, m) \in Nat /\ Power(base, m + d) \in Nat /\ Power(base, (m + d) + 1) \in Nat
        BY <3>1, <1>1
      <3> QED
        BY <3>1, <3>2, <3>3
    <2> HIDE DEF S
    <2> QED
      BY <2>1, <2>2, Induction
  <1>4. Nat \subseteq T
    <2>1. 0 \in T
      BY PowerFacts
    <2>2. ASSUME NEW n \in Nat, n \in T PROVE n + 1 \in T
      <3>1. PICK a, b, c, d : /\ a = Power(2, n) /\ b = Power(base, n)
                              /\ c = Power(2, n + 1) /\ d = Power(base, n + 1)
        OBVIOUS
      <3>2. a \in Nat /\ b \in Nat /\ c = 2 * a /\ d = base * b /\ a <= b
        BY <2>2, <3>1, <1>1
      <3>3. d >= 2 * b
        BY <3>2, <1>2
      <3>4. c <= d
        BY <3>2, <3>3
      <3> QED
        BY <3>1, <3>4
    <2> HIDE DEF T
    <2> QED
      BY <2>1, <2>2, Induction
  <1>5. ASSUME NEW m \in Nat, NEW n \in Nat, m <= n PROVE Power(base, m) <= Power(base, n)
    <2>1. n - m \in Nat /\ m + (n - m) = n
      BY <1>5
    <2> QED
      BY <2>1, <1>3
  <1> QED
    BY <1>4, <1>5

\* So do those of a greater base.
LEMMA PowerBase ==
  ASSUME NEW a \in Nat, NEW b \in Nat, 0 < a, a <= b
  PROVE  \A n \in Nat : Power(a, n) <= Power(b, n)
  <1> DEFINE T == {n \in Nat : Power(a, n) <= Power(b, n)}
  <1>1. 0 \in T
    BY PowerFacts
  <1>2. ASSUME NEW n \in Nat, n \in T PROVE n + 1 \in T
    <2>1. PICK x, y : x = Power(a, n) /\ y = Power(b, n)
      OBVIOUS
    <2>2. x \in Nat /\ y \in Nat /\ x <= y
      <3>1. a \in Nat \ {0} /\ b \in Nat \ {0}
        OBVIOUS
      <3>2. Power(a, n) \in Nat \ {0} /\ Power(b, n) \in Nat \ {0}
        BY <3>1, PowerPositive
      <3> QED
        BY <1>2, <2>1, <3>2
    <2>3. Power(a, n + 1) = a * x /\ Power(b, n + 1) = b * y
      BY <2>1, PowerFacts
    <2>4. a * x <= a * y
      <3>1. PICK d \in Nat : y = x + d
        <4>1. y - x \in Nat /\ y = x + (y - x)
          BY <2>2
        <4> QED
          BY <4>1
      <3>2. a * y = a * x + a * d /\ a * d \in Nat /\ a * x \in Nat
        BY <2>2, <3>1
      <3> QED
        BY <3>2
    <2>5. a * y <= b * y
      <3>1. PICK d \in Nat : b = a + d
        <4>1. b - a \in Nat /\ b = a + (b - a)
          OBVIOUS
        <4> QED
          BY <4>1
      <3>2. b * y = a * y + d * y /\ d * y \in Nat /\ a * y \in Nat
        BY <2>2, <3>1
      <3> QED
        BY <3>2
    <2>6. a * x \in Nat /\ a * y \in Nat /\ b * y \in Nat
      BY <2>2
    <2> QED
      BY <2>3, <2>4, <2>5, <2>6
  <1> HIDE DEF T
  <1>3. Nat \subseteq T
    BY <1>1, <1>2, Induction
  <1> QED
    BY <1>3 DEF T

-----------------------------------------------------------------------------
(***************************************************************************)
(* The division.                                                           *)
(***************************************************************************)
\* A number without its last bit but one more, and that bit.
LEMMA NextBit ==
  ASSUME NEW N \in Nat, NEW p \in Nat \ {0}
  PROVE  /\ N \div p \in Nat /\ N \div (2 * p) \in Nat /\ (N \div p) % 2 \in 0 .. 1
         /\ N \div p <= N
         /\ N \div p = 2 * (N \div (2 * p)) + ((N \div p) % 2)
  <1>1. PICK u, r, w, b : u = N \div p /\ r = N % p /\ w = u \div 2 /\ b = u % 2
    OBVIOUS
  <1>2. u \in Nat /\ r \in 0 .. (p - 1) /\ N = u * p + r
    BY <1>1
  <1>3. w \in Nat /\ b \in 0 .. 1 /\ u = 2 * w + b
    BY <1>1, <1>2
  <1>4. PICK n, m : n = 2 * p /\ m = b * p + r
    OBVIOUS
  <1>5. n \in Nat \ {0} /\ m \in 0 .. (n - 1)
    <2>1. CASE b = 0
      BY <2>1, <1>2, <1>4
    <2>2. CASE b = 1
      BY <2>2, <1>2, <1>4
    <2> QED
      BY <2>1, <2>2, <1>3
  <1>6. N = w * n + m
    <2>1. w * n = (2 * w) * p
      BY <1>3, <1>4
    <2>2. u * p = (2 * w) * p + b * p
      BY <1>3
    <2>3. (2 * w) * p \in Nat /\ b * p \in Nat
      BY <1>3
    <2> QED
      BY <2>1, <2>2, <2>3, <1>2, <1>4
  <1>7. N \div n = w
    BY <1>3, <1>5, <1>6, EntryFacts
  <1>8. u <= N
    <2>1. u * p >= u
      BY <1>2
    <2>2. u * p \in Nat
      BY <1>2
    <2> QED
      BY <2>1, <2>2, <1>2
  <1> QED
    BY <1>1, <1>2, <1>3, <1>4, <1>7, <1>8

\* Quotient and remainder, as the provers know them.
LEMMA DivisionFacts ==
  ASSUME NEW a \in Nat, NEW n \in Nat \ {0}
  PROVE  a \div n \in Nat /\ a % n \in 0 .. (n - 1) /\ a = (a \div n) * n + (a % n)
  OBVIOUS

\* With one more bit, quotient and remainder double; the divisor goes once
\* more into what is left, or not at all.
Doubles(v, b, D, q, r, R) ==
  /\ q \in Nat /\ r \in Nat /\ R \in Nat /\ R <= 2 * v + b
  /\ R >= D => (2 * v + b) \div D = 2 * q + 1 /\ (2 * v + b) % D = R - D
  /\ R < D => (2 * v + b) \div D = 2 * q /\ (2 * v + b) % D = R

\* One more bit below a number doubles its quotient and remainder.
LEMMA DivisionDoubles ==
  ASSUME NEW v, NEW b, NEW D, NEW q, NEW r, NEW R,
         v \in Nat, b \in 0 .. 1, D \in Nat \ {0},
         q = v \div D, r = v % D, R = 2 * r + b
  PROVE  Doubles(v, b, D, q, r, R)
  <1>1. q \in Nat /\ r \in 0 .. (D - 1) /\ v = q * D + r
    BY DivisionFacts
  <1>2. PICK m : m = q * D
    OBVIOUS
  <1>3. m \in Nat /\ v = m + r /\ (2 * q) * D = 2 * m /\ (2 * q + 1) * D = 2 * m + D
    BY <1>1, <1>2
  <1>4. R \in Nat /\ R <= 2 * v + b /\ R <= 2 * D - 1
    BY <1>1, <1>3
  <1>5. PICK u : u = 2 * v + b
    OBVIOUS
  <1>6. ASSUME R >= D PROVE (2 * v + b) \div D = 2 * q + 1 /\ (2 * v + b) % D = R - D
    <2>1. PICK n, rest : n = 2 * q + 1 /\ rest = R - D
      OBVIOUS
    <2>2. n \in Nat /\ rest \in 0 .. (D - 1) /\ u = n * D + rest
      BY <1>1, <1>3, <1>4, <1>5, <1>6, <2>1
    <2>3. u \div D = n /\ u % D = rest
      BY <2>2, EntryFacts
    <2> QED
      BY <1>1, <1>4, <1>5, <1>6, <2>1, <2>3
  <1>7. ASSUME R < D PROVE (2 * v + b) \div D = 2 * q /\ (2 * v + b) % D = R
    <2>1. PICK n, rest : n = 2 * q /\ rest = R
      OBVIOUS
    <2>2. n \in Nat /\ rest \in 0 .. (D - 1) /\ u = n * D + rest
      BY <1>1, <1>3, <1>4, <1>5, <1>7, <2>1
    <2>3. u \div D = n /\ u % D = rest
      BY <2>2, EntryFacts
    <2> QED
      BY <1>1, <1>4, <1>5, <1>7, <2>1, <2>3
  <1> QED
    BY <1>1, <1>4, <1>6, <1>7 DEF Doubles

\* The bits of N from bit i on, divided.
Divided(N, D, i) ==
  LET p == Power(2, i)
  IN  [quotient |-> ((N \div p) \div D) * p, remainder |-> (N \div p) % D]

\* An iteration divides one more bit, and nothing is lost by the shift.
LEMMA DivisionStep ==
  ASSUME NEW N \in Nat, NEW D \in Nat \ {0}, NEW i \in Nat, N < Power(2, MAXBITS)
  PROVE  Step(Divided(N, D, i + 1), N, D, i) = Divided(N, D, i)
  <1>a. PICK p, v : p = Power(2, i) /\ v = N \div (2 * p)
    OBVIOUS
  <1>b. p \in Nat \ {0} /\ Power(2, i + 1) = 2 * p
    BY <1>a, PowerPositive, PowerFacts
  <1>c. PICK before : before = Divided(N, D, i + 1)
    OBVIOUS
  <1>d. before = [quotient |-> (v \div D) * (2 * p), remainder |-> v % D]
    BY <1>a, <1>b, <1>c, Zenon DEF Divided
  <1>1. PICK u, b, q, r, R : u = N \div p /\ b = u % 2 /\ q = v \div D /\ r = v % D /\ R = 2 * r + b
    OBVIOUS
  <1>2. u \in Nat /\ v \in Nat /\ b \in 0 .. 1 /\ u <= N /\ u = 2 * v + b
    BY <1>1, <1>a, <1>b, NextBit
  <1>3. /\ q \in Nat /\ r \in Nat /\ R \in Nat /\ R <= 2 * v + b
        /\ R >= D => (2 * v + b) \div D = 2 * q + 1 /\ (2 * v + b) % D = R - D
        /\ R < D => (2 * v + b) \div D = 2 * q /\ (2 * v + b) % D = R
    <2>1. Doubles(v, b, D, q, r, R)
      BY <1>1, <1>2, DivisionDoubles, Zenon
    <2> QED
      BY <2>1 DEF Doubles
  <1>4. (before.remainder * 2 + ((N \div p) % 2)) % Power(2, MAXBITS) = R
    <2>1. PICK M : M = Power(2, MAXBITS)
      OBVIOUS
    <2>2. M \in Nat \ {0}
      BY <2>1, PowerPositive, ArithmeticAssumption
    <2>3. R < M
      BY <1>2, <1>3, <2>1, <2>2
    <2>4. before.remainder * 2 + ((N \div p) % 2) = R
      <3>1. before.remainder = r
        BY <1>1, <1>d
      <3> QED
        BY <1>1, <1>2, <1>3, <3>1
    <2>5. R % M = R
      BY <2>2, <2>3, <1>3
    <2> QED
      BY <2>1, <2>4, <2>5
  <1>5. before.quotient = q * (2 * p)
    BY <1>1, <1>d
  <1>6. Step(before, N, D, i) =
            IF R >= D THEN [quotient |-> before.quotient + p, remainder |-> R - D]
                                ELSE [quotient |-> before.quotient, remainder |-> R]
    BY <1>4, <1>a, Zenon DEF Step, Fits
  <1>7. q * (2 * p) = (2 * q) * p /\ q * (2 * p) + p = (2 * q + 1) * p
    BY <1>3, <1>b
  <1> DEFINE after == [quotient |-> ((N \div p) \div D) * p, remainder |-> (N \div p) % D]
  <1>8. ASSUME R >= D PROVE Step(before, N, D, i) = after
    <2>1. u \div D = 2 * q + 1 /\ u % D = R - D
      BY <1>2, <1>3, <1>8
    <2> QED
      BY <2>1, <1>1, <1>5, <1>6, <1>7, <1>8
  <1>9. ASSUME ~(R >= D) PROVE Step(before, N, D, i) = after
    <2>1. u \div D = 2 * q /\ u % D = R
      BY <1>2, <1>3, <1>9
    <2> QED
      BY <2>1, <1>1, <1>5, <1>6, <1>7, <1>9
  <1>10. Step(before, N, D, i) = after
    BY <1>8, <1>9, Zenon
  <1> QED
    BY <1>10, <1>a, <1>c, Zenon DEF Divided

\* The function under the division.
LEMMA DivisionFunction ==
  ASSUME NEW N \in Nat, NEW D \in Nat \ {0}
  PROVE  \E f : /\ unsigned_division64(N, D) = f[MAXBITS]
                /\ f[0] = [quotient |-> 0, remainder |-> 0]
                /\ \A k \in 1 .. MAXBITS : f[k] = Step(f[k - 1], N, D, MAXBITS - k)
  <1> DEFINE start == [quotient |-> 0, remainder |-> 0]
  <1>1. PICK S : S = [quotient : Nat, remainder : Nat]
    OBVIOUS
  <1>2. PICK F : F = [k \in 1 .. MAXBITS |-> [s \in S |-> Step(s, N, D, MAXBITS - k)]]
    OBVIOUS
  <1>3. ASSUME NEW k \in 1 .. MAXBITS, NEW s \in S
        PROVE  F[k][s] = Step(s, N, D, MAXBITS - k) /\ F[k][s] \in S
    <2>1. F[k][s] = Step(s, N, D, MAXBITS - k)
      BY <1>2
    <2>2. PICK p, M, bit : /\ p = Power(2, MAXBITS - k) /\ M = Power(2, MAXBITS)
                           /\ bit = (N \div p) % 2
      OBVIOUS
    <2>3. p \in Nat \ {0} /\ M \in Nat \ {0}
      <3>1. MAXBITS - k \in Nat /\ MAXBITS \in Nat
        BY ArithmeticAssumption
      <3> QED
        BY <3>1, <2>2, PowerPositive
    <2>4. bit \in 0 .. 1
      BY <2>2, <2>3, NextBit
    <2>5. s.quotient \in Nat /\ s.remainder \in Nat
      BY <1>1
    <2>6. PICK R : R = (s.remainder * 2 + bit) % M
      OBVIOUS
    <2>7. R \in Nat
      BY <2>3, <2>4, <2>5, <2>6
    <2>8. Step(s, N, D, MAXBITS - k) =
              IF R >= D THEN [quotient |-> s.quotient + p, remainder |-> R - D]
                                       ELSE [quotient |-> s.quotient, remainder |-> R]
      BY <2>2, <2>6, Zenon DEF Step, Fits
    <2> QED
      BY <1>1, <2>1, <2>3, <2>5, <2>7, <2>8
  <1>4. PICK g \in [0 .. MAXBITS -> S] :
          g[0] = start /\ \A k \in 1 .. MAXBITS : g[k] = F[k][g[k - 1]]
    <2>1. PICK first \in S : first = start
      BY <1>1
    <2>2. \A k \in 1 .. MAXBITS : \A s \in S : F[k][s] \in S
      BY <1>3
    <2>3. \E g : Iterates(g, MAXBITS, S, first, F)
      BY <2>2, Iterated, ArithmeticAssumption
    <2> QED
      BY <2>1, <2>3 DEF Iterates
  <1>5. ASSUME NEW k \in 0 .. MAXBITS
        PROVE  g[k] = IF k = 0 THEN start ELSE Step(g[k - 1], N, D, MAXBITS - k)
    <2>1. CASE k # 0
      <3>1. k \in 1 .. MAXBITS /\ k - 1 \in 0 .. MAXBITS
        BY <2>1, ArithmeticAssumption
      <3>2. g[k - 1] \in S
        BY <3>1
      <3>3. g[k] = F[k][g[k - 1]]
        BY <1>4, <3>1
      <3> QED
        BY <1>3, <3>1, <3>2, <3>3, <2>1
    <2> QED
      BY <1>4, <2>1
  <1>6. g = [k \in 0 .. MAXBITS |-> IF k = 0 THEN start ELSE Step(g[k - 1], N, D, MAXBITS - k)]
    <2> HIDE DEF start
    <2> QED
      BY <1>5
  <1> DEFINE f == CHOOSE f : f = [k \in 0 .. MAXBITS |-> IF k = 0 THEN start
                                                         ELSE Step(f[k - 1], N, D, MAXBITS - k)]
  <1>7. f = [k \in 0 .. MAXBITS |-> IF k = 0 THEN start ELSE Step(f[k - 1], N, D, MAXBITS - k)]
    BY <1>6, Zenon
  <1>8. unsigned_division64(N, D) = f[MAXBITS]
    BY Zenon DEF unsigned_division64
  <1> HIDE DEF f
  <1>9. f[0] = start /\ \A k \in 1 .. MAXBITS : f[k] = Step(f[k - 1], N, D, MAXBITS - k)
    <2>1. \A k \in 0 .. MAXBITS : f[k] = IF k = 0 THEN start ELSE Step(f[k - 1], N, D, MAXBITS - k)
      BY <1>7, Zenon
    <2>2. 0 \in 0 .. MAXBITS /\ \A k \in 1 .. MAXBITS : k \in 0 .. MAXBITS /\ k # 0
      BY ArithmeticAssumption
    <2> QED
      BY <2>1, <2>2, Zenon
  <1> QED
    BY <1>8, <1>9

\* unsigned_division64 gives quotient and remainder, for every dividend of
\* MAXBITS bits and every divisor.
THEOREM DivisionExact ==
  ASSUME NEW N \in 0 .. (Power(2, MAXBITS) - 1), NEW D \in Nat \ {0}
  PROVE  unsigned_division64(N, D) = [quotient |-> N \div D, remainder |-> N % D]
  <1>1. MAXBITS \in Nat /\ N \in Nat /\ N < Power(2, MAXBITS)
    BY PowerPositive, ArithmeticAssumption
  <1>2. PICK f : /\ unsigned_division64(N, D) = f[MAXBITS]
                 /\ f[0] = [quotient |-> 0, remainder |-> 0]
                 /\ \A k \in 1 .. MAXBITS : f[k] = Step(f[k - 1], N, D, MAXBITS - k)
    BY <1>1, DivisionFunction
  <1> DEFINE T == {k \in Nat : k <= MAXBITS => f[k] = Divided(N, D, MAXBITS - k)}
  <1>3. 0 \in T
    <2>1. PICK M : M = Power(2, MAXBITS)
      OBVIOUS
    <2>2. M \in Nat \ {0} /\ N \div M = 0
      <3>1. M \in Nat \ {0} /\ N < M
        BY <1>1, <2>1, PowerPositive
      <3> QED
        BY <3>1, <1>1
    <2>3. 0 \div D = 0 /\ 0 % D = 0 /\ 0 * M = 0
      BY <2>2
    <2>4. Divided(N, D, MAXBITS) = [quotient |-> 0, remainder |-> 0]
      BY <2>1, <2>2, <2>3 DEF Divided
    <2>5. MAXBITS - 0 = MAXBITS
      BY <1>1
    <2> QED
      BY <1>2, <2>4, <2>5
  <1>4. ASSUME NEW k \in Nat, k \in T PROVE k + 1 \in T
    <2> SUFFICES ASSUME k + 1 <= MAXBITS PROVE f[k + 1] = Divided(N, D, MAXBITS - (k + 1))
      OBVIOUS
    <2>1. PICK i \in Nat : i = MAXBITS - (k + 1)
      BY <1>1
    <2>2. i + 1 = MAXBITS - k /\ k <= MAXBITS /\ k + 1 \in 1 .. MAXBITS /\ (k + 1) - 1 = k
      BY <1>1, <2>1
    <2>3. f[k] = Divided(N, D, i + 1)
      BY <1>4, <2>2
    <2>4. f[k + 1] = Step(f[k], N, D, i)
      BY <1>2, <2>1, <2>2
    <2>5. Step(Divided(N, D, i + 1), N, D, i) = Divided(N, D, i)
      BY <1>1, DivisionStep
    <2> QED
      BY <2>1, <2>3, <2>4, <2>5
  <1> HIDE DEF T
  <1>5. MAXBITS \in T
    BY <1>1, <1>3, <1>4, Induction
  <1>6. f[MAXBITS] = Divided(N, D, 0)
    <2>1. MAXBITS - MAXBITS = 0
      BY <1>1
    <2> QED
      BY <1>5, <1>1, <2>1 DEF T
  <1>7. Power(2, 0) = 1
    BY PowerFacts
  <1>8. N \div 1 = N /\ (N \div D) * 1 = N \div D
    BY <1>1
  <1> QED
    BY <1>2, <1>6, <1>7, <1>8 DEF Divided

-----------------------------------------------------------------------------
(***************************************************************************)
(* Sequences.                                                              *)
(***************************************************************************)
LEMMA SequenceOf ==
  ASSUME NEW S, NEW n \in Nat, NEW f \in [1 .. n -> S]
  PROVE  f \in Seq(S) /\ Len(f) = n
  OBVIOUS

\* What Append makes.
LEMMA AppendFacts ==
  ASSUME NEW S, NEW s \in Seq(S), NEW x \in S
  PROVE  /\ Append(s, x) \in Seq(S) /\ Len(Append(s, x)) = Len(s) + 1
         /\ Append(s, x)[Len(s) + 1] = x
         /\ \A k \in 1 .. Len(s) : Append(s, x)[k] = s[k]
         /\ Append(s, x) = s \o <<x>>
  OBVIOUS

LEMMA AppendOne ==
  ASSUME NEW S, NEW x \in S
  PROVE  <<>> \in Seq(S) /\ <<x>> \in Seq(S) /\ Append(<<>>, x) = <<x>>
  OBVIOUS

LEMMA AppendTwo ==
  ASSUME NEW S, NEW x \in S, NEW y \in S
  PROVE  <<x, y>> \in Seq(S) /\ Append(<<x>>, y) = <<x, y>>
  <1>1. PICK s \in Seq(S) : s = <<x>>
    <2>1. <<x>> \in Seq(S)
      OBVIOUS
    <2> QED
      BY <2>1, Zenon
  <1>2. s \in Seq(S) /\ Len(s) = 1 /\ s[1] = x
    BY <1>1
  <1>3. PICK t : t = Append(s, y)
    OBVIOUS
  <1>4. t \in Seq(S) /\ Len(t) = Len(s) + 1 /\ t[Len(s) + 1] = y
            /\ \A k \in 1 .. Len(s) : t[k] = s[k]
    <2>1. /\ Append(s, y) \in Seq(S) /\ Len(Append(s, y)) = Len(s) + 1
          /\ Append(s, y)[Len(s) + 1] = y
          /\ \A k \in 1 .. Len(s) : Append(s, y)[k] = s[k]
      OBVIOUS
    <2> QED
      BY <2>1, <1>3, Zenon
  <1>5. Len(t) = 2 /\ t[2] = y /\ t[1] = x
    BY <1>2, <1>4
  <1>6. PICK u : u = <<x, y>>
    OBVIOUS
  <1>7. u \in Seq(S) /\ Len(u) = 2 /\ u[1] = x /\ u[2] = y
    BY <1>6
  <1>8. t = u
    BY <1>4, <1>5, <1>7
  <1> QED
    BY <1>1, <1>3, <1>4, <1>6, <1>8, Zenon

\* A sequence that is longer by x.
LEMMA AppendUnique ==
  ASSUME NEW S, NEW s \in Seq(S), NEW t \in Seq(S), NEW x \in S,
         Len(t) = Len(s) + 1, t[Len(s) + 1] = x, \A k \in 1 .. Len(s) : t[k] = s[k]
  PROVE  t = Append(s, x)
  OBVIOUS

\* x goes behind t, and so behind s \o t.
Extends(s, t, x) == Append(s \o t, x) = s \o Append(t, x)

\* Append and concatenation associate.
LEMMA AppendConcat ==
  ASSUME NEW S, NEW s \in Seq(S), NEW t \in Seq(S), NEW x \in S
  PROVE  Extends(s, t, x)
  BY DEF Extends

\* w is s and then t.
Concatenation(w, s, t, S) ==
  /\ w \in Seq(S) /\ Len(w) = Len(s) + Len(t)
  /\ \A k \in 1 .. Len(s) : w[k] = s[k]
  /\ \A k \in 1 .. Len(t) : w[Len(s) + k] = t[k]

\* What concatenation makes.
LEMMA ConcatFacts ==
  ASSUME NEW S, NEW s \in Seq(S), NEW t \in Seq(S)
  PROVE  Concatenation(s \o t, s, t, S)
  BY DEF Concatenation

Regroups(a, b, c) == (a \o b) \o c = a \o (b \o c)

\* Concatenation associates.
LEMMA ConcatRegroups ==
  ASSUME NEW S, NEW s \in Seq(S), NEW t \in Seq(S), NEW u \in Seq(S)
  PROVE  Regroups(s, t, u)
  <1> SUFFICES (s \o t) \o u = s \o (t \o u)
    BY Zenon DEF Regroups
  <1> QED
    OBVIOUS

\* What Reverse makes.
LEMMA ReverseFacts ==
  ASSUME NEW S, NEW s \in Seq(S)
  PROVE  /\ Reverse(s) \in Seq(S) /\ Len(Reverse(s)) = Len(s)
         /\ \A k \in 1 .. Len(s) : Reverse(s)[k] = s[(Len(s) - k) + 1]
  BY DEF Reverse

\* Sequences of the same length and elements are the same.
LEMMA SequencesEqual ==
  ASSUME NEW S, NEW s \in Seq(S), NEW t \in Seq(S), Len(s) = Len(t),
         \A k \in 1 .. Len(s) : s[k] = t[k]
  PROVE  s = t
  OBVIOUS

\* Reversing a concatenation swaps its parts.
LEMMA ReverseConcat ==
  ASSUME NEW S, NEW s \in Seq(S), NEW t \in Seq(S)
  PROVE  Reverse(s \o t) = Reverse(t) \o Reverse(s)
  <1>1. PICK m \in Nat, n \in Nat : m = Len(s) /\ n = Len(t)
    OBVIOUS
  <1>2. PICK r, q : r = Reverse(s) /\ q = Reverse(t)
    OBVIOUS
  <1>3. PICK u, v, w : u = s \o t /\ v = Reverse(u) /\ w = q \o r
    OBVIOUS
  <1>4. /\ r \in Seq(S) /\ Len(r) = m /\ \A k \in 1 .. m : r[k] = s[(m - k) + 1]
        /\ q \in Seq(S) /\ Len(q) = n /\ \A k \in 1 .. n : q[k] = t[(n - k) + 1]
    <2>1. Reverse(s) \in Seq(S) /\ Len(Reverse(s)) = Len(s)
          /\ \A k \in 1 .. Len(s) : Reverse(s)[k] = s[(Len(s) - k) + 1]
      BY ReverseFacts
    <2>2. Reverse(t) \in Seq(S) /\ Len(Reverse(t)) = Len(t)
          /\ \A k \in 1 .. Len(t) : Reverse(t)[k] = t[(Len(t) - k) + 1]
      BY ReverseFacts
    <2> QED
      BY <2>1, <2>2, <1>1, <1>2, Zenon
  <1>5. /\ u \in Seq(S) /\ Len(u) = m + n
        /\ \A k \in 1 .. m : u[k] = s[k]
        /\ \A k \in 1 .. n : u[m + k] = t[k]
    <2>1. Concatenation(u, s, t, S)
      BY <1>3, ConcatFacts, Zenon
    <2> QED
      BY <2>1, <1>1, Zenon DEF Concatenation
  <1>6. /\ w \in Seq(S) /\ Len(w) = n + m
        /\ \A k \in 1 .. n : w[k] = q[k]
        /\ \A k \in 1 .. m : w[n + k] = r[k]
    <2>1. Concatenation(w, q, r, S)
      BY <1>3, <1>4, ConcatFacts, Zenon
    <2> QED
      BY <2>1, <1>4, Zenon DEF Concatenation
  <1>7. v \in Seq(S) /\ Len(v) = m + n /\ \A k \in 1 .. (m + n) : v[k] = u[((m + n) - k) + 1]
    <2>1. Reverse(u) \in Seq(S) /\ Len(Reverse(u)) = Len(u)
          /\ \A k \in 1 .. Len(u) : Reverse(u)[k] = u[(Len(u) - k) + 1]
      BY <1>5, ReverseFacts, Zenon
    <2> QED
      BY <2>1, <1>3, <1>5, Zenon
  <1>8. ASSUME NEW k \in 1 .. (m + n) PROVE v[k] = w[k]
    <2>1. v[k] = u[((m + n) - k) + 1]
      BY <1>7
    <2>2. CASE k <= n
      <3>1. PICK j \in 1 .. n : j = (n - k) + 1
        BY <2>2
      <3>2. ((m + n) - k) + 1 = m + j /\ k \in 1 .. n
        BY <3>1, <2>2
      <3>3. u[m + j] = t[j]
        BY <1>5
      <3>4. q[k] = t[j]
        BY <1>4, <3>1, <3>2, Zenon
      <3>5. w[k] = q[k]
        BY <1>6, <3>2
      <3> QED
        BY <2>1, <3>2, <3>3, <3>4, <3>5, Zenon
    <2>3. CASE k > n
      <3>1. PICK i \in 1 .. m : k = n + i
        <4>1. k - n \in 1 .. m /\ k = n + (k - n)
          BY <2>3
        <4> QED
          BY <4>1
      <3>2. PICK j \in 1 .. m : j = (m - i) + 1 /\ ((m + n) - k) + 1 = j
        BY <3>1
      <3>3. u[j] = s[j]
        BY <1>5
      <3>4. r[i] = s[j]
        BY <1>4, <3>2, Zenon
      <3>5. w[n + i] = r[i]
        BY <1>6
      <3> QED
        BY <2>1, <3>1, <3>2, <3>3, <3>4, <3>5, Zenon
    <2> QED
      BY <2>2, <2>3
  <1>9. Len(v) = Len(w) /\ Len(v) = m + n
    BY <1>6, <1>7
  <1>10. v = w
    BY <1>6, <1>7, <1>8, <1>9, SequencesEqual, Zenon
  <1> QED
    BY <1>2, <1>3, <1>10, Zenon

LEMMA ConcatEmpty ==
  ASSUME NEW S, NEW s \in Seq(S)
  PROVE  s \o <<>> = s /\ <<>> \o s = s
  OBVIOUS

\* f adds up the sequences of ss.
Joins(f, ss, S) ==
  /\ f \in [0 .. Len(ss) -> Seq(S)]
  /\ f[0] = <<>>
  /\ \A k \in 1 .. Len(ss) : f[k] = f[k - 1] \o ss[k]

LEMMA ConcatType ==
  ASSUME NEW S, NEW s \in Seq(S), NEW t \in Seq(S)
  PROVE  s \o t \in Seq(S)
  OBVIOUS

LEMMA EmptyLength ==
  ASSUME NEW S, NEW s \in Seq(S), Len(s) = 0
  PROVE  s = <<>>
  OBVIOUS

\* There is such a function.
LEMMA JoinsExists ==
  ASSUME NEW S, NEW ss \in Seq(Seq(S))
  PROVE  \E f : Joins(f, ss, S)
  <1>1. PICK n : n = Len(ss)
    OBVIOUS
  <1>2. PICK Z : Z = Seq(S)
    OBVIOUS
  <1>3. n \in Nat
    BY <1>1
  <1>4. PICK F : F = [k \in 1 .. n |-> [s \in Z |-> s \o ss[k]]]
    OBVIOUS
  <1>5. ASSUME NEW k \in 1 .. n PROVE ss[k] \in Seq(S)
    BY <1>1
  <1>6. ASSUME NEW k \in 1 .. n, NEW s \in Z PROVE F[k][s] = s \o ss[k]
    <2> HIDE <1>2
    <2> QED
      BY <1>4, Zenon
  <1>7. ASSUME NEW k \in 1 .. n, NEW s \in Z PROVE F[k][s] \in Z
    <2>1. s \o ss[k] \in Seq(S)
      BY <1>2, <1>5, ConcatType
    <2> QED
      BY <1>2, <1>6, <2>1, Zenon
  <1>8. PICK nil \in Z : nil = <<>>
    <2>1. <<>> \in Seq(S)
      OBVIOUS
    <2> QED
      BY <1>2, <2>1, Zenon
  <1>9. PICK g : Iterates(g, n, Z, nil, F)
    BY <1>3, <1>7, Iterated
  <1>10. g \in [0 .. n -> Z] /\ g[0] = <<>>
    BY <1>8, <1>9, Zenon DEF Iterates
  <1>11. ASSUME NEW k \in 1 .. n PROVE g[k] = g[k - 1] \o ss[k]
    <2>1. k - 1 \in 0 .. n
      BY <1>3
    <2>2. g[k - 1] \in Z
      BY <1>10, <2>1, Zenon
    <2>3. g[k] = F[k][g[k - 1]]
      BY <1>9 DEF Iterates
    <2> QED
      BY <2>2, <2>3, <1>6, Zenon
  <1> QED
    BY <1>1, <1>2, <1>10, <1>11, Zenon DEF Joins

\* FlattenSeq is the last value of each of them.
LEMMA FlattenJoins ==
  ASSUME NEW S, NEW ss \in Seq(Seq(S)), NEW g, Joins(g, ss, S)
  PROVE  FlattenSeq(ss) = g[Len(ss)]
  <1>1. PICK n \in Nat : n = Len(ss)
    OBVIOUS
  <1>2. g \in [0 .. n -> Seq(S)] /\ g[0] = <<>>
    BY <1>1, Zenon DEF Joins
  <1>3. ASSUME NEW i \in 1 .. n PROVE ss[i] \in Seq(S)
    BY <1>1
  <1>4. CASE n = 0
    <2>1. ss = <<>>
      <3>1. Len(ss) = 0
        BY <1>1, <1>4, Zenon
      <3> QED
        BY <3>1, EmptyLength, Zenon
    <2>2. FlattenSeq(ss) = ss
      BY <1>1, <1>4, Zenon DEF FlattenSeq
    <2> QED
      BY <2>1, <2>2, <1>1, <1>2, <1>4
  <1>5. CASE n # 0
    <2>1. PICK h : h = [i \in 1 .. n |-> g[i]]
      OBVIOUS
    <2>2. ASSUME NEW i \in 1 .. n PROVE h[i] = IF i = 1 THEN ss[i] ELSE h[i - 1] \o ss[i]
      <3>1. g[i] = g[i - 1] \o ss[i]
        BY <1>1, Zenon DEF Joins
      <3>2. h[i] = g[i]
        BY <2>1, Zenon
      <3>3. CASE i = 1
        <4>1. g[i - 1] = <<>>
          BY <3>3, <1>2
        <4>2. <<>> \o ss[i] = ss[i]
          <5>1. ss[i] \in Seq(S)
            BY <1>3
          <5>2. PICK t \in Seq(S) : t = ss[i]
            BY <5>1
          <5>3. <<>> \o t = t
            OBVIOUS
          <5> QED
            BY <5>2, <5>3
        <4> QED
          BY <3>1, <3>2, <3>3, <4>1, <4>2, Zenon
      <3>4. CASE i # 1
        <4>1. i - 1 \in 1 .. n
          BY <3>4, <1>1
        <4>2. h[i - 1] = g[i - 1]
          BY <2>1, <4>1, Zenon
        <4> QED
          BY <3>1, <3>2, <3>4, <4>2, Zenon
      <3> QED
        BY <3>3, <3>4
    <2>3. h = [i \in 1 .. n |-> IF i = 1 THEN ss[i] ELSE h[i - 1] \o ss[i]]
      BY <2>1, <2>2, Zenon
    <2> DEFINE f == CHOOSE f :
                 f = [i \in 1 .. Len(ss) |-> IF i = 1 THEN ss[i] ELSE f[i - 1] \o ss[i]]
    <2>4. f = [i \in 1 .. Len(ss) |-> IF i = 1 THEN ss[i] ELSE f[i - 1] \o ss[i]]
      BY <2>3, <1>1, Zenon
    <2>5. FlattenSeq(ss) = f[n]
      BY <1>1, <1>5, Zenon DEF FlattenSeq
    <2> HIDE DEF f
    <2>6. \A i \in 1 .. n : f[i] = IF i = 1 THEN ss[i] ELSE f[i - 1] \o ss[i]
      BY <2>4, <1>1, Zenon
    <2> DEFINE T == {i \in Nat : i \in 1 .. n => f[i] = h[i]}
    <2>7. 0 \in T
      OBVIOUS
    <2>8. ASSUME NEW i \in Nat, i \in T PROVE i + 1 \in T
      <3> SUFFICES ASSUME i + 1 \in 1 .. n PROVE f[i + 1] = h[i + 1]
        OBVIOUS
      <3>1. CASE i = 0
        <4>1. i + 1 = 1
          BY <3>1
        <4> QED
          BY <4>1, <2>2, <2>6, Zenon
      <3>2. CASE i # 0
        <4>1. i \in 1 .. n /\ i + 1 # 1 /\ (i + 1) - 1 = i
          BY <3>2, <1>1
        <4>2. f[i] = h[i]
          BY <4>1, <2>8
        <4>3. f[i + 1] = f[i] \o ss[i + 1]
          <5>1. f[i + 1] = IF i + 1 = 1 THEN ss[i + 1] ELSE f[(i + 1) - 1] \o ss[i + 1]
            BY <2>6, Zenon
          <5> QED
            BY <4>1, <5>1, Zenon
        <4>4. h[i + 1] = h[i] \o ss[i + 1]
          <5>1. h[i + 1] = IF i + 1 = 1 THEN ss[i + 1] ELSE h[(i + 1) - 1] \o ss[i + 1]
            BY <2>2, Zenon
          <5> QED
            BY <4>1, <5>1, Zenon
        <4> QED
          BY <4>2, <4>3, <4>4, Zenon
      <3> QED
        BY <3>1, <3>2
    <2> HIDE DEF T
    <2>9. n \in T
      BY <2>7, <2>8, Induction
    <2>10. n \in 1 .. n
      BY <1>5
    <2>11. f[n] = h[n]
      BY <2>9, <2>10 DEF T
    <2>12. h[n] = g[n]
      BY <2>1, <2>10, Zenon
    <2> QED
      BY <2>5, <2>11, <2>12, <1>1, Zenon
  <1> QED
    BY <1>4, <1>5

\* Flattening goes on with the sequence that is appended.
LEMMA FlattenFacts ==
  ASSUME NEW S, NEW ss \in Seq(Seq(S)), NEW t \in Seq(S)
  PROVE  /\ FlattenSeq(<<>>) = <<>>
         /\ FlattenSeq(ss) \in Seq(S)
         /\ FlattenSeq(Append(ss, t)) = FlattenSeq(ss) \o t
  <1>1. FlattenSeq(<<>>) = <<>>
    BY DEF FlattenSeq
  <1>2. PICK n \in Nat : n = Len(ss)
    OBVIOUS
  <1>3. PICK Z : Z = Seq(S)
    OBVIOUS
  <1>4. PICK uu : uu = Append(ss, t)
    OBVIOUS
  <1>5. uu \in Seq(Z) /\ Len(uu) = n + 1 /\ uu[n + 1] = t
    BY <1>2, <1>3, <1>4
  <1>6. ASSUME NEW k \in 1 .. n PROVE uu[k] = ss[k]
    BY <1>2, <1>4
  <1>7. PICK f : Joins(f, uu, S)
    BY <1>3, <1>5, JoinsExists
  <1>8. f \in [0 .. (n + 1) -> Z] /\ f[0] = <<>>
    BY <1>3, <1>5, <1>7, Zenon DEF Joins
  <1>9. PICK g : g = [k \in 0 .. n |-> f[k]]
    OBVIOUS
  <1>10. Joins(g, ss, S)
    <2>1. g[0] = <<>> /\ g \in [0 .. n -> Z]
      BY <1>8, <1>9
    <2>2. ASSUME NEW k \in 1 .. n PROVE g[k] = g[k - 1] \o ss[k]
      <3>1. k \in 0 .. n /\ k - 1 \in 0 .. n /\ k \in 1 .. (n + 1)
        OBVIOUS
      <3>2. f[k] = f[k - 1] \o uu[k]
        BY <1>5, <1>7, <3>1, Zenon DEF Joins
      <3> QED
        BY <3>1, <3>2, <1>6, <1>9, Zenon
    <2> QED
      BY <2>1, <2>2, <1>2, <1>3, Zenon DEF Joins
  <1>11. FlattenSeq(ss) = g[n]
    BY <1>2, <1>10, FlattenJoins
  <1>12. FlattenSeq(uu) = f[n + 1]
    BY <1>3, <1>5, <1>7, FlattenJoins
  <1>13. f[n + 1] = f[n] \o t
    <2>1. n + 1 \in 1 .. (n + 1) /\ (n + 1) - 1 = n
      OBVIOUS
    <2> QED
      BY <2>1, <1>5, <1>7, Zenon DEF Joins
  <1>14. g[n] = f[n] /\ f[n] \in Z
    BY <1>8, <1>9
  <1> QED
    BY <1>1, <1>3, <1>4, <1>11, <1>12, <1>13, <1>14

\* What holds of <<>>, and goes on to s with one element more, holds of every
\* sequence.
LEMMA SequenceInduction ==
  ASSUME NEW S, NEW T, <<>> \in T, \A s \in Seq(S) : \A x \in S : s \in T => Append(s, x) \in T
  PROVE  Seq(S) \subseteq T
  <1> DEFINE U == {n \in Nat : \A s \in Seq(S) : Len(s) = n => s \in T}
  <1>1. 0 \in U
    BY EmptyLength
  <1>2. ASSUME NEW n \in Nat, n \in U PROVE n + 1 \in U
    <2> SUFFICES ASSUME NEW s \in Seq(S), Len(s) = n + 1 PROVE s \in T
      OBVIOUS
    <2>1. PICK f : f = [i \in 1 .. n |-> s[i]]
      OBVIOUS
    <2>2. f \in Seq(S) /\ Len(f) = n /\ s[n + 1] \in S
      BY <2>1
    <2>3. s = Append(f, s[n + 1])
      BY <2>1
    <2>4. f \in T
      BY <2>2, <1>2
    <2> QED
      BY <2>2, <2>3, <2>4
  <1> HIDE DEF U
  <1>3. Nat \subseteq U
    BY <1>1, <1>2, Induction
  <1> QED
    BY <1>3 DEF U

\* f filters char out of chars.
Filters(f, char, chars, S) ==
  /\ f \in [0 .. Len(chars) -> Seq(S)]
  /\ f[0] = <<>>
  /\ \A k \in 1 .. Len(chars) :
       f[k] = IF chars[k] = char THEN f[k - 1] ELSE Append(f[k - 1], chars[k])

\* The function under Without.
LEMMA WithoutFunction ==
  ASSUME NEW S, NEW char, NEW chars \in Seq(S)
  PROVE  \E f : Filters(f, char, chars, S) /\ Without(char, chars) = f[Len(chars)]
  <1>1. PICK n \in Nat : n = Len(chars)
    OBVIOUS
  <1>2. PICK Z : Z = Seq(S)
    OBVIOUS
  <1>3. ASSUME NEW k \in 1 .. n PROVE chars[k] \in S
    BY <1>1
  <1>4. PICK F : F = [k \in 1 .. n |->
                        [s \in Z |-> IF chars[k] = char THEN s ELSE Append(s, chars[k])]]
    OBVIOUS
  <1>5. ASSUME NEW k \in 1 .. n, NEW s \in Z
        PROVE  F[k][s] = IF chars[k] = char THEN s ELSE Append(s, chars[k])
    BY <1>4, Zenon
  <1>6. ASSUME NEW k \in 1 .. n, NEW s \in Z PROVE F[k][s] \in Z
    <2>1. Append(s, chars[k]) \in Z
      BY <1>2, <1>3
    <2> QED
      BY <1>5, <2>1
  <1>7. PICK nil \in Z : nil = <<>>
    <2>1. <<>> \in Seq(S)
      OBVIOUS
    <2> QED
      BY <1>2, <2>1, Zenon
  <1>8. PICK g : Iterates(g, n, Z, nil, F)
    BY <1>6, Iterated
  <1>9. g \in [0 .. n -> Z] /\ g[0] = <<>>
    BY <1>7, <1>8, Zenon DEF Iterates
  <1>10. ASSUME NEW k \in 1 .. n
         PROVE  g[k] = IF chars[k] = char THEN g[k - 1] ELSE Append(g[k - 1], chars[k])
    <2>1. k - 1 \in 0 .. n
      OBVIOUS
    <2>2. g[k - 1] \in Z
      BY <1>9, <2>1, Zenon
    <2>3. g[k] = F[k][g[k - 1]]
      BY <1>8 DEF Iterates
    <2> QED
      BY <2>2, <2>3, <1>5, Zenon
  <1>11. Filters(g, char, chars, S)
    BY <1>1, <1>2, <1>9, <1>10, Zenon DEF Filters
  <1>12. ASSUME NEW k \in 0 .. Len(chars)
         PROVE  g[k] = IF k = 0 THEN <<>>
                       ELSE IF chars[k] = char THEN g[k - 1] ELSE Append(g[k - 1], chars[k])
    <2>1. CASE k = 0
      BY <2>1, <1>9
    <2>2. CASE k # 0
      <3>1. k \in 1 .. n
        BY <1>1, <2>2
      <3> QED
        BY <3>1, <1>10, <2>2, Zenon
    <2> QED
      BY <2>1, <2>2
  <1>13. g = [k \in 0 .. Len(chars) |->
                IF k = 0 THEN <<>>
                ELSE IF chars[k] = char THEN g[k - 1] ELSE Append(g[k - 1], chars[k])]
    BY <1>1, <1>9, <1>12, Zenon
  <1> DEFINE f == CHOOSE f : f = [k \in 0 .. Len(chars) |->
                IF k = 0 THEN <<>>
                ELSE IF chars[k] = char THEN f[k - 1] ELSE Append(f[k - 1], chars[k])]
  <1>14. f = [k \in 0 .. Len(chars) |->
                IF k = 0 THEN <<>>
                ELSE IF chars[k] = char THEN f[k - 1] ELSE Append(f[k - 1], chars[k])]
    BY <1>13, Zenon
  <1>15. Without(char, chars) = f[n]
    BY <1>1, Zenon DEF Without
  <1> HIDE DEF f
  <1>16. \A k \in 0 .. n : f[k] = IF k = 0 THEN <<>>
                ELSE IF chars[k] = char THEN f[k - 1] ELSE Append(f[k - 1], chars[k])
    BY <1>1, <1>14, Zenon
  <1> DEFINE T == {k \in Nat : k <= n => f[k] = g[k]}
  <1>17. 0 \in T
    <2>1. 0 \in 0 .. n
      OBVIOUS
    <2> QED
      BY <2>1, <1>16, <1>9
  <1>18. ASSUME NEW k \in Nat, k \in T PROVE k + 1 \in T
    <2> SUFFICES ASSUME k + 1 <= n PROVE f[k + 1] = g[k + 1]
      OBVIOUS
    <2>1. k + 1 \in 1 .. n /\ k + 1 \in 0 .. n /\ k + 1 # 0 /\ (k + 1) - 1 = k /\ f[k] = g[k]
      BY <1>18
    <2>2. f[k + 1] = IF chars[k + 1] = char THEN f[k] ELSE Append(f[k], chars[k + 1])
      <3>1. f[k + 1] = IF k + 1 = 0 THEN <<>>
                ELSE IF chars[k + 1] = char THEN f[(k + 1) - 1]
                         ELSE Append(f[(k + 1) - 1], chars[k + 1])
        BY <2>1, <1>16, Zenon
      <3> QED
        BY <2>1, <3>1, Zenon
    <2>3. g[k + 1] = IF chars[k + 1] = char THEN g[k] ELSE Append(g[k], chars[k + 1])
      <3>1. g[k + 1] = IF chars[k + 1] = char THEN g[(k + 1) - 1]
                ELSE Append(g[(k + 1) - 1], chars[k + 1])
        BY <2>1, <1>10, Zenon
      <3> QED
        BY <2>1, <3>1, Zenon
    <2> QED
      BY <2>1, <2>2, <2>3, Zenon
  <1> HIDE DEF T
  <1>19. n \in T
    BY <1>17, <1>18, Induction
  <1>20. f[n] = g[n]
    BY <1>19 DEF T
  <1> QED
    BY <1>1, <1>11, <1>15, <1>20, Zenon

\* Functions that filter the same characters end in the same.
LEMMA FiltersAgree ==
  ASSUME NEW S, NEW char, NEW chars \in Seq(S), NEW more \in Seq(S), NEW f, NEW g,
         Filters(f, char, chars, S), Filters(g, char, more, S), Len(chars) <= Len(more),
         \A k \in 1 .. Len(chars) : more[k] = chars[k]
  PROVE  f[Len(chars)] = g[Len(chars)]
  <1>1. PICK n, m : n = Len(chars) /\ m = Len(more)
    OBVIOUS
  <1>2. n \in Nat /\ m \in Nat /\ n <= m
    BY <1>1
  <1> DEFINE T == {k \in Nat : k <= n => f[k] = g[k]}
  <1>3. 0 \in T
    BY DEF Filters
  <1>4. ASSUME NEW k \in Nat, k \in T PROVE k + 1 \in T
    <2> SUFFICES ASSUME k + 1 <= n PROVE f[k + 1] = g[k + 1]
      OBVIOUS
    <2>1. k + 1 \in 1 .. n /\ k + 1 \in 1 .. m /\ (k + 1) - 1 = k /\ f[k] = g[k]
      BY <1>2, <1>4
    <2>2. f[k + 1] = IF chars[k + 1] = char THEN f[k] ELSE Append(f[k], chars[k + 1])
      <3>1. f[k + 1] = IF chars[k + 1] = char THEN f[(k + 1) - 1]
                ELSE Append(f[(k + 1) - 1], chars[k + 1])
        BY <1>1, <2>1, Zenon DEF Filters
      <3> QED
        BY <2>1, <3>1, Zenon
    <2>3. g[k + 1] = IF more[k + 1] = char THEN g[k] ELSE Append(g[k], more[k + 1])
      <3>1. g[k + 1] = IF more[k + 1] = char THEN g[(k + 1) - 1]
                ELSE Append(g[(k + 1) - 1], more[k + 1])
        BY <1>1, <2>1, Zenon DEF Filters
      <3> QED
        BY <2>1, <3>1, Zenon
    <2>4. more[k + 1] = chars[k + 1]
      BY <1>1, <2>1, Zenon
    <2> QED
      BY <2>1, <2>2, <2>3, <2>4, Zenon
  <1> HIDE DEF T
  <1>5. n \in T
    BY <1>2, <1>3, <1>4, Induction
  <1> QED
    BY <1>1, <1>2, <1>5 DEF T

\* What Without leaves are elements of the sequence.
LEMMA WithoutType ==
  ASSUME NEW S, NEW char, NEW chars \in Seq(S)
  PROVE  Without(char, chars) \in Seq(S)
  <1>1. PICK n \in Nat : n = Len(chars)
    OBVIOUS
  <1>2. PICK f : Filters(f, char, chars, S) /\ Without(char, chars) = f[Len(chars)]
    BY WithoutFunction
  <1>3. n \in 0 .. n
    OBVIOUS
  <1> QED
    BY <1>1, <1>2, <1>3, Zenon DEF Filters

LEMMA WithoutEmpty ==
  ASSUME NEW char
  PROVE  Without(char, <<>>) = <<>>
  <1>1. PICK S : S = {0}
    OBVIOUS
  <1>2. <<>> \in Seq(S) /\ Len(<<>>) = 0
    OBVIOUS
  <1>3. PICK f : Filters(f, char, <<>>, S) /\ Without(char, <<>>) = f[Len(<<>>)]
    BY <1>2, WithoutFunction
  <1> QED
    BY <1>2, <1>3, Zenon DEF Filters

\* Without goes on with the character that is appended, unless it is char.
LEMMA WithoutAppend ==
  ASSUME NEW S, NEW char, NEW chars \in Seq(S), NEW x \in S
  PROVE  Without(char, Append(chars, x)) =
           IF x = char THEN Without(char, chars) ELSE Append(Without(char, chars), x)
  <1>2. PICK n \in Nat : n = Len(chars)
    OBVIOUS
  <1>3. PICK more : more = Append(chars, x)
    OBVIOUS
  <1>4. more \in Seq(S) /\ Len(more) = n + 1 /\ more[n + 1] = x
            /\ \A k \in 1 .. n : more[k] = chars[k]
    BY <1>2, <1>3
  <1>5. PICK f : Filters(f, char, chars, S) /\ Without(char, chars) = f[Len(chars)]
    BY WithoutFunction
  <1>6. PICK g : Filters(g, char, more, S) /\ Without(char, more) = g[Len(more)]
    BY <1>4, WithoutFunction
  <1>7. f[n] = g[n]
    <2>1. Len(chars) <= Len(more)
      BY <1>2, <1>4
    <2>2. \A k \in 1 .. Len(chars) : more[k] = chars[k]
      BY <1>2, <1>4
    <2>3. f[Len(chars)] = g[Len(chars)]
      BY <1>4, <1>5, <1>6, <2>1, <2>2, FiltersAgree
    <2> QED
      BY <2>3, <1>2
  <1>8. g[n + 1] = IF x = char THEN g[n] ELSE Append(g[n], x)
    <2>1. n + 1 \in 1 .. (n + 1) /\ (n + 1) - 1 = n
      OBVIOUS
    <2>2. g[n + 1] = IF more[n + 1] = char THEN g[(n + 1) - 1]
              ELSE Append(g[(n + 1) - 1], more[n + 1])
      BY <1>4, <1>6, <2>1, Zenon DEF Filters
    <2> QED
      BY <2>1, <2>2, <1>4, Zenon
  <1>9. f[n] \in Seq(S)
    <2>1. n \in 0 .. n
      OBVIOUS
    <2> QED
      BY <1>2, <1>5, <2>1, Zenon DEF Filters
  <1>10. Without(char, more) = g[n + 1] /\ Without(char, chars) = f[n]
    BY <1>2, <1>4, <1>5, <1>6, Zenon
  <1> QED
    BY <1>3, <1>7, <1>8, <1>9, <1>10, Zenon

\* Without goes through a concatenation.
LEMMA WithoutConcat ==
  ASSUME NEW S, NEW char, NEW s \in Seq(S), NEW t \in Seq(S)
  PROVE  Without(char, s \o t) = Without(char, s) \o Without(char, t)
  <1> DEFINE T == {u \in Seq(S) : Without(char, s \o u) = Without(char, s) \o Without(char, u)}
  <1>1. PICK w \in Seq(S) : w = Without(char, s)
    BY WithoutType
  <1>2. w \in Seq(S)
    BY <1>1
  <1>3. <<>> \in T
    <2>1. Without(char, <<>>) = <<>>
      BY WithoutEmpty
    <2>2. s \o <<>> = s /\ w \o <<>> = w /\ <<>> \in Seq(S)
      BY <1>2
    <2> QED
      BY <1>1, <2>1, <2>2, Zenon
  <1>4. ASSUME NEW u \in Seq(S), NEW x \in S, u \in T PROVE Append(u, x) \in T
    <2>1. PICK v \in Seq(S) : v = Without(char, u)
      BY WithoutType
    <2>2. v \in Seq(S)
      BY <2>1
    <2>3. s \o u \in Seq(S) /\ Append(u, x) \in Seq(S)
      OBVIOUS
    <2>31. s \o Append(u, x) = Append(s \o u, x)
      <3>1. Extends(s, u, x)
        BY AppendConcat, Zenon
      <3> QED
        BY <3>1, Zenon DEF Extends
    <2>4. Without(char, s \o u) = w \o v
      BY <1>1, <1>4, <2>1, Zenon
    <2>5. Without(char, Append(u, x)) = IF x = char THEN v ELSE Append(v, x)
      <3>1. Without(char, Append(u, x)) =
              IF x = char THEN Without(char, u) ELSE Append(Without(char, u), x)
        <4> HIDE DEF T
        <4> QED
          BY WithoutAppend
      <3> QED
        BY <2>1, <3>1, Zenon
    <2>6. Without(char, s \o Append(u, x)) = IF x = char THEN w \o v ELSE Append(w \o v, x)
      <3>1. PICK z \in Seq(S) : z = s \o u
        BY <2>3, Zenon
      <3>2. Without(char, Append(z, x)) =
              IF x = char THEN Without(char, z) ELSE Append(Without(char, z), x)
        <4> HIDE DEF T
        <4> QED
          BY WithoutAppend
      <3> QED
        BY <2>31, <2>4, <3>1, <3>2, Zenon
    <2>7. Append(w \o v, x) = w \o Append(v, x)
      <3>1. Extends(w, v, x)
        BY AppendConcat, Zenon
      <3> QED
        BY <3>1, Zenon DEF Extends
    <2>8. Without(char, s \o Append(u, x)) = w \o Without(char, Append(u, x))
      BY <2>5, <2>6, <2>7, Zenon
    <2> QED
      BY <2>3, <2>8, <1>1, Zenon
  <1> HIDE DEF T
  <1>5. Seq(S) \subseteq T
    BY <1>3, <1>4, SequenceInduction
  <1> QED
    BY <1>5 DEF T

-----------------------------------------------------------------------------
(***************************************************************************)
(* The screen.                                                             *)
(***************************************************************************)
\* The characters a text can be made of.
Printable ==
  Chars \cup {LowerCase[k] : k \in 1 .. 16} \cup {UpperCase[k] : k \in 1 .. 16}
  \cup {"0", "x", "X", "-", "+", " ", "%", "NUL"}

LEMMA PrintableFacts ==
  "CR" \notin Printable
  <1>1. "CR" \notin Chars
    BY DEF Chars
  <1>2. \A k \in 1 .. 16 : LowerCase[k] # "CR" /\ UpperCase[k] # "CR"
    BY DEF LowerCase, UpperCase
  <1> QED
    BY <1>1, <1>2 DEF Printable

\* What the screen is sent of chars.
Shown(chars) == FlattenSeq([k \in DOMAIN chars |-> Screen(chars[k])])

\* Every line feed comes right behind a carriage return.
Returns(chars) == \A k \in 1 .. Len(chars) : chars[k] = "LF" => k > 1 /\ chars[k - 1] = "CR"

\* All that may be sent.
Sendable == Printable \cup {"CR", "LF"}

\* The screen takes every character but NUL, and a line feed as two.
LEMMA ScreenFacts ==
  ASSUME NEW char \in Printable
  PROVE  /\ Screen(char) \in Seq(Sendable) /\ Returns(Screen(char))
         /\ Without("CR", Screen(char)) = Without("NUL", <<char>>)
  <1>1. PICK S : S = Sendable
    OBVIOUS
  <1>2. char \in S /\ "CR" \in S /\ "LF" \in S /\ char # "CR" /\ "LF" # "CR" /\ "NUL" # "LF"
    BY <1>1, PrintableFacts DEF Sendable
  <1>3. <<>> \in Seq(S)
    OBVIOUS
  <1>4. ASSUME NEW x \in S, NEW c
        PROVE  Without(c, <<x>>) = IF x = c THEN <<>> ELSE <<x>>
    <2>1. Append(<<>>, x) = <<x>>
      BY AppendOne, Zenon
    <2>2. Without(c, Append(<<>>, x)) =
              IF x = c THEN Without(c, <<>>) ELSE Append(Without(c, <<>>), x)
      <3>1. PICK nil \in Seq(S) : nil = <<>>
        BY <1>3
      <3>2. Without(c, Append(nil, x)) =
                IF x = c THEN Without(c, nil) ELSE Append(Without(c, nil), x)
        BY WithoutAppend
      <3> QED
        BY <3>1, <3>2, Zenon
    <2>3. Without(c, <<>>) = <<>>
      BY WithoutEmpty
    <2> QED
      BY <2>1, <2>2, <2>3, Zenon
  <1>5. Without("CR", <<"CR", "LF">>) = <<"LF">>
    <2>1. PICK cr, lf : cr = "CR" /\ lf = "LF"
      OBVIOUS
    <2>2. cr \in S /\ lf \in S /\ cr # lf
      BY <2>1, <1>2
    <2>3. <<cr>> \in Seq(S) /\ Append(<<cr>>, lf) = <<cr, lf>> /\ Append(<<>>, lf) = <<lf>>
      BY <2>2, AppendOne, AppendTwo, Zenon
    <2>4. Without(cr, Append(<<cr>>, lf)) =
            IF lf = cr THEN Without(cr, <<cr>>) ELSE Append(Without(cr, <<cr>>), lf)
      <3>1. PICK one \in Seq(S) : one = <<cr>>
        BY <2>3
      <3>2. Without(cr, Append(one, lf)) =
              IF lf = cr THEN Without(cr, one) ELSE Append(Without(cr, one), lf)
        BY <2>2, WithoutAppend
      <3> QED
        BY <3>1, <3>2, Zenon
    <2>5. Without(cr, <<cr>>) = <<>>
      BY <2>2, <1>4, Zenon
    <2> QED
      BY <2>1, <2>2, <2>3, <2>4, <2>5, Zenon
  <1>6. CASE char = "LF"
    <2>1. Screen(char) = <<"CR", "LF">>
      BY <1>6 DEF Screen
    <2>2. Without("NUL", <<char>>) = <<"LF">>
      BY <1>2, <1>4, <1>6, Zenon
    <2>3. <<"CR", "LF">> \in Seq(S)
      BY <1>2, AppendTwo, Zenon
    <2>4. Returns(<<"CR", "LF">>)
      BY DEF Returns
    <2> QED
      BY <2>1, <2>2, <2>3, <2>4, <1>5, <1>1, Zenon
  <1>7. CASE char = "NUL"
    <2>1. Screen(char) = <<>>
      BY <1>7, <1>2 DEF Screen
    <2>2. Without("NUL", <<char>>) = <<>> /\ Without("CR", <<>>) = <<>>
      BY <1>2, <1>4, <1>7, WithoutEmpty, Zenon
    <2>4. Returns(<<>>)
      BY DEF Returns
    <2> QED
      BY <2>1, <2>2, <2>4, <1>1, <1>3, Zenon
  <1>8. CASE char # "LF" /\ char # "NUL"
    <2>1. Screen(char) = <<char>>
      BY <1>8 DEF Screen
    <2>2. Without("NUL", <<char>>) = <<char>> /\ Without("CR", <<char>>) = <<char>>
      BY <1>2, <1>4, <1>8, Zenon
    <2>3. <<char>> \in Seq(S)
      BY <1>2, AppendOne, Zenon
    <2>4. Returns(<<char>>)
      BY <1>8 DEF Returns
    <2> QED
      BY <2>1, <2>2, <2>3, <2>4, <1>1, Zenon
  <1> QED
    BY <1>6, <1>7, <1>8

\* Concatenation puts no line feed behind another character.
LEMMA ReturnsConcat ==
  ASSUME NEW S, NEW s \in Seq(S), NEW t \in Seq(S), Returns(s), Returns(t)
  PROVE  Returns(s \o t)
  <1> SUFFICES ASSUME NEW k \in 1 .. Len(s \o t), (s \o t)[k] = "LF"
               PROVE  k > 1 /\ (s \o t)[k - 1] = "CR"
    BY DEF Returns
  <1>1. CASE k <= Len(s)
    <2>1. s[k] = "LF" /\ k \in 1 .. Len(s)
      BY <1>1
    <2>2. k > 1 /\ s[k - 1] = "CR"
      BY <2>1 DEF Returns
    <2> QED
      BY <2>1, <2>2
  <1>2. CASE k > Len(s)
    <2>1. PICK j \in 1 .. Len(t) : k = Len(s) + j
      <3>1. k - Len(s) \in 1 .. Len(t) /\ k = Len(s) + (k - Len(s))
        BY <1>2
      <3> QED
        BY <3>1
    <2>2. t[j] = "LF"
      BY <2>1
    <2>3. j > 1 /\ t[j - 1] = "CR"
      BY <2>1, <2>2 DEF Returns
    <2> QED
      BY <2>1, <2>3
  <1> QED
    BY <1>1, <1>2

\* The screen is sent the characters, a carriage return before every line
\* feed, and nothing for a NUL.
LEMMA ShownFacts ==
  ASSUME NEW chars \in Seq(Printable)
  PROVE  /\ Shown(chars) \in Seq(Sendable) /\ Returns(Shown(chars))
         /\ Without("CR", Shown(chars)) = Without("NUL", chars)
  <1> DEFINE Good(u) == /\ Shown(u) \in Seq(Sendable) /\ Returns(Shown(u))
                        /\ Without("CR", Shown(u)) = Without("NUL", u)
             T == {u \in Seq(Printable) : Good(u)}
  <1>1. <<>> \in T
    <2>1. PICK S : S = Sendable
      OBVIOUS
    <2>2. <<>> \in Seq(S)
      OBVIOUS
    <2>3. FlattenSeq(<<>>) = <<>>
      <3>1. <<>> \in Seq(Seq(S))
        OBVIOUS
      <3> QED
        BY <2>2, <3>1, FlattenFacts
    <2>4. Shown(<<>>) = <<>>
      <3>1. [k \in DOMAIN <<>> |-> Screen(<<>>[k])] = <<>>
        OBVIOUS
      <3> QED
        BY <2>3, <3>1, Zenon DEF Shown
    <2>5. Returns(<<>>)
      BY DEF Returns
    <2>6. Without("CR", <<>>) = <<>> /\ Without("NUL", <<>>) = <<>>
      BY WithoutEmpty, Zenon
    <2>7. <<>> \in Seq(Printable)
      OBVIOUS
    <2> QED
      BY <2>1, <2>2, <2>4, <2>5, <2>6, <2>7, Zenon
  <1>2. ASSUME NEW u \in Seq(Printable), NEW x \in Printable, u \in T PROVE Append(u, x) \in T
    <2>1. PICK S, C : S = Sendable /\ C = Printable
      OBVIOUS
    <2>2. C \subseteq S
      BY <2>1, Zenon DEF Sendable
    <2>3. PICK ss : ss = [k \in 1 .. Len(u) |-> Screen(u[k])]
      OBVIOUS
    <2>4. ss \in Seq(Seq(S))
      <3>1. ASSUME NEW k \in 1 .. Len(u) PROVE Screen(u[k]) \in Seq(S)
        <4>1. u[k] \in Printable
          OBVIOUS
        <4> QED
          BY <4>1, <2>1, ScreenFacts, Zenon
      <3>2. PICK Z : Z = Seq(S)
        OBVIOUS
      <3>3. \A k \in 1 .. Len(u) : Screen(u[k]) \in Z
        BY <3>1, <3>2, Zenon
      <3>4. Len(u) \in Nat
        OBVIOUS
      <3>5. ss \in Seq(Z)
        BY <3>3, <3>4, <2>3
      <3> QED
        BY <3>2, <3>5, Zenon
    <2>5. Shown(u) = FlattenSeq(ss)
      <3>1. DOMAIN u = 1 .. Len(u)
        OBVIOUS
      <3> QED
        BY <2>3, <3>1, Zenon DEF Shown
    <2>6. Screen(x) \in Seq(S) /\ Returns(Screen(x))
              /\ Without("CR", Screen(x)) = Without("NUL", <<x>>)
      BY <2>1, ScreenFacts, Zenon
    <2>7. Shown(Append(u, x)) = FlattenSeq(Append(ss, Screen(x)))
      <3>1. PICK v : v = Append(u, x)
        OBVIOUS
      <3>2. DOMAIN v = 1 .. (Len(u) + 1) /\ v[Len(u) + 1] = x /\ \A k \in 1 .. Len(u) : v[k] = u[k]
        BY <3>1
      <3>3. PICK vv : vv = [k \in 1 .. (Len(u) + 1) |-> Screen(v[k])]
        OBVIOUS
      <3>4. vv = Append(ss, Screen(x))
        <4>1. ASSUME NEW k \in 1 .. Len(u) PROVE k \in 1 .. (Len(u) + 1) /\ vv[k] = ss[k]
          <5>1. k \in 1 .. (Len(u) + 1)
            OBVIOUS
          <5>2. v[k] = u[k]
            BY <3>2
          <5> QED
            BY <5>1, <5>2, <2>3, <3>3, Zenon
        <4>2. vv[Len(u) + 1] = Screen(x)
          <5>1. Len(u) + 1 \in 1 .. (Len(u) + 1)
            OBVIOUS
          <5> QED
            BY <5>1, <3>2, <3>3, Zenon
        <4>3. DOMAIN vv = 1 .. (Len(u) + 1) /\ DOMAIN ss = 1 .. Len(u)
          BY <2>3, <3>3, Zenon
        <4>4. PICK n \in Nat, Z \in {Seq(S)} : n = Len(u) /\ Z = Seq(S)
          OBVIOUS
        <4>5. Screen(x) \in Z /\ ss \in Seq(Z)
          BY <2>4, <2>6, <4>4, Zenon
        <4>6. vv \in Seq(Z)
          <5>1. \A k \in 1 .. (n + 1) : vv[k] \in Z
            <6>1. \A k \in 1 .. n : ss[k] \in Z
              BY <4>4, <4>5, <4>3
            <6>2. ASSUME NEW k \in 1 .. (n + 1) PROVE vv[k] \in Z
              <7>1. CASE k \in 1 .. n
                BY <4>1, <4>4, <6>1, <7>1
              <7>2. CASE k = n + 1
                BY <4>2, <4>4, <4>5, <7>2
              <7> QED
                BY <7>1, <7>2
            <6> QED
              BY <6>2
          <5>2. vv \in [1 .. (n + 1) -> Z]
            BY <5>1, <3>3, <4>4, Zenon
          <5>3. n + 1 \in Nat
            OBVIOUS
          <5> QED
            BY <5>2, <5>3, SequenceOf
        <4>7. Len(vv) = n + 1 /\ Len(ss) = n
          BY <4>3, <4>4, <4>5, <4>6
        <4>8. vv[Len(ss) + 1] = Screen(x) /\ \A k \in 1 .. Len(ss) : vv[k] = ss[k]
                  /\ Len(vv) = Len(ss) + 1
          BY <4>1, <4>2, <4>4, <4>7
        <4> QED
          BY <4>5, <4>6, <4>7, <4>8, AppendUnique
      <3> QED
        BY <3>1, <3>2, <3>3, <3>4, Zenon DEF Shown
    <2>8. Shown(Append(u, x)) = Shown(u) \o Screen(x)
      BY <2>4, <2>5, <2>6, <2>7, FlattenFacts, Zenon
    <2>9. Shown(u) \in Seq(S) /\ Returns(Shown(u)) /\ Without("CR", Shown(u)) = Without("NUL", u)
      BY <1>2, <2>1, Zenon
    <2>10. Shown(u) \o Screen(x) \in Seq(S)
      BY <2>6, <2>9, ConcatType, Zenon
    <2>11. Returns(Shown(u) \o Screen(x))
      BY <2>6, <2>9, ReturnsConcat, Zenon
    <2>12. Without("CR", Shown(u) \o Screen(x)) = Without("NUL", u) \o Without("NUL", <<x>>)
      <3>1. PICK p \in Seq(S), q \in Seq(S) : p = Shown(u) /\ q = Screen(x)
        BY <2>6, <2>9, Zenon
      <3>2. Without("CR", p \o q) = Without("CR", p) \o Without("CR", q)
        BY WithoutConcat
      <3> QED
        BY <2>6, <2>9, <3>1, <3>2, Zenon
    <2>13. Without("NUL", Append(u, x)) = Without("NUL", u) \o Without("NUL", <<x>>)
      <3>1. u \in Seq(C) /\ <<x>> \in Seq(C) /\ Append(u, x) = u \o <<x>> /\ Append(u, x) \in Seq(C)
        BY <2>1
      <3>2. Without("NUL", u \o <<x>>) = Without("NUL", u) \o Without("NUL", <<x>>)
        <4>1. PICK p \in Seq(C), q \in Seq(C) : p = u /\ q = <<x>>
          BY <3>1, Zenon
        <4>2. Without("NUL", p \o q) = Without("NUL", p) \o Without("NUL", q)
          BY WithoutConcat
        <4> QED
          BY <4>1, <4>2, Zenon
      <3> QED
        BY <3>1, <3>2, Zenon
    <2>14. Append(u, x) \in Seq(Printable)
      OBVIOUS
    <2> QED
      BY <2>1, <2>8, <2>10, <2>11, <2>12, <2>13, <2>14, Zenon
  <1> HIDE DEF T
  <1>3. Seq(Printable) \subseteq T
    BY <1>1, <1>2, SequenceInduction
  <1> QED
    BY <1>3 DEF T

-----------------------------------------------------------------------------
(***************************************************************************)
(* Numerals.                                                               *)
(***************************************************************************)
\* A greater factor.
LEMMA TimesMonotone ==
  ASSUME NEW a \in Nat, NEW b \in Nat, NEW c \in Nat, a < b
  PROVE  a * c + c <= b * c
  OBVIOUS

\* Quotient and remainder are unique.
LEMMA DivisionUnique ==
  ASSUME NEW c \in Nat \ {0}, NEW q \in Nat, NEW r \in 0 .. (c - 1), NEW N \in Nat, N = q * c + r
  PROVE  N \div c = q
  <1>1. PICK Q \in Nat : Q = N \div c
    BY DivisionFacts
  <1>2. PICK R \in 0 .. (c - 1) : N = Q * c + R
    BY <1>1, DivisionFacts
  <1>3. CASE Q < q
    <2>1. Q * c + c <= q * c
      BY <1>3, TimesMonotone
    <2>2. PICK x, y \in Nat : x = Q * c /\ y = q * c
      OBVIOUS
    <2> QED
      BY <2>1, <2>2, <1>2
  <1>4. CASE Q > q
    <2>1. q * c + c <= Q * c
      BY <1>4, TimesMonotone
    <2>2. PICK x, y \in Nat : x = Q * c /\ y = q * c
      OBVIOUS
    <2> QED
      BY <2>1, <2>2, <1>2
  <1> QED
    BY <1>1, <1>3, <1>4
\* Dividing twice is dividing by the product.
DividesTwice(N, a, b) == (N \div a) \div b = N \div (a * b)

\* Dividing twice is dividing by the product.
LEMMA DivisionTwice ==
  ASSUME NEW N \in Nat, NEW a \in Nat \ {0}, NEW b \in Nat \ {0}
  PROVE  DividesTwice(N, a, b)
  <1>1. PICK q1 \in Nat, r1 \in 0 .. (a - 1) : q1 = N \div a /\ N = q1 * a + r1
    BY DivisionFacts
  <1>2. PICK q2 \in Nat, r2 \in 0 .. (b - 1) : q2 = q1 \div b /\ q1 = q2 * b + r2
    BY DivisionFacts
  <1>3. PICK c \in Nat \ {0} : c = a * b
    OBVIOUS
  <1>4. N = q2 * c + (r2 * a + r1)
    <2>1. (q2 * b + r2) * a = (q2 * b) * a + r2 * a
      OBVIOUS
    <2>2. (q2 * b) * a = q2 * (a * b)
      OBVIOUS
    <2>3. PICK x, y \in Nat : x = q2 * c /\ y = r2 * a
      OBVIOUS
    <2>4. q1 * a = x + y
      BY <1>2, <1>3, <2>1, <2>2, <2>3
    <2> QED
      BY <1>1, <2>3, <2>4
  <1>5. r2 * a + r1 \in 0 .. (c - 1)
    <2>1. r2 * a + a <= b * a
      BY TimesMonotone
    <2> QED
      BY <2>1, <1>3
  <1>6. N \div c = q2
    BY <1>4, <1>5, DivisionUnique
  <1> QED
    BY <1>1, <1>2, <1>3, <1>6 DEF DividesTwice

\* Dividing by the radix moves every digit one place down.
LEMMA DivisionPower ==
  ASSUME NEW num \in Nat, NEW radix \in Nat \ {0}, NEW i \in Nat
  PROVE  (num \div radix) \div Power(radix, i) = num \div Power(radix, i + 1)
  <1>1. PICK p \in Nat \ {0} : p = Power(radix, i)
    BY PowerPositive
  <1>2. Power(radix, i + 1) = radix * p
    BY <1>1, PowerFacts
  <1>3. DividesTwice(num, radix, p)
    BY DivisionTwice
  <1> QED
    BY <1>1, <1>2, <1>3, Zenon DEF DividesTwice

LEMMA MinFacts ==
  ASSUME NEW S, S \subseteq Nat, S # {}
  PROVE  Min(S) \in S /\ \A y \in S : Min(S) <= y
  <1>1. \E x \in S : \A y \in S : x <= y
    BY SomeLeast
  <1> QED
    BY <1>1, Zenon DEF Min

LEMMA MinUnique ==
  ASSUME NEW S, S \subseteq Nat, NEW x \in S, \A y \in S : x <= y
  PROVE  Min(S) = x
  <1>1. Min(S) \in S /\ \A y \in S : Min(S) <= y
    BY MinFacts
  <1>2. Min(S) <= x /\ x <= Min(S) /\ Min(S) \in Nat /\ x \in Nat
    BY <1>1
  <1> QED
    BY <1>2

\* The digits that num needs.
Places(num, radix) == Min({m \in 1 .. MAXBITS : num < Power(radix, m)})

\* There is a fewest number of digits, within the bits of the type.
LEMMA PlacesFacts ==
  ASSUME NEW radix \in Nat, radix > 1, NEW num \in 0 .. (Power(2, MAXBITS) - 1)
  PROVE  /\ Places(num, radix) \in 1 .. MAXBITS /\ num < Power(radix, Places(num, radix))
         /\ \A l \in 1 .. MAXBITS : num < Power(radix, l) => Places(num, radix) <= l
  <1> DEFINE E == {m \in 1 .. MAXBITS : num < Power(radix, m)}
  <1>1. MAXBITS \in 1 .. MAXBITS /\ MAXBITS \in Nat
    BY ArithmeticAssumption
  <1>2. num < Power(radix, MAXBITS)
    <2>1. Power(2, MAXBITS) <= Power(radix, MAXBITS)
      BY <1>1, PowerGrows
    <2>2. Power(2, MAXBITS) \in Nat /\ Power(radix, MAXBITS) \in Nat
      BY <1>1, PowerPositive
    <2> QED
      BY <2>1, <2>2
  <1>3. E \subseteq Nat /\ MAXBITS \in E
    BY <1>1, <1>2
  <1> HIDE DEF E
  <1>4. Min(E) \in E /\ \A y \in E : Min(E) <= y
    BY <1>3, MinFacts
  <1> QED
    BY <1>4 DEF E, Places

\* One place more than what is left after the last digit.
LEMMA PlacesStep ==
  ASSUME NEW radix \in Nat, radix > 1, NEW num \in 0 .. (Power(2, MAXBITS) - 1)
  PROVE  /\ num \div radix = 0 => Places(num, radix) = 1
         /\ num \div radix # 0 => Places(num, radix) = Places(num \div radix, radix) + 1
         /\ num \div radix \in 0 .. num /\ (num # 0 => num \div radix < num)
  <1>1. PICK q \in Nat, r \in 0 .. (radix - 1) : q = num \div radix /\ num = q * radix + r
    <2>1. num \in Nat
      BY PowerPositive, ArithmeticAssumption
    <2>2. radix \in Nat \ {0}
      OBVIOUS
    <2> QED
      BY <2>1, <2>2, DivisionFacts
  <1>2. num \in Nat /\ MAXBITS \in Nat /\ MAXBITS >= 1 /\ \A n \in Nat : Power(radix, n) \in Nat
    BY PowerPositive, ArithmeticAssumption
  <1>3. q <= num /\ (num # 0 => q < num)
    <2>1. CASE q = 0
      BY <2>1, <1>2
    <2>2. CASE q # 0
      <3>1. 1 * q + q <= radix * q
        BY TimesMonotone
      <3>2. PICK x \in Nat : x = q * radix
        OBVIOUS
      <3>3. radix * q = x
        BY <3>2
      <3> QED
        BY <1>1, <2>2, <3>1, <3>2, <3>3
    <2> QED
      BY <2>1, <2>2
  <1>4. q \in 0 .. (Power(2, MAXBITS) - 1)
    <2>1. PICK P : P = Power(2, MAXBITS)
      OBVIOUS
    <2>2. P \in Nat /\ num \in 0 .. (P - 1)
      BY <2>1, PowerPositive, ArithmeticAssumption
    <2> QED
      BY <2>1, <2>2, <1>3
  <1>5. CASE q = 0
    <2>1. num < Power(radix, 1)
      <3>1. Power(radix, 0) = 1 /\ Power(radix, 0 + 1) = radix * Power(radix, 0)
        BY PowerFacts
      <3> QED
        BY <3>1, <1>1, <1>5
    <2>2. 1 \in 1 .. MAXBITS /\ Places(num, radix) \in 1 .. MAXBITS /\ Places(num, radix) <= 1
      BY <1>2, <2>1, PlacesFacts
    <2> QED
      BY <1>1, <1>3, <1>5, <2>2
  <1>6. CASE q # 0
    <2>1. PICK K \in 1 .. MAXBITS : K = Places(q, radix)
      BY <1>4, PlacesFacts
    <2>2. q < Power(radix, K) /\ \A l \in 1 .. MAXBITS : q < Power(radix, l) => K <= l
      BY <1>4, <2>1, PlacesFacts
    <2>3. num < Power(radix, K + 1)
      <3>1. PICK p \in Nat : p = Power(radix, K)
        BY <1>2
      <3>2. q * radix + radix <= p * radix
        BY <2>2, <3>1, TimesMonotone
      <3>3. Power(radix, K + 1) = radix * p
        BY <3>1, PowerFacts
      <3>4. PICK x, y \in Nat : x = q * radix /\ y = p * radix
        OBVIOUS
      <3>5. radix * p = y
        BY <3>4
      <3> QED
        BY <1>1, <3>2, <3>3, <3>4, <3>5
    <2>4. ASSUME NEW l \in 1 .. K PROVE Power(radix, l) <= num
      <3>1. PICK n \in Nat : l = n + 1
        <4>1. l - 1 \in Nat /\ l = (l - 1) + 1
          OBVIOUS
        <4> QED
          BY <4>1
      <3>2. Power(radix, n) <= q
        <4>1. CASE n = 0
          BY <4>1, <1>6, PowerFacts
        <4>2. CASE n # 0
          BY <4>2, <3>1, <2>2, <1>2
        <4> QED
          BY <4>1, <4>2
      <3>3. PICK p \in Nat : p = Power(radix, n)
        BY <1>2
      <3>4. p * radix <= q * radix
        BY <3>2, <3>3, TimesMonotone
      <3>5. Power(radix, l) = radix * p
        BY <3>1, <3>3, PowerFacts
      <3>6. PICK x, y \in Nat : x = q * radix /\ y = p * radix
        OBVIOUS
      <3>7. radix * p = y
        BY <3>6
      <3> QED
        BY <1>1, <3>4, <3>5, <3>6, <3>7
    <2>5. K + 1 \in 1 .. MAXBITS
      <3> SUFFICES ASSUME K = MAXBITS PROVE FALSE
        BY <1>2
      <3>1. Power(radix, MAXBITS) <= num
        BY <2>4
      <3>2. Power(2, MAXBITS) <= Power(radix, MAXBITS)
        BY <1>2, PowerGrows
      <3>3. Power(2, MAXBITS) \in Nat /\ Power(radix, MAXBITS) \in Nat
        BY <1>2, PowerPositive
      <3> QED
        BY <3>1, <3>2, <3>3
    <2>6. Places(num, radix) = K + 1
      <3>1. PICK M \in 1 .. MAXBITS : M = Places(num, radix)
        BY PlacesFacts
      <3>2. num < Power(radix, M) /\ M <= K + 1
        BY <2>3, <2>5, <3>1, PlacesFacts
      <3>3. ~ (M \in 1 .. K)
        BY <2>4, <3>2, <1>2
      <3> QED
        BY <3>1, <3>2, <3>3
    <2> QED
      BY <1>1, <1>3, <1>6, <2>1, <2>6
  <1> QED
    BY <1>5, <1>6

\* A quotient stays in the type.
LEMMA QuotientRange ==
  ASSUME NEW radix \in Nat, radix > 1, NEW num \in 0 .. (Power(2, MAXBITS) - 1)
  PROVE  num \div radix \in 0 .. (Power(2, MAXBITS) - 1)
  <1>1. PICK P : P = Power(2, MAXBITS)
    OBVIOUS
  <1>2. P \in Nat /\ num \in 0 .. (P - 1)
    BY <1>1, PowerPositive, ArithmeticAssumption
  <1>3. PICK q \in 0 .. num : q = num \div radix
    BY PlacesStep
  <1>4. q \in 0 .. (P - 1)
    BY <1>2, <1>3
  <1> QED
    BY <1>1, <1>3, <1>4, Zenon

\* The digits of num, the last one first.
DigitRow(num, radix, alphabet) ==
  [j \in 1 .. Places(num, radix) |-> alphabet[((num \div Power(radix, j - 1)) % radix) + 1]]

Figures(radix, alphabet) == {alphabet[i] : i \in 1 .. radix}

\* The row of digits has figures only, and as many as there are places.
LEMMA DigitRowType ==
  ASSUME NEW radix \in Nat, radix > 1, NEW alphabet, NEW num \in 0 .. (Power(2, MAXBITS) - 1)
  PROVE  /\ DigitRow(num, radix, alphabet) \in Seq(Figures(radix, alphabet))
         /\ Len(DigitRow(num, radix, alphabet)) = Places(num, radix)
         /\ \A a \in Nat : alphabet[(a % radix) + 1] \in Figures(radix, alphabet)
  <1>1. ASSUME NEW a \in Nat PROVE alphabet[(a % radix) + 1] \in Figures(radix, alphabet)
    <2>1. (a % radix) + 1 \in 1 .. radix
      BY DivisionFacts
    <2> QED
      BY <2>1, Zenon DEF Figures
  <1>2. PICK n \in Nat : n = Places(num, radix)
    BY PlacesFacts, ArithmeticAssumption
  <1>3. ASSUME NEW j \in 1 .. n PROVE num \div Power(radix, j - 1) \in Nat
    <2>1. j - 1 \in Nat /\ num \in Nat
      BY PowerPositive, ArithmeticAssumption
    <2>2. Power(radix, j - 1) \in Nat \ {0}
      BY <2>1, PowerPositive
    <2> QED
      BY <2>1, <2>2, DivisionFacts
  <1>4. DigitRow(num, radix, alphabet) \in [1 .. n -> Figures(radix, alphabet)]
    BY <1>1, <1>2, <1>3, Zenon DEF DigitRow
  <1> QED
    BY <1>1, <1>2, <1>4, SequenceOf, Zenon

\* The last digit, and the row of the quotient: the equation of _ntoa's loop.
LEMMA DigitRowStep ==
  ASSUME NEW radix \in Nat, radix > 1, NEW alphabet, NEW num \in 0 .. (Power(2, MAXBITS) - 1)
  PROVE  DigitRow(num, radix, alphabet) =
           IF num \div radix = 0 THEN <<alphabet[(num % radix) + 1]>>
           ELSE <<alphabet[(num % radix) + 1]>> \o DigitRow(num \div radix, radix, alphabet)
  <1>1. PICK S : S = Figures(radix, alphabet)
    OBVIOUS
  <1>2. num \in Nat /\ radix \in Nat \ {0}
    BY PowerPositive, ArithmeticAssumption
  <1>3. PICK d \in S : d = alphabet[(num % radix) + 1]
    BY <1>1, <1>2, DigitRowType
  <1>4. PICK n \in Nat, s \in Seq(S) : n = Places(num, radix)
                 /\ s = DigitRow(num, radix, alphabet) /\ Len(s) = n
    BY <1>1, DigitRowType, PlacesFacts, ArithmeticAssumption
  <1>5. \A j \in 1 .. n : s[j] = alphabet[((num \div Power(radix, j - 1)) % radix) + 1]
    BY <1>4, Zenon DEF DigitRow
  <1>6. n >= 1 /\ s[1] = d
    <2>1. Power(radix, 1 - 1) = 1
      BY PowerFacts
    <2>2. num \div Power(radix, 1 - 1) = num
      BY <2>1, <1>2
    <2>3. 1 \in 1 .. n
      BY <1>4, PlacesFacts, ArithmeticAssumption
    <2>4. s[1] = alphabet[((num \div Power(radix, 1 - 1)) % radix) + 1]
      BY <2>3, <1>5
    <2> QED
      BY <2>2, <2>3, <2>4, <1>3
  <1>7. CASE num \div radix = 0
    <2>1. n = 1
      BY <1>4, <1>7, PlacesStep
    <2>2. s = <<d>>
      BY <1>4, <1>6, <2>1
    <2> QED
      BY <1>3, <1>4, <1>7, <2>2, Zenon
  <1>8. CASE num \div radix # 0
    <2>1. PICK q \in 0 .. (Power(2, MAXBITS) - 1) : q = num \div radix
      BY QuotientRange
    <2>3. PICK m \in Nat, t \in Seq(S) : m = Places(q, radix) /\ t = DigitRow(q, radix, alphabet)
                   /\ Len(t) = m
      <3>1. DigitRow(q, radix, alphabet) \in Seq(Figures(radix, alphabet))
            /\ Len(DigitRow(q, radix, alphabet)) = Places(q, radix)
        BY DigitRowType
      <3>2. Places(q, radix) \in 1 .. MAXBITS
        BY PlacesFacts
      <3>3. Places(q, radix) \in Nat
        BY <3>2, ArithmeticAssumption
      <3> QED
        BY <3>1, <3>3, <1>1, Zenon
    <2>4. n = m + 1
      BY <1>4, <1>8, <2>1, <2>3, PlacesStep
    <2>5. ASSUME NEW j \in 1 .. m PROVE s[j + 1] = t[j]
      <3>1. PICK i \in Nat : i = j - 1
        OBVIOUS
      <3>2. j = i + 1 /\ (j + 1) - 1 = i + 1 /\ j + 1 \in 1 .. n
        BY <2>4, <3>1
      <3>3. t[j] = alphabet[((q \div Power(radix, j - 1)) % radix) + 1]
        BY <2>3, Zenon DEF DigitRow
      <3>4. s[j + 1] = alphabet[((num \div Power(radix, (j + 1) - 1)) % radix) + 1]
        BY <3>2, <1>5
      <3>5. q \div Power(radix, i) = num \div Power(radix, i + 1)
        BY <1>2, <2>1, DivisionPower, Zenon
      <3> QED
        BY <3>1, <3>2, <3>3, <3>4, <3>5
    <2>6. s = <<d>> \o t
      <3>1. ASSUME NEW k \in 1 .. n PROVE s[k] = (<<d>> \o t)[k]
        <4>1. CASE k = 1
          BY <4>1, <1>6
        <4>2. CASE k # 1
          <5>1. PICK j \in 1 .. m : k = j + 1
            <6>1. k - 1 \in 1 .. m /\ k = (k - 1) + 1
              BY <4>2, <2>4
            <6> QED
              BY <6>1
          <5>2. (<<d>> \o t)[k] = t[j]
            BY <5>1, <2>3
          <5> QED
            BY <5>1, <5>2, <2>5
        <4> QED
          BY <4>1, <4>2
      <3>2. Len(<<d>> \o t) = n /\ <<d>> \o t \in Seq(S)
        BY <2>3, <2>4
      <3> QED
        BY <3>1, <3>2, <1>4
    <2> QED
      BY <1>3, <1>4, <1>8, <2>1, <2>3, <2>6, Zenon
  <1> QED
    BY <1>7, <1>8

\* What _ntoa's loop makes.
LEMMA DigitsExact ==
  ASSUME NEW radix \in Nat, radix > 1, NEW alphabet, NEW num \in 0 .. (Power(2, MAXBITS) - 1)
  PROVE  Digits(num, radix, alphabet) = DigitRow(num, radix, alphabet)
  <1>1. num \in Nat /\ radix \in Nat \ {0}
    BY PowerPositive, ArithmeticAssumption
  <1>2. PICK g : g = [m \in 0 .. num |-> DigitRow(m, radix, alphabet)]
    OBVIOUS
  <1>3. ASSUME NEW m \in 0 .. num PROVE m \in 0 .. (Power(2, MAXBITS) - 1)
    <2>1. PICK P : P = Power(2, MAXBITS)
      OBVIOUS
    <2>2. P \in Nat /\ num \in 0 .. (P - 1)
      BY <2>1, PowerPositive, ArithmeticAssumption
    <2>3. m \in 0 .. (P - 1)
      BY <2>2
    <2> QED
      BY <2>1, <2>3, Zenon
  <1>4. ASSUME NEW m \in 0 .. num
        PROVE  /\ unsigned_division64(m, radix).quotient = m \div radix
               /\ unsigned_division64(m, radix).remainder = m % radix
               /\ m \div radix \in 0 .. num
    <2>1. m \in 0 .. (Power(2, MAXBITS) - 1)
      BY <1>3
    <2>2. unsigned_division64(m, radix) = [quotient |-> m \div radix, remainder |-> m % radix]
      BY <1>1, <2>1, DivisionExact
    <2>3. PICK q \in 0 .. m : q = m \div radix
      BY <2>1, PlacesStep
    <2>4. q \in 0 .. num
      BY <1>1
    <2>5. /\ [quotient |-> m \div radix, remainder |-> m % radix].quotient = m \div radix
          /\ [quotient |-> m \div radix, remainder |-> m % radix].remainder = m % radix
      BY Zenon
    <2> QED
      BY <2>2, <2>3, <2>4, <2>5, Zenon
  <1>5. ASSUME NEW m \in 0 .. num
        PROVE  g[m] = IF unsigned_division64(m, radix).quotient = 0
                      THEN <<alphabet[unsigned_division64(m, radix).remainder + 1]>>
                      ELSE <<alphabet[unsigned_division64(m, radix).remainder + 1]>>
                           \o g[unsigned_division64(m, radix).quotient]
    <2>1. DigitRow(m, radix, alphabet) =
           IF m \div radix = 0 THEN <<alphabet[(m % radix) + 1]>>
           ELSE <<alphabet[(m % radix) + 1]>> \o DigitRow(m \div radix, radix, alphabet)
      BY <1>3, DigitRowStep
    <2>2. g[m] = DigitRow(m, radix, alphabet)
              /\ g[m \div radix] = DigitRow(m \div radix, radix, alphabet)
      BY <1>2, <1>4, Zenon
    <2> QED
      BY <1>4, <2>1, <2>2, Zenon
  <1>6. g = [m \in 0 .. num |->
               IF unsigned_division64(m, radix).quotient = 0
               THEN <<alphabet[unsigned_division64(m, radix).remainder + 1]>>
               ELSE <<alphabet[unsigned_division64(m, radix).remainder + 1]>>
                    \o g[unsigned_division64(m, radix).quotient]]
    BY <1>2, <1>5, Zenon
  <1> DEFINE f == CHOOSE f : f = [m \in 0 .. num |->
               IF unsigned_division64(m, radix).quotient = 0
               THEN <<alphabet[unsigned_division64(m, radix).remainder + 1]>>
               ELSE <<alphabet[unsigned_division64(m, radix).remainder + 1]>>
                    \o f[unsigned_division64(m, radix).quotient]]
  <1>7. f = [m \in 0 .. num |->
               IF unsigned_division64(m, radix).quotient = 0
               THEN <<alphabet[unsigned_division64(m, radix).remainder + 1]>>
               ELSE <<alphabet[unsigned_division64(m, radix).remainder + 1]>>
                    \o f[unsigned_division64(m, radix).quotient]]
    BY <1>6, Zenon
  <1>8. Digits(num, radix, alphabet) = f[num]
    BY Zenon DEF Digits
  <1> HIDE DEF f
  <1>9. ASSUME NEW m \in 0 .. num
        PROVE  f[m] = IF m \div radix = 0 THEN <<alphabet[(m % radix) + 1]>>
                      ELSE <<alphabet[(m % radix) + 1]>> \o f[m \div radix]
    <2>1. f[m] = IF unsigned_division64(m, radix).quotient = 0
               THEN <<alphabet[unsigned_division64(m, radix).remainder + 1]>>
               ELSE <<alphabet[unsigned_division64(m, radix).remainder + 1]>>
                    \o f[unsigned_division64(m, radix).quotient]
      BY <1>7, Zenon
    <2> QED
      BY <1>4, <2>1, Zenon
  <1> DEFINE T == {m \in Nat : m <= num => f[m] = DigitRow(m, radix, alphabet)}
  <1>10. ASSUME NEW n \in Nat, \A m \in 0 .. (n - 1) : m \in T PROVE n \in T
    <2> SUFFICES ASSUME n <= num PROVE f[n] = DigitRow(n, radix, alphabet)
      OBVIOUS
    <2>1. n \in 0 .. num
      BY <1>1
    <2>2. f[n] = IF n \div radix = 0 THEN <<alphabet[(n % radix) + 1]>>
                 ELSE <<alphabet[(n % radix) + 1]>> \o f[n \div radix]
      BY <1>9, <2>1
    <2>3. DigitRow(n, radix, alphabet) =
           IF n \div radix = 0 THEN <<alphabet[(n % radix) + 1]>>
           ELSE <<alphabet[(n % radix) + 1]>> \o DigitRow(n \div radix, radix, alphabet)
      BY <1>3, <2>1, DigitRowStep
    <2>4. CASE n \div radix = 0
      BY <2>2, <2>3, <2>4, Zenon
    <2>5. CASE n \div radix # 0
      <3>1. PICK q \in 0 .. n : q = n \div radix /\ (n # 0 => q < n)
        BY <1>3, <2>1, PlacesStep
      <3>2. n # 0
        BY <3>1, <2>5
      <3>3. q \in 0 .. (n - 1) /\ q <= num
        BY <3>1, <3>2, <1>1
      <3>4. f[q] = DigitRow(q, radix, alphabet)
        BY <3>3, <1>10
      <3> QED
        BY <2>2, <2>3, <3>1, <3>4, Zenon
    <2> QED
      BY <2>4, <2>5
  <1> HIDE DEF T
  <1>11. num \in T
    BY <1>1, <1>10, StrongInduction
  <1> QED
    BY <1>1, <1>8, <1>11 DEF T

LEMMA MaxTwo ==
  ASSUME NEW a \in Nat, NEW b \in Nat
  PROVE  Max({a, b}) = IF a >= b THEN a ELSE b
  <1>1. PICK m : m = IF a >= b THEN a ELSE b
    OBVIOUS
  <1>2. m \in {a, b} /\ \A y \in {a, b} : m >= y
    BY <1>1
  <1>3. Max({a, b}) \in {a, b} /\ \A y \in {a, b} : Max({a, b}) >= y
    BY <1>2, Zenon DEF Max
  <1> QED
    BY <1>1, <1>3

LEMMA RepeatFacts ==
  ASSUME NEW S, NEW char \in S, NEW count \in Nat
  PROVE  /\ Repeat(char, count) \in Seq(S) /\ Len(Repeat(char, count)) = count
         /\ \A k \in 1 .. count : Repeat(char, count)[k] = char
  BY DEF Repeat

\* The zeros _ntoa puts behind the digits.
Zeros(digits, precision) ==
  IF Len(digits) < precision THEN Repeat("0", precision - Len(digits)) ELSE <<>>

\* Digits and zeros reversed are the numeral C prescribes.  No precision is 0
\* for the code and 1 for C.
LEMMA NumeralExact ==
  ASSUME NEW radix \in Nat, radix > 1, NEW alphabet, alphabet[1] = "0",
         NEW num \in 0 .. (Power(2, MAXBITS) - 1),
         NEW precision \in Nat, NEW P \in Nat, P = precision \/ (precision = 0 /\ P = 1)
  PROVE  LET digits == Digits(num, radix, alphabet)
         IN  /\ digits \o Zeros(digits, precision) \in Seq(Figures(radix, alphabet))
             /\ Reverse(digits \o Zeros(digits, precision)) = Numeral(num, radix, P, alphabet)
  <1>1. PICK S : S = Figures(radix, alphabet)
    OBVIOUS
  <1>2. PICK L \in Nat : L = Places(num, radix) /\ L >= 1 /\ num < Power(radix, L)
    BY PlacesFacts, ArithmeticAssumption
  <1>3. PICK D \in Seq(S) : D = DigitRow(num, radix, alphabet) /\ Len(D) = L
    BY <1>1, <1>2, DigitRowType
  <1>4. Digits(num, radix, alphabet) = D
    BY <1>3, DigitsExact
  <1>5. "0" \in S
    <2>1. 1 \in 1 .. radix
      OBVIOUS
    <2> QED
      BY <1>1, <2>1, Zenon DEF Figures
  <1>6. PICK z : z = IF L < precision THEN precision - L ELSE 0
    OBVIOUS
  <1>61. z \in Nat
    BY <1>6
  <1>7. PICK Z : Z = Zeros(D, precision)
    OBVIOUS
  <1>71. Z \in Seq(S) /\ Len(Z) = z /\ \A k \in 1 .. z : Z[k] = "0"
    <2>1. CASE L < precision
      <3>1. precision - L \in Nat /\ z = precision - L
        BY <1>6, <2>1
      <3>2. Z = Repeat("0", z)
        BY <1>3, <1>7, <2>1, <3>1, Zenon DEF Zeros
      <3> QED
        BY <1>5, <1>61, <3>2, RepeatFacts, Zenon
    <2>2. CASE ~ (L < precision)
      <3>1. Z = <<>>
        BY <1>3, <1>7, <2>2, Zenon DEF Zeros
      <3>2. z = 0
        BY <1>6, <2>2
      <3>3. <<>> \in Seq(S) /\ Len(<<>>) = 0 /\ \A k \in 1 .. 0 : Z[k] = "0"
        OBVIOUS
      <3> QED
        BY <3>1, <3>2, <3>3, Zenon
    <2> QED
      BY <2>1, <2>2
  <1>8. PICK count : count = L + z
    OBVIOUS
  <1>81. count \in Nat /\ count = Max({P, L})
    <2>1. Max({P, L}) = IF P >= L THEN P ELSE L
      BY MaxTwo
    <2> QED
      BY <1>2, <1>6, <1>8, <2>1
  <1>9. PICK s : s = D \o Z
    OBVIOUS
  <1>91. /\ s \in Seq(S) /\ Len(s) = count
         /\ \A k \in 1 .. L : s[k] = D[k]
         /\ \A k \in 1 .. z : s[L + k] = Z[k]
    <2>1. Concatenation(s, D, Z, S)
      BY <1>71, <1>9, ConcatFacts, Zenon
    <2> QED
      BY <2>1, <1>3, <1>71, <1>8, Zenon DEF Concatenation
  <1>10. ASSUME NEW k \in 1 .. count
         PROVE  s[(count - k) + 1] = alphabet[((num \div Power(radix, count - k)) % radix) + 1]
    <2>1. PICK i \in Nat : i = count - k
      BY <1>81
    <2>2. CASE i + 1 <= L
      <3>1. i + 1 \in 1 .. L /\ (i + 1) - 1 = i
        BY <2>2
      <3>2. s[i + 1] = D[i + 1]
        BY <1>91, <3>1, Zenon
      <3>3. D[i + 1] = alphabet[((num \div Power(radix, (i + 1) - 1)) % radix) + 1]
        BY <1>2, <1>3, <3>1, Zenon DEF DigitRow
      <3> QED
        BY <2>1, <3>1, <3>2, <3>3, Zenon
    <2>3. CASE L < i + 1
      <3>1. PICK j \in 1 .. z : i + 1 = L + j
        <4>1. (i + 1) - L \in 1 .. z /\ i + 1 = L + ((i + 1) - L)
          BY <2>1, <2>3, <1>8, <1>61
        <4> QED
          BY <4>1
      <3>2. s[L + j] = Z[j]
        BY <1>91
      <3>3. num \div Power(radix, i) = 0
        <4>1. Power(radix, L) <= Power(radix, i)
          BY <2>3, PowerGrows
        <4>2. PICK p \in Nat \ {0}, q \in Nat \ {0} : p = Power(radix, i) /\ q = Power(radix, L)
          <5>1. radix \in Nat \ {0}
            OBVIOUS
          <5>2. Power(radix, i) \in Nat \ {0} /\ Power(radix, L) \in Nat \ {0}
            BY <5>1, PowerPositive, Zenon
          <5> QED
            BY <5>2, Zenon
        <4>3. PICK N \in Nat : N = num
          BY PowerPositive, ArithmeticAssumption
        <4>4. N < p
          BY <1>2, <4>1, <4>2, <4>3
        <4>5. N \div p = 0
          BY <4>4
        <4> QED
          BY <4>2, <4>3, <4>5, Zenon
      <3>4. 0 % radix = 0 /\ 0 + 1 = 1
        OBVIOUS
      <3> QED
        BY <2>1, <3>1, <3>2, <3>3, <3>4, <1>71, Zenon
    <2> QED
      BY <2>1, <2>2, <2>3
  <1>11. Reverse(s) = [k \in 1 .. count |-> s[(count - k) + 1]]
    BY <1>91, Zenon DEF Reverse
  <1>12. Numeral(num, radix, P, alphabet) =
           [k \in 1 .. count |-> alphabet[((num \div Power(radix, count - k)) % radix) + 1]]
    BY <1>2, <1>81, Zenon DEF Numeral, Places
  <1>13. Reverse(s) = Numeral(num, radix, P, alphabet)
    BY <1>10, <1>11, <1>12, Zenon
  <1> QED
    BY <1>1, <1>4, <1>7, <1>9, <1>91, <1>13, Zenon

\* Padding is what C prescribes, on the right side and with the right
\* character.
Fill(flags) == IF "0" \in flags THEN "0" ELSE " "

\* _format_output pads to the width, on the side the flags say.
LEMMA PaddedExact ==
  ASSUME NEW S, NEW output \in Seq(S), NEW flags, Fill(flags) \in S, NEW width \in Nat
  PROVE  /\ FormatOutput(output, flags, width) = Padded(output, flags, width)
         /\ FormatOutput(output, flags, width) \in Seq(S)
  <1>1. PICK n \in Nat : n = Len(output)
    OBVIOUS
  <1>2. PICK char \in S : char = Fill(flags)
    OBVIOUS
  <1>3. PICK z \in Nat : z = IF width < n THEN 0 ELSE width - n
    <2>1. CASE width < n
      BY <2>1
    <2>2. CASE ~ (width < n)
      <3>1. width - n \in Nat
        BY <2>2
      <3> QED
        BY <2>2, <3>1
    <2> QED
      BY <2>1, <2>2
  <1>4. PICK total \in Nat : total = n + z
    OBVIOUS
  <1>5. Max({width, Len(output)}) = total
    <2>1. Max({width, n}) = IF width >= n THEN width ELSE n
      BY MaxTwo
    <2>2. total = IF width >= n THEN width ELSE n
      BY <1>3, <1>4
    <2> QED
      BY <1>1, <2>1, <2>2, Zenon
  <1>6. PICK fill : fill = Repeat(char, z)
    OBVIOUS
  <1>7. fill \in Seq(S) /\ Len(fill) = z /\ \A k \in 1 .. z : fill[k] = char
    BY <1>6, RepeatFacts, Zenon
  <1>8. FormatOutput(output, flags, width) =
            IF "-" \in flags THEN output \o fill ELSE fill \o output
    BY <1>1, <1>2, <1>3, <1>6, Zenon DEF FormatOutput, Justified, Fill
  <1>9. DOMAIN output = 1 .. n
    BY <1>1
  <1>10. PICK shift : shift = IF "-" \in flags THEN 0 ELSE total - n
    OBVIOUS
  <1>11. Padded(output, flags, width) =
           [k \in 1 .. total |-> IF k - shift \in 1 .. n THEN output[k - shift] ELSE char]
    BY <1>1, <1>2, <1>5, <1>9, <1>10, Zenon DEF Padded, Fill
  <1>12. CASE "-" \in flags
    <2>1. PICK w : w = output \o fill
      OBVIOUS
    <2>2. Concatenation(w, output, fill, S)
      BY <2>1, <1>7, ConcatFacts, Zenon
    <2>3. /\ w \in Seq(S) /\ Len(w) = n + z
          /\ \A k \in 1 .. n : w[k] = output[k]
          /\ \A k \in 1 .. z : w[n + k] = fill[k]
      BY <2>2, <1>1, <1>7, Zenon DEF Concatenation
    <2>4. shift = 0
      BY <1>10, <1>12
    <2>5. ASSUME NEW k \in 1 .. total
          PROVE  w[k] = IF k - shift \in 1 .. n THEN output[k - shift] ELSE char
      <3>1. CASE k <= n
        <4>1. k - shift = k /\ k \in 1 .. n
          BY <2>4, <3>1
        <4> QED
          BY <4>1, <2>3, Zenon
      <3>2. CASE k > n
        <4>1. PICK j \in 1 .. z : k = n + j
          <5>1. k - n \in 1 .. z /\ k = n + (k - n)
            BY <3>2, <1>4
          <5> QED
            BY <5>1
        <4>2. ~ (k - shift \in 1 .. n)
          BY <2>4, <3>2
        <4> QED
          BY <4>1, <4>2, <2>3, <1>7, Zenon
      <3> QED
        BY <3>1, <3>2
    <2>6. w = [k \in 1 .. total |-> w[k]]
      <3>1. DOMAIN w = 1 .. total /\ w = [k \in DOMAIN w |-> w[k]]
        BY <2>3, <1>4
      <3> QED
        BY <3>1, Zenon
    <2>7. w = Padded(output, flags, width)
      BY <2>5, <2>6, <1>11, Zenon
    <2> QED
      BY <2>1, <2>3, <2>7, <1>8, <1>12, Zenon
  <1>13. CASE ~ ("-" \in flags)
    <2>1. PICK w : w = fill \o output
      OBVIOUS
    <2>2. Concatenation(w, fill, output, S)
      BY <2>1, <1>7, ConcatFacts, Zenon
    <2>3. /\ w \in Seq(S) /\ Len(w) = z + n
          /\ \A k \in 1 .. z : w[k] = fill[k]
          /\ \A k \in 1 .. n : w[z + k] = output[k]
      BY <2>2, <1>1, <1>7, Zenon DEF Concatenation
    <2>4. shift = z
      BY <1>10, <1>13, <1>4
    <2>5. ASSUME NEW k \in 1 .. total
          PROVE  w[k] = IF k - shift \in 1 .. n THEN output[k - shift] ELSE char
      <3>1. CASE k <= z
        <4>1. ~ (k - shift \in 1 .. n) /\ k \in 1 .. z
          BY <2>4, <3>1
        <4> QED
          BY <4>1, <2>3, <1>7, Zenon
      <3>2. CASE k > z
        <4>1. PICK j \in 1 .. n : k = z + j
          <5>1. k - z \in 1 .. n /\ k = z + (k - z)
            BY <3>2, <1>4
          <5> QED
            BY <5>1
        <4>2. k - shift = j
          BY <2>4, <4>1
        <4> QED
          BY <4>1, <4>2, <2>3, Zenon
      <3> QED
        BY <3>1, <3>2
    <2>6. w = [k \in 1 .. total |-> w[k]]
      <3>1. Len(w) = total
        BY <2>3, <1>4
      <3>2. DOMAIN w = 1 .. total /\ w = [k \in DOMAIN w |-> w[k]]
        BY <2>3, <3>1
      <3> QED
        BY <3>2, Zenon
    <2>7. w = Padded(output, flags, width)
      BY <2>5, <2>6, <1>11, Zenon
    <2> QED
      BY <2>1, <2>3, <2>7, <1>8, <1>13, Zenon
  <1> QED
    BY <1>12, <1>13

\* The alphabet of _ntoa.
Alphabet(hcase) == IF hcase THEN UpperCase ELSE LowerCase

\* Both alphabets start with zero and can be shown.
LEMMA AlphabetFacts ==
  ASSUME NEW hcase, NEW radix \in 1 .. 16
  PROVE  Alphabet(hcase)[1] = "0" /\ Figures(radix, Alphabet(hcase)) \subseteq Printable
  <1>1. LowerCase[1] = "0" /\ UpperCase[1] = "0"
    BY DEF LowerCase, UpperCase
  <1>2. ASSUME NEW i \in 1 .. radix PROVE LowerCase[i] \in Printable /\ UpperCase[i] \in Printable
    <2>1. i \in 1 .. 16
      OBVIOUS
    <2> QED
      BY <2>1, Zenon DEF Printable
  <1> QED
    BY <1>1, <1>2, Zenon DEF Alphabet, Figures

\* A sign is one character at most, and its own reverse.
LEMMA SignFacts ==
  ASSUME NEW flags, NEW negative
  PROVE  Sign(flags, negative) \in Seq(Printable)
             /\ Reverse(Sign(flags, negative)) = Sign(flags, negative)
  <1>1. PICK S : S = Printable
    OBVIOUS
  <1>2. ASSUME NEW x \in S PROVE <<x>> \in Seq(S) /\ Reverse(<<x>>) = <<x>>
    BY DEF Reverse
  <1>3. <<>> \in Seq(S) /\ Reverse(<<>>) = <<>>
    BY DEF Reverse
  <1>4. "-" \in S /\ "+" \in S /\ " " \in S
    BY <1>1 DEF Printable
  <1> QED
    BY <1>1, <1>2, <1>3, <1>4, Zenon DEF Sign

\* The prefix in reading order.
Mark(flags, radix, hcase) == Reverse(Prefix(flags, radix, hcase))

\* The mark comes out forwards.
LEMMA PrefixFacts ==
  ASSUME NEW flags, NEW radix, NEW hcase
  PROVE  /\ Prefix(flags, radix, hcase) \in Seq(Printable)
         /\ "#" \notin flags => Mark(flags, radix, hcase) = <<>>
         /\ "#" \in flags /\ radix = 16 =>
              Mark(flags, radix, hcase) = IF hcase THEN <<"0", "X">> ELSE <<"0", "x">>
  <1>1. PICK S : S = Printable
    OBVIOUS
  <1>2. ASSUME NEW x \in S, NEW y \in S
        PROVE  <<x, y>> \in Seq(S) /\ Reverse(<<x, y>>) = <<y, x>> /\ <<x>> \in Seq(S)
    BY DEF Reverse
  <1>3. <<>> \in Seq(S) /\ Reverse(<<>>) = <<>>
    BY DEF Reverse
  <1>4. "x" \in S /\ "X" \in S /\ "0" \in S
    BY <1>1 DEF Printable
  <1>5. Prefix(flags, radix, hcase) \in Seq(S)
    BY <1>2, <1>3, <1>4, Zenon DEF Prefix
  <1>6. ASSUME "#" \notin flags PROVE Mark(flags, radix, hcase) = <<>>
    BY <1>3, <1>6, Zenon DEF Mark, Prefix
  <1>7. ASSUME "#" \in flags, radix = 16
        PROVE  Mark(flags, radix, hcase) = IF hcase THEN <<"0", "X">> ELSE <<"0", "x">>
    <2>1. CASE hcase
      <3>1. Prefix(flags, radix, hcase) = <<"X", "0">>
        BY <1>7, <2>1, Zenon DEF Prefix
      <3> QED
        BY <1>2, <1>4, <2>1, <3>1, Zenon DEF Mark
    <2>2. CASE ~ hcase
      <3>1. Prefix(flags, radix, hcase) = <<"x", "0">>
        BY <1>7, <2>2, Zenon DEF Prefix
      <3> QED
        BY <1>2, <1>4, <2>2, <3>1, Zenon DEF Mark
    <2> QED
      BY <2>1, <2>2
  <1> QED
    BY <1>1, <1>5, <1>6, <1>7, Zenon

\* A whole number, with P digits or as many as it needs.
Number(num, negative, radix, flags, P, hcase) ==
  (Sign(flags, negative) \o Mark(flags, radix, hcase)) \o Numeral(num, radix, P, Alphabet(hcase))

\* _ntoa makes sign, mark and numeral.
LEMMA NtoaExact ==
  ASSUME NEW radix \in 2 .. 16, NEW num \in 0 .. (Power(2, MAXBITS) - 1), NEW negative, NEW flags,
         NEW hcase,
         NEW precision \in Nat, NEW P \in Nat, P = precision \/ (precision = 0 /\ P = 1)
  PROVE  /\ Ntoa(num, negative, radix, flags, precision, hcase) \in Seq(Printable)
         /\ Ntoa(num, negative, radix, flags, precision, hcase) =
              Number(num, negative, radix, flags, P, hcase)
  <1>1. PICK S : S = Printable
    OBVIOUS
  <1>2. PICK d, p, s, m :
          /\ d = Digits(num, radix, Alphabet(hcase))
                   \o Zeros(Digits(num, radix, Alphabet(hcase)), precision)
          /\ p = Prefix(flags, radix, hcase) /\ s = Sign(flags, negative)
          /\ m = Mark(flags, radix, hcase)
    OBVIOUS
  <1>3. Ntoa(num, negative, radix, flags, precision, hcase) = Reverse((d \o p) \o s)
    BY <1>2, Zenon DEF Ntoa, Zeros, Alphabet
  <1>4. d \in Seq(S) /\ Reverse(d) = Numeral(num, radix, P, Alphabet(hcase))
    <2>1. radix \in Nat /\ radix > 1 /\ radix \in 1 .. 16
      OBVIOUS
    <2>2. Alphabet(hcase)[1] = "0" /\ Figures(radix, Alphabet(hcase)) \subseteq Printable
      BY <2>1, AlphabetFacts, Zenon
    <2>3. d \in Seq(Figures(radix, Alphabet(hcase)))
              /\ Reverse(d) = Numeral(num, radix, P, Alphabet(hcase))
      <3>1. PICK A : A = Alphabet(hcase)
        OBVIOUS
      <3>2. A[1] = "0"
        BY <2>2, <3>1, Zenon
      <3>3. /\ Digits(num, radix, A) \o Zeros(Digits(num, radix, A), precision)
                 \in Seq(Figures(radix, A))
            /\ Reverse(Digits(num, radix, A) \o Zeros(Digits(num, radix, A), precision)) =
                 Numeral(num, radix, P, A)
        <4> QED
          BY <2>1, <3>2, NumeralExact
      <3> QED
        BY <1>2, <3>1, <3>3, Zenon
    <2>4. d \in Seq(S)
      <3>1. PICK F : F = Figures(radix, Alphabet(hcase))
        OBVIOUS
      <3>2. F \subseteq S /\ d \in Seq(F)
        BY <1>1, <2>2, <2>3, <3>1, Zenon
      <3> QED
        BY <3>2
    <2> QED
      BY <2>3, <2>4
  <1>5. p \in Seq(S) /\ Reverse(p) = m /\ s \in Seq(S) /\ Reverse(s) = s
    BY <1>1, <1>2, PrefixFacts, SignFacts, Zenon DEF Mark
  <1>6. d \o p \in Seq(S) /\ (d \o p) \o s \in Seq(S)
    BY <1>4, <1>5, ConcatType, Zenon
  <1>7. Reverse((d \o p) \o s) = Reverse(s) \o Reverse(d \o p)
            /\ Reverse(d \o p) = Reverse(p) \o Reverse(d)
    BY <1>4, <1>5, <1>6, ReverseConcat, Zenon
  <1>8. Reverse(s) \in Seq(S) /\ Reverse(p) \in Seq(S) /\ Reverse(d) \in Seq(S)
            /\ Reverse((d \o p) \o s) \in Seq(S)
    BY <1>4, <1>5, <1>6, ReverseFacts, Zenon
  <1>9. Reverse(s) \o (Reverse(p) \o Reverse(d)) = (Reverse(s) \o Reverse(p)) \o Reverse(d)
    <2>1. Regroups(Reverse(s), Reverse(p), Reverse(d))
      BY <1>8, ConcatRegroups
    <2> QED
      BY <2>1, Zenon DEF Regroups
  <1> QED
    BY <1>1, <1>2, <1>3, <1>4, <1>5, <1>7, <1>8, <1>9, Zenon DEF Number

\* In a radix of 8 or more, no number has more digits than num_buffer has room for.
LEMMA PlacesFew ==
  ASSUME NEW radix \in Nat, radix >= 8, NEW num \in 0 .. (Power(2, MAXBITS) - 1)
  PROVE  Places(num, radix) \in Nat /\ Places(num, radix) + 3 <= NUM_BUFFER
  <1>1. PICK m : m = NUM_BUFFER - 3
    OBVIOUS
  <1>2. m \in Nat /\ m + 3 = NUM_BUFFER /\ MAXBITS \in Nat \ {0}
    BY <1>1, FormatAssumption, ArithmeticAssumption
  <1>3. PICK P, E, R : P = Power(2, MAXBITS) /\ E = Power(8, m) /\ R = Power(radix, m)
    OBVIOUS
  <1>4. P <= E
    BY <1>1, <1>3, FormatAssumption, Zenon
  <1>5. E <= R
    <2>1. 8 \in Nat
      OBVIOUS
    <2> QED
      BY <1>2, <1>3, <2>1, PowerBase
  <1>6. P \in Nat /\ E \in Nat /\ R \in Nat
    <2>1. 2 \in Nat \ {0} /\ 8 \in Nat \ {0} /\ radix \in Nat \ {0} /\ MAXBITS \in Nat
      BY <1>2
    <2>2. P \in Nat \ {0} /\ E \in Nat \ {0} /\ R \in Nat \ {0}
      BY <1>2, <1>3, <2>1, PowerPositive, Zenon
    <2> QED
      BY <2>2
  <1>7. num < R
    <2>1. num \in 0 .. (P - 1)
      BY <1>3, Zenon
    <2> QED
      BY <1>4, <1>5, <1>6, <2>1
  <1>8. PICK L : L = Places(num, radix)
    OBVIOUS
  <1>9. L \in 1 .. MAXBITS /\ \A l \in 1 .. MAXBITS : num < Power(radix, l) => L <= l
    <2>1. radix > 1
      OBVIOUS
    <2> QED
      BY <1>8, <2>1, PlacesFacts
  <1>10. L <= m
    <2>1. CASE m \in 1 .. MAXBITS
      BY <1>3, <1>7, <1>9, <2>1
    <2>2. CASE m = 0
      <3>1. R = 1
        BY <1>3, <2>2, PowerFacts
      <3>2. num = 0 /\ num < Power(radix, 1)
        <4>1. Power(radix, 0 + 1) = radix * Power(radix, 0)
          BY PowerFacts
        <4>2. Power(radix, 0) = 1 /\ 0 + 1 = 1
          BY PowerFacts
        <4>3. num = 0
          BY <1>3, <1>6, <1>7, <3>1
        <4> QED
          BY <4>1, <4>2, <4>3
      <3>3. P = 1
        <4>1. P <= 1 /\ P \in Nat \ {0}
          <5>1. 2 \in Nat \ {0} /\ MAXBITS \in Nat
            BY <1>2
          <5>2. P \in Nat \ {0}
            BY <1>3, <5>1, PowerPositive, Zenon
          <5>3. E = 1
            BY <1>3, <2>2, PowerFacts
          <5> QED
            BY <1>4, <5>2, <5>3
        <4> QED
          BY <4>1
      <3>4. P >= 2
        <4>1. Power(2, 0 + 1) = 2 * Power(2, 0) /\ Power(2, 0) = 1 /\ 0 + 1 = 1
          BY PowerFacts
        <4>2. Power(2, 1) <= Power(2, MAXBITS)
          <5>1. 1 \in Nat /\ MAXBITS \in Nat /\ 1 <= MAXBITS /\ 2 \in Nat /\ 2 > 1
            BY <1>2
          <5> QED
            BY <5>1, PowerGrows
        <4> QED
          BY <1>3, <4>1, <4>2
      <3> QED
        BY <3>3, <3>4
    <2>3. CASE m > MAXBITS
      BY <1>2, <1>9, <2>3
    <2> QED
      BY <1>2, <2>1, <2>2, <2>3
  <1> QED
    BY <1>2, <1>8, <1>9, <1>10

\* With the room a precision leaves, _ntoa stays inside num_buffer.
LEMMA NtoaFits ==
  ASSUME NEW radix \in {8, 10, 16}, NEW num \in 0 .. (Power(2, MAXBITS) - 1), NEW negative,
         NEW flags, NEW hcase, NEW precision \in Nat, precision + 3 <= NUM_BUFFER
  PROVE  Len(Ntoa(num, negative, radix, flags, precision, hcase)) <= NUM_BUFFER
  <1>1. PICK S : S = Printable \cup Figures(radix, Alphabet(hcase))
    OBVIOUS
  <1>2. PICK D, z, p, s : /\ D = Digits(num, radix, Alphabet(hcase))
                          /\ z = Zeros(D, precision)
                          /\ p = Prefix(flags, radix, hcase) /\ s = Sign(flags, negative)
    OBVIOUS
  <1>3. Ntoa(num, negative, radix, flags, precision, hcase) = Reverse(((D \o z) \o p) \o s)
    BY <1>2, Zenon DEF Ntoa, Zeros, Alphabet
  <1>4. D \in Seq(S) /\ Len(D) + 3 <= NUM_BUFFER
    <2>1. radix \in Nat /\ radix >= 8 /\ radix > 1
      OBVIOUS
    <2>2. PICK A, F : A = Alphabet(hcase) /\ F = Figures(radix, A)
      OBVIOUS
    <2>3. Digits(num, radix, A) = DigitRow(num, radix, A)
      BY <2>1, DigitsExact
    <2>4. /\ DigitRow(num, radix, A) \in Seq(F)
          /\ Len(DigitRow(num, radix, A)) = Places(num, radix)
      BY <2>1, <2>2, DigitRowType
    <2>5. Places(num, radix) \in Nat /\ Places(num, radix) + 3 <= NUM_BUFFER
      BY <2>1, PlacesFew
    <2>6. D \in Seq(F) /\ F \subseteq S
      BY <1>1, <1>2, <2>2, <2>3, <2>4, Zenon
    <2>7. D \in Seq(S)
      BY <2>6
    <2>8. Len(D) = Places(num, radix)
      BY <1>2, <2>2, <2>3, <2>4, Zenon
    <2> QED
      BY <2>5, <2>7, <2>8
  <1>5. z \in Seq(S) /\ Len(D) + Len(z) + 3 <= NUM_BUFFER
    <2>1. "0" \in S
      BY <1>1, Zenon DEF Printable
    <2>2. CASE Len(D) < precision
      <3>1. precision - Len(D) \in Nat
        BY <1>4, <2>2
      <3>2. z = Repeat("0", precision - Len(D))
        BY <1>2, <2>2, Zenon DEF Zeros
      <3>3. z \in Seq(S) /\ Len(z) = precision - Len(D)
        BY <2>1, <3>1, <3>2, RepeatFacts
      <3> QED
        BY <1>4, <3>3
    <2>3. CASE ~(Len(D) < precision)
      <3>1. z = <<>>
        BY <1>2, <2>3, Zenon DEF Zeros
      <3> QED
        BY <1>4, <3>1
    <2> QED
      BY <2>2, <2>3
  <1>6. p \in Seq(S) /\ Len(p) <= 2
    <2>1. p \in Seq(Printable)
      BY <1>2, PrefixFacts
    <2>2. \/ p = <<>> \/ p = <<"X", "0">> \/ p = <<"x", "0">> \/ p = <<"0">>
      BY <1>2, Zenon DEF Prefix
    <2>4. Len(p) <= 2
      <3>1. Len(<<>>) = 0 /\ Len(<<"X", "0">>) = 2 /\ Len(<<"x", "0">>) = 2 /\ Len(<<"0">>) = 1
        OBVIOUS
      <3>2. PICK l : l = Len(p)
        OBVIOUS
      <3>3. l = 0 \/ l = 1 \/ l = 2
        BY <2>2, <3>1, <3>2, Zenon
      <3>4. l <= 2
        BY <3>3
      <3> QED
        BY <3>2, <3>4, Zenon
    <2>3. p \in Seq(S)
      <3>1. Printable \subseteq S
        BY <1>1
      <3> QED
        BY <2>1, <3>1
    <2> QED
      BY <2>3, <2>4
  <1>7. s \in Seq(S) /\ Len(s) <= 1
    <2>1. s \in Seq(Printable)
      BY <1>2, SignFacts
    <2>2. \/ s = <<>> \/ s = <<"-">> \/ s = <<"+">> \/ s = <<" ">>
      BY <1>2, Zenon DEF Sign
    <2>4. Len(s) <= 1
      <3>1. Len(<<>>) = 0 /\ Len(<<"-">>) = 1 /\ Len(<<"+">>) = 1 /\ Len(<<" ">>) = 1
        OBVIOUS
      <3>2. PICK l : l = Len(s)
        OBVIOUS
      <3>3. l = 0 \/ l = 1
        BY <2>2, <3>1, <3>2, Zenon
      <3>4. l <= 1
        BY <3>3
      <3> QED
        BY <3>2, <3>4, Zenon
    <2>3. s \in Seq(S)
      <3>1. Printable \subseteq S
        BY <1>1
      <3> QED
        BY <2>1, <3>1
    <2> QED
      BY <2>3, <2>4
  <1>8. PICK w : w = ((D \o z) \o p) \o s
    OBVIOUS
  <1>9. w \in Seq(S) /\ Len(w) = Len(D) + Len(z) + Len(p) + Len(s)
    BY <1>4, <1>5, <1>6, <1>7, <1>8
  <1>10. Len(Reverse(w)) = Len(w)
    BY <1>9, ReverseFacts
  <1>11. Len(w) <= NUM_BUFFER
    <2>1. Len(D) \in Nat /\ Len(z) \in Nat /\ Len(p) \in Nat /\ Len(s) \in Nat /\ NUM_BUFFER \in Int
      BY <1>4, <1>5, <1>6, <1>7, FormatAssumption
    <2> QED
      BY <1>5, <1>6, <1>7, <1>9, <2>1
  <1> QED
    BY <1>3, <1>8, <1>10, <1>11, Zenon

-----------------------------------------------------------------------------
(***************************************************************************)
(* The items of a format.                                                  *)
(***************************************************************************)
\* Every item has its arguments, and num_buffer room for its numeral.
Ready(c, first) ==
  Positions(c, first) /\ \A k \in DOMAIN c.format : Roomy(c, first, k)

\* Where _vsnprintf is, and what it may have put out.
ParseInv ==
  /\ call \in Calls
  /\ at \in 1 .. (Len(call.format) + 1)
  /\ \E first : Ready(call, first) /\ arg = first[at]
  /\ text \in Seq(Printable)
  /\ phase \in {"format", "returned"}
  /\ phase = "returned" => at = Len(call.format) + 1

\* What the assumption says of a call.
LEMMA CallFacts ==
  ASSUME NEW c \in Calls
  PROVE  /\ c.n \in Nat /\ c.format \in Seq(Directives) /\ c.args \in Seq(Arguments)
         /\ \E first : Ready(c, first)
  BY FormatAssumption, Zenon DEF Ready

\* What ParseInv says of the types.
LEMMA ParseTypes ==
  ASSUME ParseInv
  PROVE  /\ call.n \in Nat /\ call.format \in Seq(Directives) /\ call.args \in Seq(Arguments)
         /\ at \in Nat /\ arg \in 1 .. (Len(call.args) + 1) /\ arg \in Nat
  <1>1. call.n \in Nat /\ call.format \in Seq(Directives) /\ call.args \in Seq(Arguments)
    BY CallFacts DEF ParseInv
  <1>2. PICK first : Ready(call, first) /\ arg = first[at]
    BY DEF ParseInv
  <1>3. arg \in 1 .. (Len(call.args) + 1)
    BY <1>2, Zenon DEF Ready, Positions, ParseInv
  <1>4. Len(call.format) \in Nat /\ Len(call.args) \in Nat
    BY <1>1
  <1> QED
    BY <1>1, <1>3, <1>4 DEF ParseInv

\* An item is there, and so are the arguments it takes.
LEMMA TakenFacts ==
  ASSUME ParseInv, Formatting
  PROVE  /\ at \in 1 .. Len(call.format) /\ Item \in Directives
         /\ Stars \in {0, 1, 2} /\ Taken(Item) \in {0, Stars, Stars + 1}
         /\ arg + Taken(Item) \in 1 .. (Len(call.args) + 1)
  <1>1. at \in 1 .. Len(call.format) /\ Item \in Directives
    BY ParseTypes DEF Formatting, Item
  <1>2. Stars \in {0, 1, 2}
    BY DEF Stars, StarsOf
  <1>3. Taken(Item) \in {0, Stars, Stars + 1}
    BY <1>2 DEF Taken, Stars, StarsOf
  <1>4. PICK first : Ready(call, first) /\ arg = first[at]
    BY DEF ParseInv
  <1>5. first[at + 1] = arg + Taken(Item)
    BY <1>4, Zenon DEF Ready, Positions, Formatting, Item
  <1>6. at + 1 \in 1 .. (Len(call.format) + 1)
    BY <1>1, ParseTypes
  <1>7. first[at + 1] \in 1 .. (Len(call.args) + 1)
    BY <1>4, <1>6, Zenon DEF Ready, Positions
  <1> QED
    BY <1>1, <1>2, <1>3, <1>5, <1>7

\* An item's arguments are there, and have the types it needs.
LEMMA ItemFacts ==
  ASSUME ParseInv, Formatting, Item.spec # "literal"
  PROVE  /\ Width \in Nat /\ Taken(Item) \in {Stars, Stars + 1}
         /\ Taken(Item) = Stars + 1 => Value \in Arguments
         /\ Precision \in Nat
  <1>1. call.args \in Seq(Arguments) /\ arg \in Nat /\ arg >= 1 /\ Len(call.args) \in Nat
    BY ParseTypes
  <1>2. Taken(Item) \in {Stars, Stars + 1} /\ Stars \in {0, 1, 2}
    BY TakenFacts DEF Taken, Stars, StarsOf
  <1>3. ASSUME NEW i \in Nat, i < Taken(Item)
        PROVE  call.args[arg + i] \in Arguments
    <2>1. Taken(Item) \in Nat /\ arg + Taken(Item) <= Len(call.args) + 1
      BY <1>1, TakenFacts
    <2>2. arg + i \in 1 .. Len(call.args)
      BY <1>1, <1>3, <2>1
    <2> QED
      BY <1>1, <2>2
  <1>4. \A a \in Arguments : a.num \in Int
    BY DEF Arguments
  <1>5. Item.width \in Nat \cup {STAR} /\ Item.precision \in Nat \cup {STAR, NONE}
    BY TakenFacts DEF Directives
  <1>6. Width \in Nat
    <2> UINT16 \in Nat \ {0}
      BY FormatAssumption
    <2>1. CASE Item.width # STAR
      <3>1. Item.width \in Int
        BY <1>5, <2>1
      <3> QED
        BY <2>1, <3>1 DEF Width
    <2>2. CASE Item.width = STAR
      <3>1. Stars >= 1
        BY <2>2 DEF Stars, StarsOf
      <3>2. 0 < Taken(Item)
        BY <3>1, <1>2
      <3>3. call.args[arg + 0] \in Arguments
        BY <3>2, <1>3
      <3>4. arg + 0 = arg
        BY <1>1
      <3>5. StarWidth \in Int
        BY <3>4, <1>4, <3>3 DEF StarWidth
      <3> QED
        BY <2>2, <3>5 DEF Width
    <2> QED
      BY <2>1, <2>2
  <1>7. Taken(Item) = Stars + 1 => Value \in Arguments
    <2>1. SUFFICES ASSUME Taken(Item) = Stars + 1
                   PROVE  Value \in Arguments
      OBVIOUS
    <2>2. Stars \in Nat /\ Stars < Taken(Item)
      BY <2>1, <1>2
    <2>3. call.args[arg + Stars] \in Arguments
      BY <2>2, <1>3
    <2> QED
      BY <2>3 DEF Value
  <1>8. Precision \in Nat
    <2>1. CASE Item.precision = STAR
      <3>1. Stars \in Nat /\ Stars >= 1
        BY <1>2, <2>1 DEF Stars, StarsOf
      <3>2. PICK j \in Nat : j = Stars - 1
        BY <3>1
      <3>3. j < Taken(Item)
        BY <3>1, <3>2, <1>2
      <3>4. call.args[arg + j] \in Arguments
        BY <3>3, <1>3
      <3>5. arg + Stars - 1 = arg + j
        BY <3>1, <3>2, <1>1
      <3>6. StarPrecision \in Int
        BY <1>4, <3>4, <3>5 DEF StarPrecision
      <3> QED
        <4>1. Item.precision # NONE
          BY <2>1 DEF STAR, NONE
        <4>2. Precision = IF StarPrecision < 0 THEN 0 ELSE StarPrecision % UINT16
          BY <2>1, <4>1, Zenon DEF Precision, Held
        <4> QED
          BY <3>6, <4>2, FormatAssumption
    <2>2. CASE Item.precision = NONE
      <3>1. Item.precision # STAR
        BY <2>2 DEF STAR, NONE
      <3>2. Precision = 0
        BY <2>2, <3>1, Zenon DEF Precision, Held
      <3> QED
        BY <3>2
    <2>3. CASE Item.precision \in Nat
      <3>1. Item.precision # STAR /\ Item.precision # NONE
        BY <2>3 DEF STAR, NONE
      <3>2. Precision = Item.precision % UINT16
        BY <3>1, Zenon DEF Precision, Held
      <3> QED
        BY <2>3, <3>2, FormatAssumption
    <2> QED
      BY <1>5, <2>1, <2>2, <2>3
  <1> QED
    BY <1>2, <1>6, <1>7, <1>8

\* The zeros a number asks for leave room for prefix and sign.
LEMMA RoomFacts ==
  ASSUME ParseInv, Formatting, Item.spec \in Numeric
  PROVE  Precision + 3 <= NUM_BUFFER
  <1>1. PICK first : Ready(call, first) /\ arg = first[at]
    BY DEF ParseInv
  <1>2. Roomy(call, first, at)
    BY <1>1, Zenon DEF Ready, Formatting
  <1> QED
    BY <1>1, <1>2, Zenon DEF Roomy, Precision, StarPrecision, Stars, Item

LEMMA ModRange ==
  ASSUME NEW a \in Int, NEW n \in Nat \ {0}
  PROVE  a % n \in 0 .. (n - 1)
  OBVIOUS

\* A converted argument fits its type, and so uintmax_t.
LEMMA UnsignedRange ==
  ASSUME NEW num \in Int, NEW length \in DOMAIN Bits
  PROVE  /\ Unsigned(num, length) \in Nat
         /\ Unsigned(num, length) < Power(2, Bits[length])
         /\ Unsigned(num, length) \in 0 .. (Power(2, MAXBITS) - 1)
  <1>1. MAXBITS \in Nat /\ Bits[length] \in Nat /\ Bits[length] <= MAXBITS
    BY ArithmeticAssumption, FormatAssumption
  <1>2. PICK P, Q : P = Power(2, MAXBITS) /\ Q = Power(2, Bits[length])
    OBVIOUS
  <1>3. P \in Nat \ {0} /\ Q \in Nat \ {0}
    <2>1. 2 \in Nat \ {0}
      OBVIOUS
    <2> QED
      BY <1>1, <1>2, <2>1, PowerPositive, Zenon
  <1>4. Q <= P
    <2>1. 2 \in Nat /\ 2 > 1
      OBVIOUS
    <2> QED
      BY <1>1, <1>2, <2>1, PowerGrows, Zenon
  <1>5. Unsigned(num, length) \in 0 .. (Q - 1)
    BY <1>2, <1>3, ModRange, Zenon DEF Unsigned
  <1>6. Unsigned(num, length) \in Nat /\ Unsigned(num, length) < Q
            /\ Unsigned(num, length) \in 0 .. (P - 1)
    BY <1>3, <1>4, <1>5
  <1> QED
    BY <1>2, <1>6, Zenon

\* The magnitude a signed item is converted from.
Magnitude(num) == IF num < 0 THEN -num ELSE num

\* A signed argument's magnitude fits uintmax_t; it is C's number unless that is
\* negative and its type shorter than intmax_t.
LEMMA SignedFacts ==
  ASSUME NEW num \in Int, NEW length \in DOMAIN Bits
  PROVE  /\ Signed(num, length) \in Int
         /\ Magnitude(Signed(num, length)) \in 0 .. (Power(2, MAXBITS) - 1)
         /\ (SignedReference(num, length) < 0 => Bits[length] = MAXBITS)
              => Signed(num, length) = SignedReference(num, length)
  <1>1. MAXBITS \in Nat /\ Bits[length] \in Nat \ {0} /\ Bits[length] <= MAXBITS
    BY ArithmeticAssumption, FormatAssumption
  <1>2. PICK low, P, H, Q, G : /\ low = Unsigned(num, length)
                               /\ P = Power(2, MAXBITS) /\ H = Power(2, MAXBITS - 1)
                               /\ Q = Power(2, Bits[length]) /\ G = Power(2, Bits[length] - 1)
    OBVIOUS
  <1>3. low \in Nat /\ low < Q /\ low \in 0 .. (P - 1)
    BY <1>2, UnsignedRange, Zenon
  <1>4. /\ MAXBITS - 1 \in Nat /\ Bits[length] - 1 \in Nat /\ Bits[length] - 1 <= MAXBITS - 1
        /\ 2 \in Nat \ {0} /\ 2 \in Nat /\ 2 > 1 /\ Bits[length] \in Nat
    BY <1>1
  <1>5. P \in Nat \ {0} /\ H \in Nat \ {0} /\ Q \in Nat \ {0} /\ G \in Nat \ {0}
    BY <1>1, <1>2, <1>4, PowerPositive, Zenon
  <1>6. G <= H
    BY <1>2, <1>4, PowerGrows, Zenon
  <1>7. Signed(num, length) = IF low >= H THEN low - P ELSE low
    BY <1>2, Zenon DEF Signed
  <1>8. SignedReference(num, length) = IF low >= G THEN low - Q ELSE low
    BY <1>2, Zenon DEF SignedReference, Unsigned
  <1>9. P = 2 * H
    <2>1. Power(2, (MAXBITS - 1) + 1) = 2 * Power(2, MAXBITS - 1)
      BY <1>4, PowerFacts, Zenon
    <2>2. (MAXBITS - 1) + 1 = MAXBITS
      BY <1>1
    <2> QED
      BY <1>2, <2>1, <2>2, Zenon
  <1>10. PICK s, r : s = Signed(num, length) /\ r = SignedReference(num, length)
    OBVIOUS
  <1>11. s \in Int /\ Magnitude(s) \in 0 .. (P - 1)
    BY <1>3, <1>5, <1>7, <1>9, <1>10 DEF Magnitude
  <1>12. ASSUME r < 0 => Bits[length] = MAXBITS
         PROVE  s = r
    <2>1. CASE Bits[length] = MAXBITS
      <3>1. P = Q /\ G = H
        BY <1>2, <2>1, Zenon
      <3> QED
        BY <3>1, <1>3, <1>5, <1>7, <1>8, <1>10
    <2>2. CASE ~(r < 0)
      <3>1. low < G
        BY <2>2, <1>3, <1>5, <1>8, <1>10
      <3>2. ~(low >= G) /\ ~(low >= H)
        BY <3>1, <1>3, <1>5, <1>6
      <3> QED
        BY <3>2, <1>7, <1>8, <1>10, Zenon
    <2> QED
      BY <1>12, <2>1, <2>2
  <1> QED
    BY <1>2, <1>10, <1>11, <1>12, Zenon

-----------------------------------------------------------------------------
(***************************************************************************)
(* What C says of an item, in the terms of _ntoa and _format_output.       *)
(***************************************************************************)
LEMMA FillFacts ==
  ASSUME NEW flags
  PROVE  Fill(flags) \in Printable
  BY Zenon DEF Fill, Printable

LEMMA TextFacts ==
  Seq(Chars) \subseteq Seq(Printable)
  <1>1. Chars \subseteq Printable
    BY DEF Printable
  <1> QED
    BY <1>1

\* A number that is put out, with the fewest digits for P.
Written(num, negative, radix, flags, P, hcase, width) ==
  Padded(Number(num, negative, radix, flags, P, hcase), flags, width)

\* The digits a precision asks for; one is always there.
Least(precision) == IF precision = 0 THEN 1 ELSE precision

\* _ntoa and _format_output write the number C describes.
LEMMA NumberExact ==
  ASSUME NEW radix \in 2 .. 16, NEW num \in 0 .. (Power(2, MAXBITS) - 1), NEW negative, NEW flags,
         NEW hcase,
         NEW precision \in Nat, NEW width \in Nat
  PROVE  /\ FormatOutput(Ntoa(num, negative, radix, flags, precision, hcase), flags, width)
                  \in Seq(Printable)
         /\ FormatOutput(Ntoa(num, negative, radix, flags, precision, hcase), flags, width) =
              Written(num, negative, radix, flags, Least(precision), hcase, width)
  <1>1. PICK S : S = Printable
    OBVIOUS
  <1>2. PICK P \in Nat : P = Least(precision)
    BY DEF Least
  <1>3. P = precision \/ (precision = 0 /\ P = 1)
    BY <1>2 DEF Least
  <1>4. /\ Ntoa(num, negative, radix, flags, precision, hcase) \in Seq(Printable)
        /\ Ntoa(num, negative, radix, flags, precision, hcase) =
             Number(num, negative, radix, flags, P, hcase)
    BY <1>3, NtoaExact
  <1>5. PICK output \in Seq(S) : output = Ntoa(num, negative, radix, flags, precision, hcase)
    BY <1>1, <1>4, Zenon
  <1>6. Fill(flags) \in S
    BY <1>1, FillFacts, Zenon
  <1>7. /\ FormatOutput(output, flags, width) = Padded(output, flags, width)
        /\ FormatOutput(output, flags, width) \in Seq(S)
    BY <1>6, PaddedExact, Zenon
  <1> QED
    BY <1>1, <1>2, <1>4, <1>5, <1>7, Zenon DEF Written

LEMMA NoMark ==
  ASSUME NEW flags, NEW radix, NEW hcase, "#" \notin flags
  PROVE  Mark(flags, radix, hcase) = <<>>
  BY PrefixFacts

LEMMA NotNegative ==
  ASSUME NEW n \in Nat
  PROVE  ~(n < 0)
  OBVIOUS

\* Why Plain has no signs, no marks and no zeros but where they fit.
LEMMA ReferenceUnsigned ==
  ASSUME NEW d \in Directives, NEW v \in Arguments, d.spec \in {"u", "o", "x", "X"},
         "+" \notin d.flags, " " \notin d.flags, "#" \in d.flags => d.spec \in {"x", "X"},
         NEW P, P = IF d.precision = NONE THEN 1 ELSE d.precision
  PROVE  Reference(d, v) =
           Written(Unsigned(v.num, d.length), FALSE, Radix(d.spec), d.flags, P, d.spec = "X",
               d.width)
  <1>1. Unsigned(v.num, d.length) \in Nat
    <2>1. v.num \in Int /\ d.length \in DOMAIN Bits
      BY DEF Directives, Arguments
    <2> QED
      BY <2>1, UnsignedRange, Zenon
  <1>2. PICK num : num = Unsigned(v.num, d.length)
    OBVIOUS
  <1>3. ~(num < 0)
    <2>1. num \in Nat
      BY <1>1, <1>2, Zenon
    <2> QED
      BY <2>1, NotNegative, Zenon
  <1>4. Sign(d.flags, FALSE) = <<>>
    BY Zenon DEF Sign
  <1>5. d.spec \notin {"d", "i", "literal", "%", "n", "c", "s"}
    OBVIOUS
  <1>6. PICK mark, hcase : hcase = (d.spec = "X") /\ mark = Mark(d.flags, Radix(d.spec), hcase)
    OBVIOUS
  <1>7. mark = IF "#" \notin d.flags THEN <<>>
               ELSE CASE d.spec = "x" -> <<"0", "x">> [] d.spec = "X" -> <<"0", "X">>
                      [] OTHER -> <<>>
    <2>1. CASE "#" \notin d.flags
      <3>1. Mark(d.flags, Radix(d.spec), hcase) = <<>>
        BY <2>1, NoMark, Zenon
      <3> QED
        BY <1>6, <2>1, <3>1
    <2>2. CASE "#" \in d.flags
      <3>1. Radix(d.spec) = 16
        BY <2>2 DEF Radix
      <3>2. mark = IF d.spec = "X" THEN <<"0", "X">> ELSE <<"0", "x">>
        BY <1>6, <2>2, <3>1, PrefixFacts, Zenon
      <3> QED
        BY <2>2, <3>2
    <2> QED
      BY <2>1, <2>2
  <1>8. Radix(d.spec) = CASE d.spec \in {"d", "i", "u"} -> 10 [] d.spec = "o" -> 8 [] OTHER -> 16
    BY DEF Radix
  <1>9. PICK radix : radix = Radix(d.spec)
    OBVIOUS
  <1>10. Reference(d, v) =
           Padded((<<>> \o mark) \o Numeral(num, radix, P, Alphabet(hcase)), d.flags, d.width)
    BY <1>6, <1>2, <1>3, <1>5, <1>7, <1>8, <1>9 DEF Reference, Unsigned, Alphabet
  <1> QED
    BY <1>2, <1>4, <1>6, <1>9, <1>10, Zenon DEF Written, Number

\* Signs only for signed numbers, no marks.
LEMMA ReferenceSigned ==
  ASSUME NEW d \in Directives, NEW v \in Arguments, d.spec \in {"d", "i"}, "#" \notin d.flags,
         NEW P, P = IF d.precision = NONE THEN 1 ELSE d.precision
  PROVE  Reference(d, v) =
           Written(Magnitude(SignedReference(v.num, d.length)),
               SignedReference(v.num, d.length) < 0, 10,
                   d.flags, P, FALSE, d.width)
  <1>1. PICK num : num = SignedReference(v.num, d.length)
    OBVIOUS
  <1>2. PICK mark : mark = Mark(d.flags, 10, FALSE)
    OBVIOUS
  <1>3. mark = <<>>
    BY <1>2, PrefixFacts, Zenon
  <1>4. PICK sign : sign = Sign(d.flags, num < 0)
    OBVIOUS
  <1>5. sign = IF num < 0 THEN <<"-">>
               ELSE IF "+" \in d.flags THEN <<"+">> ELSE IF " " \in d.flags THEN <<" ">> ELSE <<>>
    BY <1>4, Zenon DEF Sign
  <1>6. d.spec \notin {"literal", "%", "n", "c", "s", "X"}
    OBVIOUS
  <1>7. Reference(d, v) =
          Padded((sign \o mark) \o Numeral(Magnitude(num), 10, P, Alphabet(FALSE)), d.flags, d.width)
    BY <1>1, <1>3, <1>5, <1>6 DEF Reference, Alphabet, Magnitude
  <1> QED
    BY <1>1, <1>2, <1>4, <1>7, Zenon DEF Written, Number

\* What C says of items that are not numbers.
LEMMA ReferenceCharacters ==
  ASSUME NEW d \in Directives, NEW v
  PROVE  /\ d.spec = "literal" => Reference(d, v) = <<d.char>>
         /\ d.spec = "%" => Reference(d, v) = <<"%">>
         /\ d.spec = "n" => Reference(d, v) = <<>>
         /\ d.spec \in {"c", "s"} => Reference(d, v) = Padded(v.str, d.flags, d.width)
  BY DEF Reference

\* A percent sign without width is not padded.
LEMMA PercentAlone ==
  ASSUME NEW flags
  PROVE  Padded(<<"%">>, flags, 0) = <<"%">>
  <1>1. PICK s : s = <<"%">>
    OBVIOUS
  <1>2. Len(s) = 1 /\ DOMAIN s = 1 .. 1 /\ s[1] = "%"
    BY <1>1
  <1>3. Max({0, Len(s)}) = 1
    BY <1>2, MaxTwo
  <1>4. Padded(s, flags, 0) = [k \in 1 .. 1 |-> "%"]
    BY <1>2, <1>3 DEF Padded
  <1> QED
    BY <1>1, <1>4

-----------------------------------------------------------------------------
(***************************************************************************)
(* The text of a plain call.                                               *)
(***************************************************************************)
\* A call TextExact speaks of.
PlainCall ==
  \A k \in DOMAIN call.format :
    Plain(k) /\ (Negative(k) => Bits[call.format[k].length] = MAXBITS)

\* What C says of item k.
Prescribed(k) ==
  IF Valued(call.format[k]) THEN Reference(call.format[k], call.args[ArgOf(k)])
  ELSE Reference(call.format[k], [num |-> 0, str |-> <<>>])

\* Every item before this one took the arguments C gives it.
InStep == arg = 1 + ArgOf(at - 1)

\* The argument of an item, from the one before.
LEMMA ArgOfFacts ==
  /\ ArgOf(0) = 0
  /\ \A k \in Nat \ {0} :
       /\ ArgOf(k - 1) \in Nat
       /\ ArgOf(k) = ArgOf(k - 1) + (IF Valued(call.format[k]) THEN 1 ELSE 0)
  <1>1. DEFINE V(k) == {j \in 1 .. k : Valued(call.format[j])}
  <1>2. ASSUME NEW k \in Nat
        PROVE  IsFiniteSet(V(k)) /\ Cardinality(V(k)) \in Nat
    <2>1. IsFiniteSet(1 .. k)
      BY FS_Interval
    <2>2. V(k) \subseteq 1 .. k
      OBVIOUS
    <2> QED
      BY <2>1, <2>2, FS_Subset, FS_CardinalityType
  <1>3. ArgOf(0) = 0
    <2>1. V(0) = {}
      OBVIOUS
    <2> QED
      BY <2>1, FS_EmptySet DEF ArgOf
  <1>4. ASSUME NEW k \in Nat \ {0}
        PROVE  /\ ArgOf(k - 1) \in Nat
               /\ ArgOf(k) = ArgOf(k - 1) + (IF Valued(call.format[k]) THEN 1 ELSE 0)
    <2>1. k - 1 \in Nat /\ k \in Nat
      OBVIOUS
    <2>2. IsFiniteSet(V(k - 1)) /\ Cardinality(V(k - 1)) \in Nat
      BY <1>2, <2>1
    <2>3. CASE Valued(call.format[k])
      <3>1. V(k) = V(k - 1) \cup {k} /\ k \notin V(k - 1)
        BY <2>1, <2>3
      <3>2. Cardinality(V(k)) = Cardinality(V(k - 1)) + 1
        BY <2>2, <3>1, FS_AddElement
      <3> QED
        BY <2>2, <2>3, <3>2 DEF ArgOf
    <2>4. CASE ~Valued(call.format[k])
      <3>1. V(k) = V(k - 1)
        BY <2>1, <2>4
      <3> QED
        BY <2>2, <2>4, <3>1 DEF ArgOf
    <2> QED
      BY <2>3, <2>4
  <1> QED
    BY <1>3, <1>4

\* An item of a plain call takes at most one argument, its own.
LEMMA PlainItem ==
  ASSUME ParseInv, Formatting, PlainCall, InStep
  PROVE  /\ Plain(at) /\ (Negative(at) => Bits[Item.length] = MAXBITS)
         /\ Stars = 0 /\ Taken(Item) = (IF Valued(Item) THEN 1 ELSE 0)
         /\ arg = ArgOf(at - 1) + 1 /\ arg + Taken(Item) = 1 + ArgOf(at)
         /\ Valued(Item) => ArgOf(at) = arg /\ Value = call.args[ArgOf(at)]
         /\ Item.spec # "literal" =>
              /\ Width = Item.width /\ Flags = Item.flags
              /\ Precision = IF Item.precision = NONE THEN 0 ELSE Item.precision
  <1>1. Plain(at) /\ (Negative(at) => Bits[Item.length] = MAXBITS)
    BY DEF PlainCall, Formatting, Item
  <1>2. /\ Item.spec # "unknown" /\ Item.width # STAR /\ Item.precision # STAR
        /\ Item.spec = "c" => Item.length \notin {"l", "ll"}
    BY <1>1 DEF Plain, Item
  <1>3. Stars = 0 /\ Taken(Item) = (IF Valued(Item) THEN 1 ELSE 0)
    BY <1>2 DEF Stars, StarsOf, Taken, Valued
  <1>4. at \in Nat \ {0}
    BY TakenFacts
  <1>5. ArgOf(at - 1) \in Nat /\ ArgOf(at) = ArgOf(at - 1) + (IF Valued(Item) THEN 1 ELSE 0)
    BY <1>4, ArgOfFacts DEF Item
  <1>6. Valued(Item) => ArgOf(at) = arg /\ Value = call.args[ArgOf(at)]
    BY <1>3, <1>5 DEF InStep, Value
  <1>7. /\ UINT16 \in Nat \ {0} /\ Item.width \in 0 .. (UINT16 - 1)
        /\ Item.precision \in 0 .. (UINT16 - 1) \/ Item.precision = NONE
    <2>1. Item.width \in Nat \cup {STAR} /\ Item.precision \in Nat \cup {STAR, NONE}
      BY TakenFacts DEF Directives
    <2>2. Item.width < UINT16 /\ Item.precision < UINT16
      BY <1>1 DEF Plain, Item
    <2>3. UINT16 \in Nat \ {0}
      BY FormatAssumption
    <2> QED
      BY <1>2, <2>1, <2>2, <2>3
  <1>8. Width = Item.width /\ Flags = Item.flags
    <2>1. Item.width % UINT16 = Item.width
      BY <1>7
    <2> QED
      BY <1>2, <2>1 DEF Width, Flags
  <1>9. Precision = (IF Item.precision = NONE THEN 0 ELSE Item.precision)
    <2>1. Item.precision # NONE => Item.precision % UINT16 = Item.precision
      BY <1>7
    <2> QED
      BY <1>2, <2>1, Zenon DEF Precision, Held
  <1> QED
    BY <1>1, <1>3, <1>5, <1>6, <1>8, <1>9 DEF InStep

\* Every number that is next fits num_buffer.
LEMMA NumeralFits ==
  ASSUME ParseInv, Formatting
  PROVE  /\ Item.spec \in {"u", "o", "x", "X"} => Len(UnsignedNumeral) <= NUM_BUFFER
         /\ Item.spec = "p" => Len(PointerNumeral) <= NUM_BUFFER
         /\ Item.spec \in {"d", "i"} => Len(SignedNumeral) <= NUM_BUFFER
  <1>1. ASSUME Item.spec \in Numeric
        PROVE  /\ Item \in Directives /\ Item.length \in DOMAIN Bits /\ Value.num \in Int
               /\ Precision \in Nat /\ Precision + 3 <= NUM_BUFFER
    <2>1. Taken(Item) = Stars + 1 /\ Item.spec # "literal"
      BY <1>1 DEF Numeric, Taken, Stars
    <2>2. Item \in Directives /\ Value \in Arguments /\ Precision \in Nat
      BY <2>1, TakenFacts, ItemFacts, Zenon
    <2>3. Precision + 3 <= NUM_BUFFER
      BY <1>1, RoomFacts
    <2> QED
      BY <2>2, <2>3 DEF Directives, Arguments
  <1>2. ASSUME Item.spec \in {"u", "o", "x", "X"} PROVE Len(UnsignedNumeral) <= NUM_BUFFER
    <2>1. PICK num, radix, flags, precision, hcase, negative :
            /\ num = Unsigned(Value.num, Item.length) /\ radix = Radix(Item.spec)
            /\ flags = Flags /\ precision = Precision /\ hcase = (Item.spec = "X")
            /\ negative = FALSE
      OBVIOUS
    <2>2. Item.spec \in Numeric
      BY <1>2 DEF Numeric
    <2>3. num \in 0 .. (Power(2, MAXBITS) - 1)
      BY <1>1, <2>1, <2>2, UnsignedRange, Zenon
    <2>4. radix \in {8, 10, 16} /\ precision \in Nat /\ precision + 3 <= NUM_BUFFER
      BY <1>1, <1>2, <2>1, <2>2 DEF Radix
    <2>5. Len(Ntoa(num, negative, radix, flags, precision, hcase)) <= NUM_BUFFER
      BY <2>3, <2>4, NtoaFits
    <2> QED
      BY <2>1, <2>5, Zenon DEF UnsignedNumeral
  <1>3. ASSUME Item.spec = "p" PROVE Len(PointerNumeral) <= NUM_BUFFER
    <2>1. PICK num, radix, flags, precision, hcase, negative :
            /\ num = Unsigned(Value.num, "p") /\ radix = 16
            /\ flags = PointerFlags /\ precision = Precision /\ hcase = FALSE
            /\ negative = FALSE
      OBVIOUS
    <2>2. Item.spec \in Numeric /\ "p" \in DOMAIN Bits
      BY <1>3, FormatAssumption DEF Numeric
    <2>3. num \in 0 .. (Power(2, MAXBITS) - 1)
      BY <1>1, <2>1, <2>2, UnsignedRange, Zenon
    <2>4. radix \in {8, 10, 16} /\ precision \in Nat /\ precision + 3 <= NUM_BUFFER
      BY <1>1, <2>1, <2>2
    <2>5. Len(Ntoa(num, negative, radix, flags, precision, hcase)) <= NUM_BUFFER
      BY <2>3, <2>4, NtoaFits
    <2> QED
      BY <2>1, <2>5, Zenon DEF PointerNumeral
  <1>4. ASSUME Item.spec \in {"d", "i"} PROVE Len(SignedNumeral) <= NUM_BUFFER
    <2>1. PICK num, size, radix, flags, precision, hcase, negative :
            /\ num = Signed(Value.num, Item.length) /\ size = Magnitude(num) /\ radix = 10
            /\ flags = Flags /\ precision = Precision /\ hcase = FALSE
            /\ negative = (num < 0)
      OBVIOUS
    <2>2. Item.spec \in Numeric
      BY <1>4 DEF Numeric
    <2>3. size \in 0 .. (Power(2, MAXBITS) - 1)
      BY <1>1, <2>1, <2>2, SignedFacts, Zenon
    <2>4. radix \in {8, 10, 16} /\ precision \in Nat /\ precision + 3 <= NUM_BUFFER
      BY <1>1, <2>1, <2>2
    <2>5. Len(Ntoa(size, negative, radix, flags, precision, hcase)) <= NUM_BUFFER
      BY <2>3, <2>4, NtoaFits
    <2> QED
      BY <2>1, <2>5, Zenon DEF SignedNumeral, Magnitude
  <1> QED
    BY <1>2, <1>3, <1>4

\* The item's characters go out, those C prescribes in a plain call.
Emits ==
  \E chars \in Seq(Printable) :
    Put(chars, Taken(Item)) /\ (PlainCall /\ InStep => chars = Prescribed(at))

\* %u, %o, %x and %X put out the number C describes.
LEMMA EmitUnsigned ==
  ASSUME ParseInv, PutUnsigned
  PROVE  Emits
  <1>1. Formatting /\ Item.spec \in {"u", "o", "x", "X"} /\ Item.spec # "literal"
    BY DEF PutUnsigned
  <1>2. PICK num, radix, flags, precision, hcase, width, length, chars :
          /\ num = Unsigned(Value.num, Item.length) /\ radix = Radix(Item.spec) /\ flags = Flags
          /\ precision = Precision /\ hcase = (Item.spec = "X") /\ width = Width
                 /\ length = Item.length
          /\ chars = FormatOutput(Ntoa(num, FALSE, radix, flags, precision, hcase), flags, width)
    OBVIOUS
  <1>3. Taken(Item) = Stars + 1
    BY <1>1 DEF Taken, Stars, StarsOf
  <1>4. Put(chars, Taken(Item))
    BY <1>2, <1>3, Zenon DEF PutUnsigned, UnsignedNumeral
  <1>5. Item \in Directives /\ Value \in Arguments /\ Precision \in Nat /\ Width \in Nat
    BY <1>1, <1>3, TakenFacts, ItemFacts, Zenon
  <1>6. num \in 0 .. (Power(2, MAXBITS) - 1)
    <2>1. Value.num \in Int /\ Item.length \in DOMAIN Bits
      BY <1>5 DEF Directives, Arguments
    <2> QED
      BY <1>2, <2>1, UnsignedRange, Zenon
  <1>7. radix \in 2 .. 16 /\ precision \in Nat /\ width \in Nat
    BY <1>2, <1>5 DEF Radix
  <1>8. PICK P : P = Least(precision)
    OBVIOUS
  <1>10. chars \in Seq(Printable) /\ chars = Written(num, FALSE, radix, flags, P, hcase, width)
    <2>1. PICK negative : negative = FALSE
      OBVIOUS
    <2>2. /\ FormatOutput(Ntoa(num, negative, radix, flags, precision, hcase), flags, width)
                   \in Seq(Printable)
          /\ FormatOutput(Ntoa(num, negative, radix, flags, precision, hcase), flags, width) =
               Written(num, negative, radix, flags, Least(precision), hcase, width)
      BY <1>6, <1>7, NumberExact
    <2> QED
      BY <1>2, <1>8, <2>1, <2>2, Zenon
  <1>11. ASSUME PlainCall, InStep
         PROVE  chars = Prescribed(at)
    <2>1. /\ Plain(at) /\ Valued(Item) /\ Value = call.args[ArgOf(at)]
          /\ Width = Item.width /\ Flags = Item.flags
          /\ Precision = (IF Item.precision = NONE THEN 0 ELSE Item.precision)
      BY <1>1, <1>11, PlainItem DEF Valued
    <2>2. Prescribed(at) = Reference(Item, Value)
      BY <2>1, Zenon DEF Prescribed, Item
    <2>3. /\ "+" \notin Item.flags /\ " " \notin Item.flags
          /\ "#" \in Item.flags => Item.spec \in {"x", "X"}
          /\ Item.precision # 0
      BY <1>1, <2>1 DEF Plain, Item
    <2>4. P = IF Item.precision = NONE THEN 1 ELSE Item.precision
      BY <1>2, <1>8, <2>1, <2>3 DEF Least
    <2>5. Reference(Item, Value) =
            Written(Unsigned(Value.num, Item.length), FALSE, Radix(Item.spec), Item.flags, P,
                Item.spec = "X", Item.width)
      BY <1>1, <1>5, <2>3, <2>4, ReferenceUnsigned
    <2>6. Reference(Item, Value) = Written(num, FALSE, radix, flags, P, hcase, width)
      BY <1>2, <2>1, <2>5
    <2> QED
      BY <1>10, <2>2, <2>6, Zenon
  <1> QED
    BY <1>4, <1>10, <1>11 DEF Emits

\* %d and %i do; of negative numbers, those of intmax_t.
LEMMA EmitSigned ==
  ASSUME ParseInv, PutSigned
  PROVE  Emits
  <1>1. Formatting /\ Item.spec \in {"d", "i"} /\ Item.spec # "literal"
    BY DEF PutSigned
  <1>2. PICK num, size, negative, flags, precision, width, chars :
          /\ num = Signed(Value.num, Item.length) /\ size = Magnitude(num) /\ negative = (num < 0)
          /\ flags = Flags /\ precision = Precision /\ width = Width
          /\ chars = FormatOutput(Ntoa(size, negative, 10, flags, precision, FALSE), flags, width)
    OBVIOUS
  <1>3. Taken(Item) = Stars + 1
    BY <1>1 DEF Taken, Stars, StarsOf
  <1>4. Put(chars, Taken(Item))
    BY <1>2, <1>3, Zenon DEF PutSigned, SignedNumeral, Magnitude
  <1>5. Item \in Directives /\ Value \in Arguments /\ Precision \in Nat /\ Width \in Nat
    BY <1>1, <1>3, TakenFacts, ItemFacts, Zenon
  <1>6. Value.num \in Int /\ Item.length \in DOMAIN Bits
    BY <1>5 DEF Directives, Arguments
  <1>7. size \in 0 .. (Power(2, MAXBITS) - 1)
    BY <1>2, <1>6, SignedFacts, Zenon
  <1>8. 10 \in 2 .. 16 /\ precision \in Nat /\ width \in Nat
    BY <1>2, <1>5
  <1>9. PICK P : P = Least(precision)
    OBVIOUS
  <1>11. chars \in Seq(Printable) /\ chars = Written(size, negative, 10, flags, P, FALSE, width)
    <2>1. PICK hcase : hcase = FALSE
      OBVIOUS
    <2>2. /\ FormatOutput(Ntoa(size, negative, 10, flags, precision, hcase), flags, width)
                   \in Seq(Printable)
          /\ FormatOutput(Ntoa(size, negative, 10, flags, precision, hcase), flags, width) =
               Written(size, negative, 10, flags, Least(precision), hcase, width)
      BY <1>7, <1>8, NumberExact
    <2> QED
      BY <1>2, <1>9, <2>1, <2>2, Zenon
  <1>12. ASSUME PlainCall, InStep
         PROVE  chars = Prescribed(at)
    <2>1. /\ Plain(at) /\ Valued(Item) /\ Value = call.args[ArgOf(at)]
          /\ Width = Item.width /\ Flags = Item.flags
          /\ Precision = (IF Item.precision = NONE THEN 0 ELSE Item.precision)
          /\ Negative(at) => Bits[Item.length] = MAXBITS
      BY <1>1, <1>12, PlainItem DEF Valued
    <2>2. Prescribed(at) = Reference(Item, Value)
      BY <2>1, Zenon DEF Prescribed, Item
    <2>3. "#" \notin Item.flags /\ Item.precision # 0
      BY <1>1, <2>1 DEF Plain, Item
    <2>4. P = IF Item.precision = NONE THEN 1 ELSE Item.precision
      BY <1>2, <1>9, <2>1, <2>3 DEF Least
    <2>5. SignedReference(Value.num, Item.length) < 0 => Bits[Item.length] = MAXBITS
      BY <1>1, <2>1 DEF Negative, Item
    <2>6. num = SignedReference(Value.num, Item.length)
      BY <1>2, <1>6, <2>5, SignedFacts, Zenon
    <2>7. Reference(Item, Value) =
            Written(Magnitude(SignedReference(Value.num, Item.length)),
                SignedReference(Value.num, Item.length) < 0, 10,
                    Item.flags, P, FALSE, Item.width)
      BY <1>1, <1>5, <2>3, <2>4, ReferenceSigned
    <2>8. Reference(Item, Value) = Written(size, negative, 10, flags, P, FALSE, width)
      BY <1>2, <2>1, <2>6, <2>7
    <2> QED
      BY <1>11, <2>2, <2>8, Zenon
  <1> QED
    BY <1>4, <1>11, <1>12 DEF Emits

\* %p puts out text; C leaves open which.
LEMMA EmitPointer ==
  ASSUME ParseInv, PutPointer
  PROVE  Emits
  <1>1. Formatting /\ Item.spec = "p" /\ Item.spec # "literal"
    BY DEF PutPointer
  <1>2. PICK num, flags, precision, width, chars :
          /\ num = Unsigned(Value.num, "p") /\ flags = Flags \cup {"#"}
          /\ precision = Precision /\ width = Width
          /\ chars = FormatOutput(Ntoa(num, FALSE, 16, flags, precision, FALSE), flags, width)
    OBVIOUS
  <1>3. Taken(Item) = Stars + 1
    BY <1>1 DEF Taken, Stars, StarsOf
  <1>4. Put(chars, Taken(Item))
    BY <1>2, <1>3, Zenon DEF PutPointer, PointerNumeral, PointerFlags
  <1>5. Value \in Arguments /\ Precision \in Nat /\ Width \in Nat
    BY <1>1, <1>3, ItemFacts, Zenon
  <1>6. num \in 0 .. (Power(2, MAXBITS) - 1)
    <2>1. Value.num \in Int /\ "p" \in DOMAIN Bits
      BY <1>5, FormatAssumption DEF Arguments
    <2> QED
      BY <1>2, <2>1, UnsignedRange, Zenon
  <1>7. 16 \in 2 .. 16 /\ precision \in Nat /\ width \in Nat
    BY <1>2, <1>5
  <1>8. chars \in Seq(Printable)
    BY <1>2, <1>6, <1>7, NumberExact, Zenon
  <1>9. PlainCall /\ InStep => FALSE
    BY <1>1, PlainItem DEF Plain, Item
  <1> QED
    BY <1>4, <1>8, <1>9 DEF Emits

LEMMA OutputExact ==
  ASSUME NEW output \in Seq(Printable), NEW flags, NEW width \in Nat
  PROVE  /\ FormatOutput(output, flags, width) \in Seq(Printable)
         /\ FormatOutput(output, flags, width) = Padded(output, flags, width)
  <1>1. PICK S : S = Printable
    OBVIOUS
  <1>2. output \in Seq(S) /\ Fill(flags) \in S
    BY <1>1, FillFacts, Zenon
  <1>3. FormatOutput(output, flags, width) = Padded(output, flags, width)
            /\ FormatOutput(output, flags, width) \in Seq(S)
    BY <1>2, PaddedExact, Zenon
  <1> QED
    BY <1>1, <1>3, Zenon

LEMMA OneFacts ==
  ASSUME NEW S, NEW x \in S
  PROVE  <<x>> \in Seq(S) /\ <<>> \in Seq(S)
  OBVIOUS

\* A literal puts out itself.
LEMMA EmitLiteral ==
  ASSUME ParseInv, PutLiteral
  PROVE  Emits
  <1>1. Formatting /\ Item.spec = "literal" /\ ~Valued(Item)
    BY DEF PutLiteral, Valued
  <1>2. PICK chars : chars = <<Item.char>>
    OBVIOUS
  <1>3. Taken(Item) = 0
    BY <1>1 DEF Taken
  <1>4. Put(chars, Taken(Item))
    BY <1>2, <1>3, Zenon DEF PutLiteral
  <1>5. Item \in Directives
    BY <1>1, TakenFacts, Zenon
  <1>6. chars \in Seq(Printable)
    <2>1. Item.char \in Chars
      BY <1>5 DEF Directives
    <2>2. <<Item.char>> \in Seq(Chars)
      BY <2>1, OneFacts, Zenon
    <2> QED
      BY <1>2, <2>2, TextFacts, Zenon
  <1>7. chars = Prescribed(at)
    <2>1. PICK v : v = [num |-> 0, str |-> <<>>]
      OBVIOUS
    <2>2. Reference(Item, v) = <<Item.char>>
      BY <1>1, <1>5, ReferenceCharacters, Zenon
    <2> QED
      BY <1>1, <1>2, <2>1, <2>2, Zenon DEF Prescribed, Item
  <1> QED
    BY <1>4, <1>6, <1>7, Zenon DEF Emits

\* %% puts out one percent sign.
LEMMA EmitPercent ==
  ASSUME ParseInv, PutPercent
  PROVE  Emits
  <1>1. Formatting /\ Item.spec = "%" /\ ~Valued(Item) /\ Item.spec # "literal"
    BY DEF PutPercent, Valued
  <1>2. PICK chars : chars = FormatOutput(<<"%">>, Flags, Width)
    OBVIOUS
  <1>3. Taken(Item) = Stars
    BY <1>1 DEF Taken, Stars, StarsOf
  <1>4. Put(chars, Taken(Item))
    BY <1>2, <1>3, Zenon DEF PutPercent
  <1>5. Item \in Directives /\ Width \in Nat
    BY <1>1, TakenFacts, ItemFacts, Zenon
  <1>6. chars \in Seq(Printable) /\ chars = Padded(<<"%">>, Flags, Width)
    <2>1. "%" \in Printable
      BY Zenon DEF Printable
    <2>2. <<"%">> \in Seq(Printable)
      BY <2>1, OneFacts, Zenon
    <2> QED
      BY <1>2, <1>5, <2>2, OutputExact, Zenon
  <1>7. ASSUME PlainCall, InStep
        PROVE  chars = Prescribed(at)
    <2>1. PICK v : v = [num |-> 0, str |-> <<>>]
      OBVIOUS
    <2>2. Reference(Item, v) = <<"%">>
      BY <1>1, <1>5, ReferenceCharacters, Zenon
    <2>3. Width = 0
      <3>1. Plain(at) /\ Width = Item.width
        BY <1>1, <1>7, PlainItem
      <3> QED
        BY <1>1, <3>1 DEF Plain, Item
    <2>4. chars = <<"%">>
      BY <1>6, <2>3, PercentAlone, Zenon
    <2> QED
      BY <1>1, <2>1, <2>2, <2>4, Zenon DEF Prescribed, Item
  <1> QED
    BY <1>4, <1>6, <1>7, Zenon DEF Emits

\* An unknown specifier puts out nothing.
LEMMA EmitSkip ==
  ASSUME ParseInv, Skip
  PROVE  Emits
  <1>1. Formatting /\ Item.spec = "unknown"
    BY DEF Skip
  <1>2. Taken(Item) = Stars
    BY <1>1 DEF Taken, Stars, StarsOf
  <1>3. PICK chars : chars = <<>>
    OBVIOUS
  <1>4. Put(chars, Taken(Item)) /\ chars \in Seq(Printable)
    <2>1. Put(chars, Taken(Item))
      BY <1>2, <1>3, Zenon DEF Skip
    <2> QED
      BY <1>3, <2>1
  <1>5. PlainCall /\ InStep => FALSE
    <2>1. PlainCall /\ InStep => Plain(at)
      BY <1>1, PlainItem, Zenon
    <2> QED
      BY <1>1, <2>1 DEF Plain, Item
  <1> QED
    BY <1>4, <1>5, Zenon DEF Emits

\* Characters that go out as they are.
LEMMA EmitText ==
  ASSUME ParseInv, Formatting, Item.spec \in {"c", "s"}, Taken(Item) = Stars + 1,
         NEW chars, chars = FormatOutput(Value.str, Flags, Width)
  PROVE  chars \in Seq(Printable) /\ (PlainCall /\ InStep => chars = Prescribed(at))
  <1>1. Item.spec # "literal" /\ Valued(Item)
    BY DEF Valued
  <1>2. Item \in Directives /\ Value \in Arguments /\ Width \in Nat
    BY <1>1, TakenFacts, ItemFacts, Zenon
  <1>3. Value.str \in Seq(Printable)
    <2>1. Value.str \in Seq(Chars)
      BY <1>2 DEF Arguments
    <2> QED
      BY <2>1, TextFacts, Zenon
  <1>4. chars \in Seq(Printable) /\ chars = Padded(Value.str, Flags, Width)
    BY <1>2, <1>3, OutputExact, Zenon
  <1>5. ASSUME PlainCall, InStep
        PROVE  chars = Prescribed(at)
    <2>1. Value = call.args[ArgOf(at)] /\ Width = Item.width /\ Flags = Item.flags
      BY <1>1, <1>5, PlainItem
    <2>2. Reference(Item, Value) = Padded(Value.str, Item.flags, Item.width)
      BY <1>2, ReferenceCharacters, Zenon
    <2> QED
      BY <1>1, <1>4, <2>1, <2>2, Zenon DEF Prescribed, Item
  <1> QED
    BY <1>4, <1>5, Zenon

\* %c puts out its character, padded.
LEMMA EmitChar ==
  ASSUME ParseInv, PutChar
  PROVE  Emits
  <1>1. Formatting /\ Item.spec = "c" /\ Item.spec # "literal" /\ Item.spec \in {"c", "s"}
    BY DEF PutChar
  <1>2. CASE Item.length \in {"l", "ll"}
    <2>1. PICK chars : chars = FormatOutput(<<"NUL">>, Flags, Width)
      OBVIOUS
    <2>2. Taken(Item) = Stars
      BY <1>1, <1>2 DEF Taken, Stars, StarsOf
    <2>3. Put(chars, Taken(Item))
      BY <1>2, <2>1, <2>2, Zenon DEF PutChar
    <2>4. chars \in Seq(Printable)
      <3>1. Width \in Nat /\ "NUL" \in Printable
        BY <1>1, ItemFacts, Zenon DEF Printable
      <3>2. <<"NUL">> \in Seq(Printable)
        BY <3>1, OneFacts, Zenon
      <3> QED
        BY <2>1, <3>1, <3>2, OutputExact, Zenon
    <2>5. PlainCall /\ InStep => FALSE
      <3>1. PlainCall /\ InStep => Plain(at)
        BY <1>1, PlainItem, Zenon
      <3> QED
        BY <1>1, <1>2, <3>1 DEF Plain, Item
    <2> QED
      BY <2>3, <2>4, <2>5, Zenon DEF Emits
  <1>3. CASE Item.length \notin {"l", "ll"}
    <2>1. PICK chars : chars = FormatOutput(Value.str, Flags, Width)
      OBVIOUS
    <2>2. Taken(Item) = Stars + 1
      BY <1>1, <1>3 DEF Taken, Stars, StarsOf
    <2>3. Put(chars, Taken(Item))
      BY <1>3, <2>1, <2>2, Zenon DEF PutChar
    <2> QED
      BY <1>1, <2>1, <2>2, <2>3, EmitText, Zenon DEF Emits
  <1> QED
    BY <1>2, <1>3, Zenon

\* %s puts out its string, padded.
LEMMA EmitString ==
  ASSUME ParseInv, PutString
  PROVE  Emits
  <1>1. Formatting /\ Item.spec = "s" /\ Item.spec # "literal" /\ Item.spec \in {"c", "s"}
    BY DEF PutString
  <1>2. Taken(Item) = Stars + 1
    BY <1>1 DEF Taken, Stars, StarsOf
  <1>3. CASE Item.length \in {"l", "ll"}
    <2>1. PICK chars : chars = <<>>
      OBVIOUS
    <2>2. Put(chars, Taken(Item))
      BY <1>2, <1>3, <2>1, Zenon DEF PutString
    <2>3. chars \in Seq(Printable)
      BY <2>1
    <2>4. PlainCall /\ InStep => FALSE
      <3>1. PlainCall /\ InStep => Plain(at)
        BY <1>1, PlainItem, Zenon
      <3> QED
        BY <1>1, <1>3, <3>1 DEF Plain, Item
    <2> QED
      BY <2>2, <2>3, <2>4, Zenon DEF Emits
  <1>4. CASE Item.length \notin {"l", "ll"}
    <2>1. PICK chars : chars = FormatOutput(Value.str, Flags, Width)
      OBVIOUS
    <2>2. Put(chars, Taken(Item))
      BY <1>2, <1>4, <2>1, Zenon DEF PutString
    <2> QED
      BY <1>1, <1>2, <2>1, <2>2, EmitText, Zenon DEF Emits
  <1> QED
    BY <1>3, <1>4, Zenon

-----------------------------------------------------------------------------
(***************************************************************************)
(* What a step does to the call, the text and the buffer.                  *)
(***************************************************************************)
\* One item is behind, whether it put something out or stored a count.
Moves(chars) ==
  /\ call' = call /\ phase' = phase
  /\ at' = at + 1 /\ arg' = arg + Taken(Item)
  /\ text' = text \o chars
  /\ PlainCall /\ InStep => chars = Prescribed(at)

PutStep ==
  \/ PutLiteral \/ PutUnsigned \/ PutPointer \/ PutSigned
  \/ PutChar \/ PutString \/ PutPercent \/ Skip

\* Every item that writes puts out what it should.
LEMMA PutEmits ==
  ASSUME ParseInv, PutStep
  PROVE  Formatting /\ Emits
  <1>1. Formatting
    BY Zenon DEF PutStep, PutLiteral, PutUnsigned, PutPointer, PutSigned, PutChar, PutString,
          PutPercent, Skip
  <1>2. Emits
    BY EmitLiteral, EmitUnsigned, EmitPointer, EmitSigned, EmitChar, EmitString, EmitPercent,
          EmitSkip, Zenon DEF PutStep
  <1> QED
    BY <1>1, <1>2

\* And goes on to the next item.
LEMMA PutMoves ==
  ASSUME ParseInv, PutStep
  PROVE  \E chars \in Seq(Printable) : Moves(chars) /\ Put(chars, Taken(Item))
  <1>1. PICK chars \in Seq(Printable) : Put(chars, Taken(Item))
                 /\ (PlainCall /\ InStep => chars = Prescribed(at))
    BY PutEmits, Zenon DEF Emits
  <1>2. /\ at' = at + 1 /\ arg' = arg + Taken(Item) /\ text' = text \o chars
        /\ call' = call /\ phase' = phase
    BY <1>1, Zenon DEF Put, Advance
  <1> QED
    BY <1>1, <1>2, Zenon DEF Moves

\* %n puts out nothing, as C says, and goes on as well.
LEMMA CountMoves ==
  ASSUME ParseInv, StoreCount
  PROVE  Formatting /\ \E chars \in Seq(Printable) : Moves(chars)
  <1>1. Formatting /\ Item.spec = "n" /\ Item.spec # "literal"
    BY DEF StoreCount
  <1>2. Taken(Item) = Stars + 1 /\ Stars \in {0, 1, 2} /\ arg \in Nat
    BY <1>1, TakenFacts, ParseTypes DEF Taken, Stars, StarsOf
  <1>3. arg' = arg + Taken(Item)
    <2>1. arg' = arg + Stars + 1
      BY DEF StoreCount
    <2> QED
      BY <1>2, <2>1
  <1>4. PICK chars : chars = <<>>
    OBVIOUS
  <1>5. chars \in Seq(Printable)
    BY <1>4
  <1>6. text' = text \o chars
    <2>1. text \in Seq(Printable)
      BY DEF ParseInv
    <2>2. text \o <<>> = text
      BY <2>1, ConcatEmpty, Zenon
    <2> QED
      BY <1>4, <2>2, Zenon DEF StoreCount
  <1>7. ASSUME PlainCall, InStep
        PROVE  chars = Prescribed(at)
    <2>1. Item \in Directives
      BY <1>1, TakenFacts, Zenon
    <2>2. \A v : Reference(Item, v) = <<>>
      BY <1>1, <2>1, ReferenceCharacters, Zenon
    <2>3. Valued(Item)
      BY <1>1 DEF Valued
    <2>4. Prescribed(at) = Reference(Item, call.args[ArgOf(at)])
      BY <2>3, Zenon DEF Prescribed, Item
    <2> QED
      BY <1>4, <2>2, <2>4, Zenon
  <1>8. at' = at + 1 /\ call' = call /\ phase' = phase
    BY Zenon DEF StoreCount, Advance
  <1>9. Moves(chars)
    BY <1>3, <1>6, <1>7, <1>8, Zenon DEF Moves
  <1> QED
    BY <1>1, <1>5, <1>9, Zenon

\* Parsing goes on inside the format and the arguments.
LEMMA ParseMoves ==
  ASSUME ParseInv, Formatting, NEW chars \in Seq(Printable), Moves(chars)
  PROVE  ParseInv'
  <1>1. PICK first : Ready(call, first) /\ arg = first[at]
    BY DEF ParseInv
  <1>2. /\ call' = call /\ phase' = phase /\ at' = at + 1
        /\ arg' = arg + Taken(Item) /\ text' = text \o chars
    BY Zenon DEF Moves
  <1>3. first[at + 1] = arg + Taken(Item)
    BY <1>1, Zenon DEF Ready, Positions, Formatting, Item
  <1>4. Ready(call', first) /\ arg' = first[at']
    BY <1>1, <1>2, <1>3, Zenon
  <1>5. at' \in 1 .. (Len(call'.format) + 1)
    <2>1. at \in 1 .. Len(call.format) /\ Len(call.format) \in Nat
      BY TakenFacts, ParseTypes
    <2> QED
      BY <1>2, <2>1
  <1>6. text' \in Seq(Printable)
    <2>1. text \in Seq(Printable)
      BY DEF ParseInv
    <2> QED
      BY <1>2, <2>1, ConcatType, Zenon
  <1>7. phase' = "format" /\ call' \in Calls
    BY <1>2, Zenon DEF ParseInv, Formatting
  <1> QED
    BY <1>4, <1>5, <1>6, <1>7 DEF ParseInv

\* The terminator comes behind the last item.
LEMMA ParseTerminates ==
  ASSUME ParseInv, Terminate
  PROVE  ParseInv'
  <1>1. /\ call' = call /\ at' = at /\ arg' = arg /\ text' = text /\ phase' = "returned"
        /\ at \notin DOMAIN call.format
    BY Zenon DEF Terminate
  <1>2. at = Len(call.format) + 1
    <2>1. call.format \in Seq(Directives) /\ at \in 1 .. (Len(call.format) + 1)
      BY ParseTypes DEF ParseInv
    <2> QED
      BY <1>1, <2>1
  <1>3. PICK first : Ready(call, first) /\ arg = first[at]
    BY DEF ParseInv
  <1>4. Ready(call', first) /\ arg' = first[at']
    BY <1>1, <1>3, Zenon
  <1>5. /\ call' \in Calls /\ at' \in 1 .. (Len(call'.format) + 1) /\ text' \in Seq(Printable)
        /\ at' = Len(call'.format) + 1
    BY <1>1, <1>2, Zenon DEF ParseInv
  <1> QED
    BY <1>1, <1>4, <1>5 DEF ParseInv

\* A call starts at its first item and argument.
LEMMA ParseInit ==
  ASSUME CallInit
  PROVE  ParseInv
  <1>1. call \in Calls /\ at = 1 /\ arg = 1 /\ text = <<>> /\ phase = "format"
    BY DEF CallInit
  <1>2. PICK first : Ready(call, first)
    BY <1>1, CallFacts, Zenon
  <1>3. arg = first[at]
    BY <1>1, <1>2, Zenon DEF Ready, Positions
  <1>4. at \in 1 .. (Len(call.format) + 1)
    <2>1. call.format \in Seq(Directives)
      BY <1>1, CallFacts, Zenon
    <2> QED
      BY <1>1, <2>1
  <1> QED
    BY <1>1, <1>2, <1>3, <1>4 DEF ParseInv

-----------------------------------------------------------------------------
(***************************************************************************)
(* The text.                                                               *)
(***************************************************************************)
\* The texts of the first n items.
Texts(n) == [k \in 1 .. n |-> Prescribed(k)]

\* A plain call has its arguments in step and the text so far as C says.
TextBehind(a, n, t) ==
  PlainCall =>
    /\ a = 1 + ArgOf(n)
    /\ \A k \in 1 .. n : Prescribed(k) \in Seq(Printable)
    /\ t = FlattenSeq(Texts(n))

TextInv == TextBehind(arg, at - 1, text)

\* TextInv of the next state, of a call that does not change.
LEMMA TextPrimed ==
  ASSUME call' = call, NEW n, at' - 1 = n, TextBehind(arg', n, text')
  PROVE  TextInv'
  <1>1. PlainCall' <=> PlainCall
    BY DEF PlainCall, Plain, Negative, Unsigned, ArgOf, Valued, SignedReference
  <1> QED
    BY <1>1, Zenon DEF TextInv, TextBehind, Texts, Prescribed, ArgOf, Valued

\* G is F and one text more.
Grown(F, G, n, last) ==
  /\ F \in [1 .. n -> Seq(Printable)] /\ G \in [1 .. (n + 1) -> Seq(Printable)]
  /\ last \in Seq(Printable) /\ G[n + 1] = last /\ \A k \in 1 .. n : G[k] = F[k]

\* One more item, one more text.
LEMMA TextsGrow ==
  ASSUME NEW n \in Nat, NEW last \in Seq(Printable), last = Prescribed(n + 1),
         \A k \in 1 .. n : Prescribed(k) \in Seq(Printable),
         NEW F, F = [k \in 1 .. n |-> Prescribed(k)],
         NEW G, G = [k \in 1 .. (n + 1) |-> Prescribed(k)]
  PROVE  Grown(F, G, n, last)
  <1>1. PICK T : T = Seq(Printable)
    OBVIOUS
  <1>2. \A k \in 1 .. (n + 1) : k \in 1 .. n \/ k = n + 1
    OBVIOUS
  <1>3. n + 1 \in 1 .. (n + 1) /\ \A k \in 1 .. n : k \in 1 .. (n + 1)
    OBVIOUS
  <1>4. \A k \in 1 .. (n + 1) : Prescribed(k) \in T
    BY <1>1, <1>2, Zenon
  <1>5. F \in [1 .. n -> T] /\ G \in [1 .. (n + 1) -> T]
    BY <1>3, <1>4, Zenon
  <1>6. G[n + 1] = last /\ \A k \in 1 .. n : G[k] = F[k]
    BY <1>3, Zenon
  <1> QED
    BY <1>1, <1>5, <1>6, Zenon DEF Grown

\* Joined, it comes at the end.
LEMMA FlattenGrows ==
  ASSUME NEW n \in Nat, NEW F, NEW G, NEW last, Grown(F, G, n, last)
  PROVE  FlattenSeq(G) = FlattenSeq(F) \o last
  <1>1. PICK S : S = Printable
    OBVIOUS
  <1>2. PICK T : T = Seq(S)
    OBVIOUS
  <1>3. /\ F \in [1 .. n -> T] /\ G \in [1 .. (n + 1) -> T] /\ n + 1 \in Nat
        /\ last \in T /\ G[n + 1] = last /\ \A k \in 1 .. n : G[k] = F[k]
    <2>1. n + 1 \in Nat
      OBVIOUS
    <2> QED
      BY <1>1, <1>2, <2>1, Zenon DEF Grown
  <1>4. F \in Seq(T) /\ Len(F) = n
    BY <1>3, SequenceOf, Zenon
  <1>5. G \in Seq(T) /\ Len(G) = n + 1
    BY <1>3, SequenceOf, Zenon
  <1>6. Len(G) = Len(F) + 1 /\ G[Len(F) + 1] = last /\ \A k \in 1 .. Len(F) : G[k] = F[k]
    BY <1>3, <1>4, <1>5, Zenon
  <1>7. last \in T
    BY <1>3
  <1>8. G = Append(F, last)
    BY <1>4, <1>5, <1>6, <1>7, AppendUnique
  <1>9. PICK ss \in Seq(Seq(S)) : ss = F
    BY <1>2, <1>4, Zenon
  <1>10. PICK t \in Seq(S) : t = last
    BY <1>2, <1>7, Zenon
  <1>11. FlattenSeq(Append(ss, t)) = FlattenSeq(ss) \o t
    BY FlattenFacts, Zenon
  <1> QED
    BY <1>8, <1>9, <1>10, <1>11, Zenon

\* An item adds the text C prescribes, and its argument is behind.
LEMMA TextMoves ==
  ASSUME ParseInv, TextInv, Formatting, NEW chars \in Seq(Printable), Moves(chars)
  PROVE  TextInv'
  <1>1. /\ call' = call /\ at' = at + 1
        /\ arg' = arg + Taken(Item) /\ text' = text \o chars
        /\ PlainCall /\ InStep => chars = Prescribed(at)
    BY Zenon DEF Moves
  <1>2. at \in Nat \ {0} /\ at' - 1 = at /\ at - 1 \in Nat /\ (at - 1) + 1 = at
    BY <1>1, TakenFacts
  <1>3. ASSUME PlainCall
        PROVE  /\ arg' = 1 + ArgOf(at)
               /\ \A k \in 1 .. at : Prescribed(k) \in Seq(Printable)
               /\ text' = FlattenSeq(Texts(at))
    <2>1. /\ InStep /\ \A k \in 1 .. (at - 1) : Prescribed(k) \in Seq(Printable)
          /\ text = FlattenSeq(Texts(at - 1))
      BY <1>3, Zenon DEF TextInv, TextBehind, InStep
    <2>2. chars = Prescribed(at)
      BY <1>1, <1>3, <2>1, Zenon
    <2>3. arg' = 1 + ArgOf(at)
      BY <1>1, <1>3, <2>1, PlainItem, Zenon
    <2>4. PICK F, G, n : F = Texts(at - 1) /\ G = Texts(at) /\ n = at - 1
      OBVIOUS
    <2>5. n \in Nat /\ n + 1 = at
      BY <1>2, <2>4
    <2>6. F = [k \in 1 .. n |-> Prescribed(k)] /\ G = [k \in 1 .. (n + 1) |-> Prescribed(k)]
      BY <2>4, <2>5, Zenon DEF Texts
    <2>7. \A k \in 1 .. n : Prescribed(k) \in Seq(Printable)
      BY <2>1, <2>4, Zenon
    <2>8. Grown(F, G, n, chars)
      BY <2>2, <2>5, <2>6, <2>7, TextsGrow, Zenon
    <2>9. FlattenSeq(G) = FlattenSeq(F) \o chars
      <3>1. PICK m \in Nat : m = n
        BY <2>5, Zenon
      <3>2. Grown(F, G, m, chars)
        BY <2>8, <3>1, Zenon
      <3> QED
        BY <3>2, FlattenGrows
    <2>10. text' = FlattenSeq(Texts(at))
      BY <1>1, <2>1, <2>4, <2>9, Zenon
    <2>11. \A k \in 1 .. at : k \in 1 .. (at - 1) \/ k = at
      BY <1>2
    <2>12. \A k \in 1 .. at : Prescribed(k) \in Seq(Printable)
      BY <2>1, <2>2, <2>11, Zenon
    <2> QED
      BY <2>3, <2>10, <2>12, Zenon
  <1>4. TextBehind(arg', at, text')
    BY <1>3, Zenon DEF TextBehind
  <1> QED
    BY <1>1, <1>2, <1>4, TextPrimed, Zenon

\* At first there is no text.
LEMMA TextInit ==
  ASSUME CallInit
  PROVE  TextInv
  <1>1. at = 1 /\ arg = 1 /\ text = <<>>
    BY DEF CallInit
  <1>2. at - 1 = 0
    BY <1>1
  <1>3. InStep
    BY <1>1, <1>2, ArgOfFacts DEF InStep
  <1>4. 1 .. (at - 1) = {}
    BY <1>2
  <1>5. Texts(at - 1) = <<>>
    BY <1>4 DEF Texts
  <1>6. FlattenSeq(<<>>) = <<>>
    <2>1. PICK S : S = Printable
      OBVIOUS
    <2>2. PICK T : T = Seq(S)
      OBVIOUS
    <2>3. <<>> \in Seq(T) /\ <<>> \in Seq(S)
      OBVIOUS
    <2> QED
      BY <2>2, <2>3, FlattenFacts, Zenon
  <1> QED
    BY <1>1, <1>3, <1>4, <1>5, <1>6, Zenon DEF TextInv, TextBehind, InStep

\* The terminator is not of the text.
LEMMA TextTerminates ==
  ASSUME TextInv, Terminate
  PROVE  TextInv'
  <1>1. call' = call /\ at' = at /\ arg' = arg /\ text' = text
    BY Zenon DEF Terminate
  <1>2. TextBehind(arg', at - 1, text') /\ at' - 1 = at - 1
    BY <1>1, Zenon DEF TextInv
  <1> QED
    BY <1>1, <1>2, TextPrimed, Zenon

-----------------------------------------------------------------------------
(***************************************************************************)
(* The screen.                                                             *)
(***************************************************************************)
\* What the screen was sent so far.
ScreenInv ==
  call.device = "screen" =>
    sent \in Seq(Sendable) /\ Returns(sent) /\ Without("CR", sent) = Without("NUL", text)

\* More characters are sent behind those before.
LEMMA ScreenGrows ==
  ASSUME NEW s \in Seq(Sendable), Returns(s), NEW t \in Seq(Printable),
         NEW chars \in Seq(Printable),
         Without("CR", s) = Without("NUL", t)
  PROVE  /\ s \o Shown(chars) \in Seq(Sendable) /\ Returns(s \o Shown(chars))
         /\ Without("CR", s \o Shown(chars)) = Without("NUL", t \o chars)
  <1>1. PICK S, P : S = Sendable /\ P = Printable
    OBVIOUS
  <1>2. PICK u \in Seq(S) : u = Shown(chars)
    BY <1>1, ShownFacts, Zenon
  <1>3. Returns(u) /\ Without("CR", u) = Without("NUL", chars)
    BY <1>2, ShownFacts, Zenon
  <1>4. s \in Seq(S) /\ t \in Seq(P) /\ chars \in Seq(P)
    BY <1>1, Zenon
  <1>5. s \o u \in Seq(S)
    BY <1>4, ConcatType, Zenon
  <1>6. Returns(s \o u)
    BY <1>3, <1>4, ReturnsConcat, Zenon
  <1>7. Without("CR", s \o u) = Without("CR", s) \o Without("CR", u)
    <2>1. PICK p \in Seq(S) : p = s
      BY <1>4, Zenon
    <2>2. Without("CR", p \o u) = Without("CR", p) \o Without("CR", u)
      BY WithoutConcat
    <2> QED
      BY <2>1, <2>2, Zenon
  <1>8. Without("NUL", t \o chars) = Without("NUL", t) \o Without("NUL", chars)
    <2>1. PICK p \in Seq(P), q \in Seq(P) : p = t /\ q = chars
      BY <1>4, Zenon
    <2>2. Without("NUL", p \o q) = Without("NUL", p) \o Without("NUL", q)
      BY WithoutConcat
    <2> QED
      BY <2>1, <2>2, Zenon
  <1> QED
    BY <1>1, <1>2, <1>3, <1>5, <1>6, <1>7, <1>8, Zenon

\* An item is sent as the screen needs it.
LEMMA ScreenPut ==
  ASSUME ParseInv, ScreenInv, NEW chars \in Seq(Printable), Moves(chars), Put(chars, Taken(Item))
  PROVE  ScreenInv'
  <1>1. call' = call /\ text' = text \o chars
    BY Zenon DEF Moves
  <1>2. SUFFICES ASSUME call.device = "screen"
                 PROVE  sent' \in Seq(Sendable) /\ Returns(sent')
                            /\ Without("CR", sent') = Without("NUL", text')
    BY <1>1, Zenon DEF ScreenInv
  <1>3. sent' = sent \o Shown(chars)
    BY <1>2 DEF Put, Write, Sending, Shown
  <1>4. sent \in Seq(Sendable) /\ Returns(sent) /\ Without("CR", sent) = Without("NUL", text)
    BY <1>2, Zenon DEF ScreenInv
  <1>5. text \in Seq(Printable)
    BY DEF ParseInv
  <1> QED
    BY <1>1, <1>3, <1>4, <1>5, ScreenGrows, Zenon

\* %n sends nothing.
LEMMA ScreenCount ==
  ASSUME ScreenInv, StoreCount
  PROVE  ScreenInv'
  <1>1. call' = call /\ sent' = sent /\ text' = text
    BY Zenon DEF StoreCount
  <1> QED
    BY <1>1, Zenon DEF ScreenInv

\* The terminator is not shown.
LEMMA ScreenTerminates ==
  ASSUME ParseInv, ScreenInv, Terminate
  PROVE  ScreenInv'
  <1>1. call' = call /\ text' = text
    BY Zenon DEF Terminate
  <1>2. SUFFICES ASSUME call.device = "screen"
                 PROVE  sent' \in Seq(Sendable) /\ Returns(sent')
                            /\ Without("CR", sent') = Without("NUL", text')
    BY <1>1, Zenon DEF ScreenInv
  <1>3. PICK nul : nul = <<"NUL">>
    OBVIOUS
  <1>4. sent' = sent \o Shown(nul)
    BY <1>2, <1>3 DEF Terminate, Write, Sending, Shown
  <1>5. sent \in Seq(Sendable) /\ Returns(sent) /\ Without("CR", sent) = Without("NUL", text)
    BY <1>2, Zenon DEF ScreenInv
  <1>6. text \in Seq(Printable)
    BY DEF ParseInv
  <1>7. PICK x \in Printable : x = "NUL"
    BY Zenon DEF Printable
  <1>8. nul \in Seq(Printable)
    BY <1>3, <1>7, OneFacts, Zenon
  <1>9. /\ sent' \in Seq(Sendable) /\ Returns(sent')
        /\ Without("CR", sent') = Without("NUL", text \o nul)
    BY <1>4, <1>5, <1>6, <1>8, ScreenGrows, Zenon
  <1>10. Without("NUL", text \o nul) = Without("NUL", text)
    <2>1. Append(text, x) = text \o nul
      BY <1>3, <1>6, <1>7, AppendFacts, Zenon
    <2>2. Without("NUL", Append(text, x)) = Without("NUL", text)
      BY <1>6, <1>7, WithoutAppend, Zenon
    <2> QED
      BY <2>1, <2>2, Zenon
  <1> QED
    BY <1>1, <1>9, <1>10, Zenon

\* At first nothing is sent.
LEMMA ScreenInit ==
  ASSUME CallInit
  PROVE  ScreenInv
  <1>1. sent = <<>> /\ text = <<>>
    BY DEF CallInit
  <1>2. sent \in Seq(Sendable) /\ Returns(sent)
    BY <1>1 DEF Returns
  <1>3. Without("CR", sent) = <<>> /\ Without("NUL", text) = <<>>
    BY <1>1, WithoutEmpty, Zenon
  <1> QED
    BY <1>2, <1>3, Zenon DEF ScreenInv

-----------------------------------------------------------------------------
(***************************************************************************)
(* The buffer.                                                             *)
(***************************************************************************)
Count == [value : Nat, length : DOMAIN Bits, before : Nat]

CountsExact ==
  \A k \in DOMAIN counts : counts[k].value = counts[k].before % Power(2, Bits[counts[k].length])

\* The byte at i, for a buffer of n bytes, the text and whether its end is written.
ByteAt(i, n, chars, ended) ==
  IF i >= n THEN "old"
  ELSE IF ended /\ i = (IF Len(chars) < n THEN Len(chars) ELSE n - 1) THEN "NUL"
  ELSE IF i < Len(chars) /\ (~ended \/ i < n - 1) THEN chars[i + 1]
  ELSE "old"

BytesExact ==
  call.device = "memory" =>
    /\ memory = [i \in DOMAIN memory |-> memory[i]]
    /\ DOMAIN memory \subseteq Nat
    /\ \A i \in DOMAIN memory : memory[i] = ByteAt(i, call.n, text, phase = "returned")

BufferInv ==
  /\ index = Len(text)
  /\ counts \in Seq(Count) /\ CountsExact
  /\ BytesExact

\* %n stores the length of the text so far.
LEMMA CountStored ==
  ASSUME ParseInv, BufferInv, StoreCount
  PROVE  counts' \in Seq(Count) /\ CountsExact'
  <1>1. Formatting /\ Item \in Directives /\ index = Len(text) /\ index \in Nat
    <2>1. Formatting
      BY Zenon DEF StoreCount
    <2>2. Item \in Directives
      BY <2>1, TakenFacts, Zenon
    <2>3. index = Len(text) /\ text \in Seq(Printable)
      BY DEF BufferInv, ParseInv
    <2>4. Len(text) \in Nat
      BY <2>3
    <2> QED
      BY <2>1, <2>2, <2>3, <2>4, Zenon
  <1>2. Item.length \in DOMAIN Bits
    BY <1>1 DEF Directives
  <1>3. PICK new : new = [value |-> Unsigned(index, Item.length), length |-> Item.length,
                 before |-> Len(text)]
    OBVIOUS
  <1>4. new \in Count
    <2>1. index \in Int
      BY <1>1
    <2>2. Unsigned(index, Item.length) \in Nat
      BY <1>2, <2>1, UnsignedRange, Zenon
    <2> QED
      BY <1>1, <1>2, <1>3, <2>2 DEF Count
  <1>5. new.value = new.before % Power(2, Bits[new.length])
    BY <1>1, <1>3, Zenon DEF Unsigned
  <1>6. counts' = Append(counts, new)
    BY <1>3, Zenon DEF StoreCount
  <1>7. counts \in Seq(Count)
    BY DEF BufferInv
  <1>8. /\ counts' \in Seq(Count) /\ Len(counts') = Len(counts) + 1
               /\ counts'[Len(counts) + 1] = new
        /\ \A k \in 1 .. Len(counts) : counts'[k] = counts[k]
    BY <1>4, <1>6, <1>7, AppendFacts
  <1>9. ASSUME NEW k \in DOMAIN counts'
        PROVE  counts'[k].value = counts'[k].before % Power(2, Bits[counts'[k].length])
    <2>1. k \in DOMAIN counts \/ k = Len(counts) + 1
      BY <1>7, <1>8
    <2>2. DOMAIN counts = 1 .. Len(counts)
      BY <1>7
    <2>3. CASE k \in DOMAIN counts
      BY <1>8, <2>2, <2>3, Zenon DEF BufferInv, CountsExact
    <2>4. CASE k = Len(counts) + 1
      BY <1>5, <1>8, <2>4, Zenon
    <2> QED
      BY <2>1, <2>3, <2>4, Zenon
  <1> QED
    BY <1>8, <1>9, Zenon DEF CountsExact

\* What the write function does to a byte when text is added.
LEMMA ByteGrows ==
  ASSUME NEW n \in Nat, NEW s \in Seq(Printable), NEW t \in Seq(Printable), NEW i \in Nat
  PROVE  ByteAt(i, n, s \o t, FALSE) =
           IF i < n /\ i - Len(s) + 1 \in DOMAIN t THEN t[i - Len(s) + 1]
               ELSE ByteAt(i, n, s, FALSE)
  <1>1. PICK w : w = s \o t
    OBVIOUS
  <1>2. /\ Len(w) = Len(s) + Len(t) /\ Len(s) \in Nat /\ Len(t) \in Nat /\ DOMAIN t = 1 .. Len(t)
        /\ \A k \in 1 .. Len(s) : w[k] = s[k]
        /\ \A k \in (Len(s) + 1) .. (Len(s) + Len(t)) : w[k] = t[k - Len(s)]
    BY <1>1
  <1>3. CASE i >= n
    BY <1>2, <1>3 DEF ByteAt
  <1>4. CASE i < n /\ i < Len(s)
    <2>1. i + 1 \in 1 .. Len(s) /\ i < Len(w) /\ ~(i >= n) /\ i - Len(s) + 1 \notin DOMAIN t
      BY <1>2, <1>4
    <2>2. w[i + 1] = s[i + 1]
      BY <1>2, <2>1
    <2> QED
      BY <1>1, <1>4, <2>1, <2>2, Zenon DEF ByteAt
  <1>5. CASE i < n /\ i >= Len(s) /\ i < Len(s) + Len(t)
    <2>1. /\ i + 1 \in (Len(s) + 1) .. (Len(s) + Len(t)) /\ i < Len(w) /\ ~(i >= n)
          /\ i - Len(s) + 1 \in DOMAIN t /\ (i + 1) - Len(s) = i - Len(s) + 1
      BY <1>2, <1>5
    <2>2. w[i + 1] = t[(i + 1) - Len(s)]
      BY <1>2, <2>1
    <2> QED
      BY <1>1, <1>5, <2>1, <2>2, Zenon DEF ByteAt
  <1>6. CASE i < n /\ i >= Len(s) + Len(t)
    <2>1. ~(i < Len(w)) /\ ~(i < Len(s)) /\ ~(i >= n) /\ i - Len(s) + 1 \notin DOMAIN t
      BY <1>2, <1>6
    <2> QED
      BY <1>1, <2>1, Zenon DEF ByteAt
  <1>7. i >= n \/ (i < n /\ i < Len(s)) \/ (i < n /\ i >= Len(s) /\ i < Len(s) + Len(t))
        \/ (i < n /\ i >= Len(s) + Len(t))
    BY <1>2
  <1> QED
    BY <1>3, <1>4, <1>5, <1>6, <1>7

\* What the terminator does to a byte.
LEMMA ByteEnds ==
  ASSUME NEW n \in Nat, NEW s \in Seq(Printable), NEW i \in Nat,
         NEW T, T = IF Len(s) < n THEN Len(s) ELSE IF n = 0 THEN Len(s) ELSE n - 1
  PROVE  ByteAt(i, n, s, TRUE) =
           IF i < n /\ i - T + 1 \in DOMAIN <<"NUL">> THEN <<"NUL">>[i - T + 1]
               ELSE ByteAt(i, n, s, FALSE)
  <1>1. Len(s) \in Nat /\ T \in Nat
    OBVIOUS
  <1>2. PICK nul : nul = <<"NUL">>
    OBVIOUS
  <1>3. DOMAIN nul = 1 .. 1 /\ nul[1] = "NUL"
    BY <1>2
  <1>4. i - T + 1 \in DOMAIN nul <=> i = T
    BY <1>1, <1>3
  <1>5. i = T => nul[i - T + 1] = "NUL"
    <2>1. i = T => i - T + 1 = 1
      BY <1>1
    <2> QED
      BY <1>3, <2>1
  <1>6. CASE i >= n
    <2>1. ~(i < n)
      BY <1>6
    <2> QED
      BY <1>6, <2>1 DEF ByteAt
  <1>7. CASE i < n /\ i = T
    <2>1. ~(i >= n) /\ i = (IF Len(s) < n THEN Len(s) ELSE n - 1)
      BY <1>1, <1>7
    <2>2. ByteAt(i, n, s, TRUE) = "NUL"
      BY <2>1, Zenon DEF ByteAt
    <2> QED
      BY <1>2, <1>4, <1>5, <1>7, <2>2, Zenon
  <1>8. CASE i < n /\ i # T
    <2>1. /\ ~(i >= n) /\ i # (IF Len(s) < n THEN Len(s) ELSE n - 1)
          /\ i < Len(s) => i < n - 1
      BY <1>1, <1>8
    <2>2. ByteAt(i, n, s, TRUE) = ByteAt(i, n, s, FALSE)
      BY <2>1 DEF ByteAt
    <2> QED
      BY <1>2, <1>4, <1>8, <2>2, Zenon
  <1>9. i >= n \/ (i < n /\ i = T) \/ (i < n /\ i # T)
    BY <1>1
  <1> QED
    BY <1>6, <1>7, <1>8, <1>9, Zenon

\* An item is stored as far as it fits.
LEMMA BufferPut ==
  ASSUME ParseInv, BufferInv, Formatting, NEW chars \in Seq(Printable), Moves(chars),
         Put(chars, Taken(Item))
  PROVE  BufferInv'
  <1>1. /\ call' = call /\ phase' = phase /\ text' = text \o chars /\ phase = "format"
        /\ index' = index + Len(chars) /\ counts' = counts
    BY Zenon DEF Moves, Put, Formatting
  <1>2. text \in Seq(Printable) /\ call.n \in Nat
    BY ParseTypes DEF ParseInv
  <1>3. index' = Len(text')
    <2>1. index = Len(text)
      BY DEF BufferInv
    <2>2. Len(text \o chars) = Len(text) + Len(chars)
      BY <1>2
    <2> QED
      BY <1>1, <2>1, <2>2, Zenon
  <1>4. counts' \in Seq(Count) /\ CountsExact'
    BY <1>1, Zenon DEF BufferInv, CountsExact
  <1>5. ASSUME call.device = "memory"
        PROVE  /\ memory' = [i \in DOMAIN memory' |-> memory'[i]]
               /\ DOMAIN memory' \subseteq Nat
               /\ \A i \in DOMAIN memory' : memory'[i] = ByteAt(i, call.n, text', FALSE)
    <2>1. memory' = Stored(chars, Len(text))
      BY <1>5, Zenon DEF Put, Write, BufferInv
    <2>2. memory' = [i \in DOMAIN memory |->
            IF i < call.n /\ i - Len(text) + 1 \in DOMAIN chars THEN chars[i - Len(text) + 1]
                ELSE memory[i]]
      BY <2>1, Zenon DEF Stored, InBuffer
    <2>3. /\ DOMAIN memory \subseteq Nat
          /\ \A i \in DOMAIN memory : memory[i] = ByteAt(i, call.n, text, FALSE)
      <3>1. (phase = "returned") = FALSE
        BY <1>1
      <3> QED
        BY <1>5, <3>1, Zenon DEF BufferInv, BytesExact
    <2>4. DOMAIN memory' = DOMAIN memory
      BY <2>2
    <2>5. ASSUME NEW i \in DOMAIN memory
          PROVE  memory'[i] = ByteAt(i, call.n, text \o chars, FALSE)
      <3>1. i \in Nat
        BY <2>3
      <3>2. memory'[i] =
              IF i < call.n /\ i - Len(text) + 1 \in DOMAIN chars THEN chars[i - Len(text) + 1]
              ELSE memory[i]
        BY <2>2, Zenon
      <3>3. ByteAt(i, call.n, text \o chars, FALSE) =
              IF i < call.n /\ i - Len(text) + 1 \in DOMAIN chars THEN chars[i - Len(text) + 1]
              ELSE ByteAt(i, call.n, text, FALSE)
        BY <1>2, <3>1, ByteGrows
      <3> QED
        BY <2>3, <3>2, <3>3, Zenon
    <2>6. memory' = [i \in DOMAIN memory' |-> memory'[i]]
      BY <2>2, <2>4, Zenon
    <2> QED
      BY <1>1, <2>3, <2>4, <2>5, <2>6, Zenon
  <1>6. BytesExact'
    <2>1. (phase' = "returned") = FALSE
      BY <1>1
    <2> QED
      BY <1>1, <1>5, <2>1, Zenon DEF BytesExact
  <1> QED
    BY <1>3, <1>4, <1>6, Zenon DEF BufferInv

\* %n writes nothing to the buffer.
LEMMA BufferCount ==
  ASSUME ParseInv, BufferInv, StoreCount
  PROVE  BufferInv'
  <1>1. /\ call' = call /\ phase' = phase /\ text' = text /\ index' = index /\ memory' = memory
    BY Zenon DEF StoreCount
  <1>2. counts' \in Seq(Count) /\ CountsExact'
    BY CountStored, Zenon
  <1>3. BytesExact'
    BY <1>1, Zenon DEF BufferInv, BytesExact
  <1> QED
    BY <1>1, <1>2, <1>3, Zenon DEF BufferInv

\* The terminator goes to its place and nowhere else.
LEMMA BufferTerminates ==
  ASSUME ParseInv, BufferInv, Terminate
  PROVE  BufferInv'
  <1>1. /\ call' = call /\ phase = "format" /\ phase' = "returned" /\ text' = text
        /\ index' = index /\ counts' = counts
    BY Zenon DEF Terminate
  <1>2. text \in Seq(Printable) /\ call.n \in Nat /\ index = Len(text)
    BY ParseTypes DEF ParseInv, BufferInv
  <1>3. counts' \in Seq(Count) /\ CountsExact'
    BY <1>1, Zenon DEF BufferInv, CountsExact
  <1>4. PICK T : T = Terminator
    OBVIOUS
  <1>5. T = IF Len(text) < call.n THEN Len(text) ELSE IF call.n = 0 THEN Len(text) ELSE call.n - 1
    BY <1>2, <1>4, Zenon DEF Terminator, InBuffer
  <1>6. ASSUME call.device = "memory"
        PROVE  /\ memory' = [i \in DOMAIN memory' |-> memory'[i]]
               /\ DOMAIN memory' \subseteq Nat
               /\ \A i \in DOMAIN memory' : memory'[i] = ByteAt(i, call.n, text', TRUE)
    <2>1. memory' = Stored(<<"NUL">>, T)
      BY <1>4, <1>6, Zenon DEF Terminate, Write
    <2>2. memory' = [i \in DOMAIN memory |->
            IF i < call.n /\ i - T + 1 \in DOMAIN <<"NUL">> THEN <<"NUL">>[i - T + 1]
                ELSE memory[i]]
      BY <2>1, Zenon DEF Stored, InBuffer
    <2>3. /\ DOMAIN memory \subseteq Nat
          /\ \A i \in DOMAIN memory : memory[i] = ByteAt(i, call.n, text, FALSE)
      <3>1. (phase = "returned") = FALSE
        BY <1>1
      <3> QED
        BY <1>6, <3>1, Zenon DEF BufferInv, BytesExact
    <2>4. DOMAIN memory' = DOMAIN memory
      BY <2>2
    <2>5. ASSUME NEW i \in DOMAIN memory
          PROVE  memory'[i] = ByteAt(i, call.n, text, TRUE)
      <3>1. i \in Nat
        BY <2>3
      <3>2. memory'[i] =
              IF i < call.n /\ i - T + 1 \in DOMAIN <<"NUL">> THEN <<"NUL">>[i - T + 1]
              ELSE memory[i]
        BY <2>2, Zenon
      <3>3. ByteAt(i, call.n, text, TRUE) =
              IF i < call.n /\ i - T + 1 \in DOMAIN <<"NUL">> THEN <<"NUL">>[i - T + 1]
              ELSE ByteAt(i, call.n, text, FALSE)
        BY <1>2, <1>5, <3>1, ByteEnds, Zenon
      <3> QED
        BY <2>3, <3>2, <3>3, Zenon
    <2>6. memory' = [i \in DOMAIN memory' |-> memory'[i]]
      BY <2>2, <2>4, Zenon
    <2> QED
      BY <1>1, <2>3, <2>4, <2>5, <2>6, Zenon
  <1>7. BytesExact'
    <2>1. (phase' = "returned") = TRUE
      BY <1>1
    <2> QED
      BY <1>1, <1>6, <2>1, Zenon DEF BytesExact
  <1> QED
    BY <1>1, <1>2, <1>3, <1>7, Zenon DEF BufferInv

\* At first the buffer is as it was.
LEMMA BufferInit ==
  ASSUME CallInit
  PROVE  BufferInv
  <1>1. /\ index = 0 /\ text = <<>> /\ counts = <<>> /\ phase = "format"
        /\ memory = [i \in 0 .. (call.n + 1) |-> "old"]
    BY DEF CallInit
  <1>2. index = Len(text) /\ Len(text) = 0
    BY <1>1
  <1>3. counts \in Seq(Count) /\ CountsExact
    BY <1>1 DEF CountsExact
  <1>4. \A i \in 0 .. (call.n + 1) : i \in Nat /\ ~(i < 0)
    OBVIOUS
  <1>5. BytesExact
    <2>1. (phase = "returned") = FALSE
      BY <1>1
    <2>2. \A i \in 0 .. (call.n + 1) : ByteAt(i, call.n, text, FALSE) = "old"
      BY <1>2, <1>4, Zenon DEF ByteAt
    <2>3. DOMAIN memory = 0 .. (call.n + 1)
      BY <1>1
    <2> QED
      BY <1>1, <1>4, <2>1, <2>2, <2>3, Zenon DEF BytesExact
  <1> QED
    BY <1>2, <1>3, <1>5, Zenon DEF BufferInv

-----------------------------------------------------------------------------
(***************************************************************************)
(* The theorems.                                                           *)
(***************************************************************************)
CallInv == ParseInv /\ TextInv /\ ScreenInv /\ BufferInv

\* Every step of a call keeps the parser inside the format, the text as C says,
\* and screen and buffer what the text makes of them.
THEOREM CallInvariance == CallSpec => []CallInv
  <1>1. CallInit => CallInv
    BY ParseInit, TextInit, ScreenInit, BufferInit, Zenon DEF CallInv
  <1>2. CallInv /\ [CallNext]_callVars => CallInv'
    <2>1. SUFFICES ASSUME CallInv, [CallNext]_callVars
                   PROVE  CallInv'
      OBVIOUS
    <2>2. ParseInv /\ TextInv /\ ScreenInv /\ BufferInv
      BY <2>1, Zenon DEF CallInv
    <2>3. CASE PutStep
      <3>1. Formatting
        BY <2>2, <2>3, PutEmits, Zenon
      <3>2. PICK chars \in Seq(Printable) : Moves(chars) /\ Put(chars, Taken(Item))
        BY <2>2, <2>3, PutMoves, Zenon
      <3> QED
        BY <2>2, <3>1, <3>2, ParseMoves, TextMoves, ScreenPut, BufferPut, Zenon DEF CallInv
    <2>4. CASE StoreCount
      <3>1. Formatting
        BY <2>2, <2>4, CountMoves, Zenon
      <3>2. PICK chars \in Seq(Printable) : Moves(chars)
        BY <2>2, <2>4, CountMoves, Zenon
      <3> QED
        BY <2>2, <2>4, <3>1, <3>2, ParseMoves, TextMoves, ScreenCount, BufferCount, Zenon
              DEF CallInv
    <2>5. CASE Terminate
      BY <2>2, <2>5, ParseTerminates, TextTerminates, ScreenTerminates, BufferTerminates, Zenon
            DEF CallInv
    <2>6. CASE UNCHANGED callVars
      <3>1. /\ call' = call /\ at' = at /\ arg' = arg /\ index' = index /\ text' = text
            /\ memory' = memory /\ sent' = sent /\ counts' = counts /\ phase' = phase
        BY <2>6, Zenon DEF callVars
      <3>2. ParseInv'
        BY <2>2, <3>1, Zenon DEF ParseInv
      <3>3. TextInv'
        <4>1. TextBehind(arg', at - 1, text') /\ at' - 1 = at - 1
          BY <2>2, <3>1, Zenon DEF TextInv
        <4> QED
          BY <3>1, <4>1, TextPrimed, Zenon
      <3>4. ScreenInv'
        BY <2>2, <3>1, Zenon DEF ScreenInv
      <3>5. BufferInv'
        BY <2>2, <3>1, Zenon DEF BufferInv, BytesExact, CountsExact
      <3> QED
        BY <3>2, <3>3, <3>4, <3>5, Zenon DEF CallInv
    <2> QED
      BY <2>1, <2>3, <2>4, <2>5, <2>6, Zenon DEF CallNext, PutStep, Returned
  <1> QED
    BY <1>1, <1>2, PTL DEF CallSpec

\* Neither the format nor the arguments are read past their end.
THEOREM CallTypeCorrect == CallSpec => []CallTypeOK
  <1>1. CallInv => CallTypeOK
    <2>1. SUFFICES ASSUME CallInv
                   PROVE  CallTypeOK
      OBVIOUS
    <2>2. ParseInv /\ BufferInv
      BY <2>1, Zenon DEF CallInv
    <2>3. arg \in 1 .. (Len(call.args) + 1)
      BY <2>2, ParseTypes, Zenon
    <2>4. index \in Nat
      <3>1. index = Len(text) /\ text \in Seq(Printable)
        BY <2>2, Zenon DEF ParseInv, BufferInv
      <3> QED
        BY <3>1
    <2> QED
      BY <2>2, <2>3, <2>4, Zenon DEF CallTypeOK, ParseInv
  <1> QED
    BY <1>1, CallInvariance, PTL

LEMMA MinTwo ==
  ASSUME NEW a \in Nat, NEW b \in Nat
  PROVE  Min({a, b}) = IF a < b + 1 THEN a ELSE b
  <1>1. CASE a < b + 1
    <2>1. PICK S : S = {a, b}
      OBVIOUS
    <2>2. S \subseteq Nat /\ a \in S /\ \A y \in S : a <= y
      BY <1>1, <2>1
    <2>3. Min(S) = a
      BY <2>2, MinUnique
    <2> QED
      BY <1>1, <2>1, <2>3, Zenon
  <1>2. CASE ~(a < b + 1)
    <2>1. PICK S : S = {a, b}
      OBVIOUS
    <2>2. S \subseteq Nat /\ b \in S /\ \A y \in S : b <= y
      BY <1>2, <2>1
    <2>3. Min(S) = b
      BY <2>2, MinUnique
    <2> QED
      BY <1>2, <2>1, <2>3, Zenon
  <1> QED
    BY <1>1, <1>2, Zenon

\* snprintf writes what fits in the buffer and its terminator, and nothing else;
\* it returns, and stores for %n, the length of the whole text: for every size
\* of the buffer and every call.  Where a precision asks for no more zeros than
\* num_buffer has room for, no number goes beyond it.
THEOREM BufferAlwaysExact == CallSpec => []BufferExact
  <1>1. CallInv => BufferExact
    <2>1. SUFFICES ASSUME CallInv
                   PROVE  BufferExact
      OBVIOUS
    <2>2. ParseInv /\ BufferInv /\ call.n \in Nat /\ text \in Seq(Printable)
              /\ phase \in {"format", "returned"}
      BY <2>1, ParseTypes, Zenon DEF CallInv, ParseInv
    <2>3. index = Len(text)
          /\ \A k \in DOMAIN counts :
               counts[k].value = counts[k].before % Power(2, Bits[counts[k].length])
      BY <2>2, Zenon DEF BufferInv, CountsExact
    <2>4. ASSUME call.device = "memory", NEW i \in DOMAIN memory
          PROVE  memory[i] =
                   IF i >= call.n THEN "old"
                   ELSE IF phase = "returned" /\ i = Min({Len(text), call.n - 1}) THEN "NUL"
                   ELSE IF i < Len(text) /\ (phase = "format" \/ i < call.n - 1) THEN text[i + 1]
                   ELSE "old"
      <3>1. i \in Nat /\ memory[i] = ByteAt(i, call.n, text, phase = "returned")
        BY <2>2, <2>4, Zenon DEF BufferInv, BytesExact
      <3>2. CASE i >= call.n
        BY <3>1, <3>2, Zenon DEF ByteAt
      <3>3. CASE ~(i >= call.n)
        <4>1. call.n - 1 \in Nat /\ (call.n - 1) + 1 = call.n /\ Len(text) \in Nat
          BY <2>2, <3>1, <3>3
        <4>2. Min({Len(text), call.n - 1}) = IF Len(text) < call.n THEN Len(text) ELSE call.n - 1
          BY <4>1, MinTwo
        <4>3. phase = "format" <=> ~(phase = "returned")
          BY <2>2
        <4> QED
          BY <3>1, <3>3, <4>2, <4>3, Zenon DEF ByteAt
      <3> QED
        BY <3>2, <3>3, Zenon
    <2>5. ASSUME Formatting
          PROVE  /\ Item.spec \in {"u", "o", "x", "X"} => Len(UnsignedNumeral) <= NUM_BUFFER
                 /\ Item.spec = "p" => Len(PointerNumeral) <= NUM_BUFFER
                 /\ Item.spec \in {"d", "i"} => Len(SignedNumeral) <= NUM_BUFFER
      BY <2>2, <2>5, NumeralFits, Zenon
    <2> QED
      BY <2>3, <2>4, <2>5, Zenon DEF BufferExact
  <1> QED
    BY <1>1, CallInvariance, PTL

\* A plain call's text is the one C prescribes, whatever the numbers, for every
\* width that uint16_t holds and every precision that num_buffer has room for;
\* the division under it is exact; and the screen is sent the text with a
\* carriage return before every line feed.
THEOREM TextAlwaysExact == CallSpec => []TextExact
  <1>1. CallInv => TextExact
    <2>1. SUFFICES ASSUME CallInv, phase = "returned"
                   PROVE  /\ PlainCall => text = ReferenceText
                          /\ \A k \in DOMAIN call.args : \A D \in 1 .. (Power(2, MAXBITS) - 1) :
                               LET N == call.args[k].num % Power(2, MAXBITS)
                               IN  unsigned_division64(N, D) =
                                       [quotient |-> N \div D, remainder |-> N % D]
                          /\ call.device = "screen" =>
                               /\ Without("CR", sent) = Without("NUL", text)
                               /\ \A k \in DOMAIN sent :
                                    sent[k] = "LF" => k > 1 /\ sent[k - 1] = "CR"
      BY Zenon DEF TextExact, PlainCall
    <2>2. ParseInv /\ TextInv /\ ScreenInv
      BY <2>1, Zenon DEF CallInv
    <2>3. call.format \in Seq(Directives) /\ call.args \in Seq(Arguments)
      BY <2>2, ParseTypes, Zenon
    <2>4. ASSUME PlainCall
          PROVE  text = ReferenceText
      <3>1. at = Len(call.format) + 1
        BY <2>1, <2>2, Zenon DEF ParseInv
      <3>2. at - 1 = Len(call.format) /\ DOMAIN call.format = 1 .. Len(call.format)
        BY <2>3, <3>1
      <3>3. text = FlattenSeq(Texts(Len(call.format)))
        BY <2>2, <2>4, <3>2, Zenon DEF TextInv, TextBehind
      <3> QED
        BY <3>2, <3>3, Zenon DEF Texts, Prescribed, ReferenceText
    <2>5. ASSUME NEW k \in DOMAIN call.args, NEW D \in 1 .. (Power(2, MAXBITS) - 1),
                 NEW N, N = call.args[k].num % Power(2, MAXBITS)
          PROVE  unsigned_division64(N, D) = [quotient |-> N \div D, remainder |-> N % D]
      <3>1. call.args[k] \in Arguments
        BY <2>3
      <3>2. call.args[k].num \in Int
        BY <3>1 DEF Arguments
      <3>3. PICK P : P = Power(2, MAXBITS)
        OBVIOUS
      <3>4. P \in Nat \ {0}
        <4>1. 2 \in Nat \ {0} /\ MAXBITS \in Nat
          BY ArithmeticAssumption
        <4> QED
          BY <3>3, <4>1, PowerPositive, Zenon
      <3>5. N \in 0 .. (Power(2, MAXBITS) - 1)
        BY <2>5, <3>2, <3>3, <3>4, ModRange, Zenon
      <3>6. D \in Nat \ {0}
        <4>1. D \in 1 .. (P - 1)
          BY <2>5, <3>3, Zenon
        <4> QED
          BY <3>4, <4>1
      <3> QED
        BY <3>5, <3>6, DivisionExact, Zenon
    <2>6. ASSUME call.device = "screen"
          PROVE  /\ Without("CR", sent) = Without("NUL", text)
                 /\ \A k \in DOMAIN sent : sent[k] = "LF" => k > 1 /\ sent[k - 1] = "CR"
      <3>1. sent \in Seq(Sendable) /\ Returns(sent) /\ Without("CR", sent) = Without("NUL", text)
        BY <2>2, <2>6, Zenon DEF ScreenInv
      <3>2. DOMAIN sent = 1 .. Len(sent)
        BY <3>1
      <3> QED
        BY <3>1, <3>2, Zenon DEF Returns
    <2> QED
      BY <2>4, <2>5, <2>6, Zenon
  <1> QED
    BY <1>1, CallInvariance, PTL
=============================================================================
