--------------------------------- MODULE Mbr ---------------------------------
(***************************************************************************)
(* The boot sector (MBR/mbr.asm): it checks the BIOS and the drive, reads  *)
(* the GPT header, reads the partition table over it, searches the table   *)
(* for the partition of the second-stage loader (SSL) and reads that over  *)
(* the table.  One 64 KB segment holds all three in turn, so a cell of     *)
(* memory is modelled by where its content came from.                      *)
(*                                                                         *)
(* Memory is counted in units of 16 bytes, the size of a partition type:   *)
(* an entry has its type in the first unit and its start LBA in the third. *)
(***************************************************************************)
EXTENDS Integers

CONSTANTS
  SECTOR,     \* units in a sector
  SEGMENT,    \* units in 64 KB: the range of DI
  SSL_SECTORS,
  WORD,       \* 2^16, the range of CX and of DAP.sectors
  DWORD,      \* 2^32, the range of the quotient of div
  Drives      \* drives the program may be booted from

(* A drive has
     sector : its sector size in units;
     gpt    : whether LBA 1 begins with the signature;
     count, size, lba : the fields of its header, size in units;
     ssl    : the table's SSL entries, index -> start LBA;
   and its BIOS reads at most limit sectors in a call.                     *)
ASSUME MbrAssumption ==
  /\ SECTOR \in Nat \ {0, 1} /\ SEGMENT \in Nat /\ SSL_SECTORS \in Nat
  /\ WORD \in Nat \ {0, 1} /\ DWORD \in Nat /\ WORD <= DWORD
  /\ SSL_SECTORS * SECTOR <= SEGMENT /\ SEGMENT < WORD * SECTOR
  /\ \A d \in Drives :
       /\ d.count \in Nat /\ d.size \in Nat /\ d.size > 2 /\ d.lba \in Nat \ {0}
       /\ d.limit \in Nat /\ d.limit * SECTOR <= SEGMENT
       /\ DOMAIN d.ssl \subseteq 0 .. (d.count - 1)
       /\ \A e \in DOMAIN d.ssl : d.ssl[e] \in Nat

VARIABLES
  drive,
  es,         \* the segment: offset -> the unit of the drive it holds
  dap,        \* lba and sectors
  cx, edx, ebp,
  al,         \* the error code printed, 0 for none
  pc

vars == <<drive, es, dap, cx, edx, ebp, al, pc>>

\* Unit k of sector lba; leftovers of an earlier boot have LBA 0, and one of
\* them may look like the type of the SSL partition.
Unit(lba, k) == [lba |-> lba, k |-> k]
LEFTOVER == Unit(0, 0)
OLDTYPE  == Unit(0, 1)

\* The position of a unit in the partition table.
Position(u) == (u.lba - drive.lba) * SECTOR + u.k

InTable(u) == u.lba >= drive.lba /\ Position(u) < drive.count * drive.size

\* memcmp of ssl_part_type with the unit.
IsSslType(u) ==
  \/ u = OLDTYPE
  \/ /\ InTable(u)
     /\ Position(u) % drive.size = 0
     /\ Position(u) \div drive.size \in DOMAIN drive.ssl

\* The quadword a unit begins with, 0 if it is not a start LBA.
Quad(u) ==
  LET entry == Position(u) \div drive.size
  IN  IF InTable(u) /\ Position(u) % drive.size = 2 /\ entry \in DOMAIN drive.ssl
      THEN drive.ssl[entry]
      ELSE 0

Init ==
  /\ drive \in Drives
  /\ \E old \in {LEFTOVER, OLDTYPE} :
       es = [o \in 0 .. (SEGMENT - 1) |-> IF o = SECTOR + 1 THEN old ELSE LEFTOVER]
  /\ dap = [lba |-> 1, sectors |-> 1]
  /\ cx = 0 /\ edx = 0 /\ ebp = 0
  /\ al = 0
  /\ pc = "extensions"

-----------------------------------------------------------------------------
Fail(code) == al' = code /\ pc' = "halt"

\* read_drive transfers the sectors the packet asks for.
Transfer ==
  /\ dap'.sectors <= drive.limit
  /\ es' = [o \in DOMAIN es |-> IF o < dap'.sectors * SECTOR
                                THEN Unit(dap'.lba + o \div SECTOR, o % SECTOR)
                                ELSE es[o]]

\* int 13h, function 41h.
CheckExtensions ==
  /\ pc = "extensions"
  /\ \/ pc' = "sector size" /\ UNCHANGED al
     \/ Fail(1)
  /\ UNCHANGED <<drive, es, dap, cx, edx, ebp>>

\* int 13h, function 48h.
CheckSectorSize ==
  /\ pc = "sector size"
  /\ \/ drive.sector = SECTOR /\ pc' = "header" /\ UNCHANGED al
     \/ Fail(2)
  /\ UNCHANGED <<drive, es, dap, cx, edx, ebp>>

ReadHeader ==
  /\ pc = "header"
  /\ UNCHANGED dap
  /\ \/ Transfer /\ pc' = "signature" /\ UNCHANGED al
     \/ Fail(3) /\ UNCHANGED es
  /\ UNCHANGED <<drive, cx, edx, ebp>>

CheckSignature ==
  /\ pc = "signature"
  /\ \/ drive.gpt /\ pc' = "table" /\ UNCHANGED al
     \/ ~drive.gpt /\ Fail(4)
  /\ UNCHANGED <<drive, es, dap, cx, edx, ebp>>

\* mul, div and the rounding up; the packet takes the low word.
Sectors(units) == (units \div SECTOR + (IF units % SECTOR = 0 THEN 0 ELSE 1)) % WORD

\* Mutant: the table is looked for where the header is.
TablePacketStale == [dap EXCEPT !.sectors = Sectors(drive.count * drive.size)]

TablePacket == [lba |-> drive.lba, sectors |-> Sectors(drive.count * drive.size)]

\* The fields are taken from the header before the table is read over it:
\* count and size wait on the stack.
ReadTable ==
  /\ pc = "table"
  /\ (drive.count * drive.size) \div SECTOR < DWORD
  /\ dap' = TablePacket
  /\ \/ /\ Transfer
        /\ ebp' = drive.size
        /\ cx' = drive.count % WORD
        /\ edx' = 0
        /\ pc' = "search"
        /\ UNCHANGED al
     \/ Fail(5) /\ UNCHANGED <<es, cx, edx, ebp>>
  /\ UNCHANGED drive

\* The quotient does not fit: the division faults.
DivideFaults ==
  /\ pc = "table"
  /\ (drive.count * drive.size) \div SECTOR >= DWORD
  /\ pc' = "fault"
  /\ UNCHANGED <<drive, es, dap, cx, edx, ebp, al>>

\* Mutant: the loop goes back to the comparison without going on.
NextEntryStuck == UNCHANGED <<cx, edx, al, pc>>

\* Mutant: the counter is wider than CX.
NextEntryWide ==
  /\ edx' = edx + ebp
  /\ cx' = cx - 1
  /\ \/ cx \notin {0, 1} /\ UNCHANGED <<al, pc>>
     \/ cx \in {0, 1} /\ Fail(6)

\* add edx, ebp; loop: a counter of 0 wraps.
NextEntry ==
  /\ edx' = edx + ebp
  /\ cx' = (cx - 1) % WORD
  /\ \/ cx # 1 /\ UNCHANGED <<al, pc>>
     \/ cx = 1 /\ Fail(6)

\* One comparison, at offset DI.
Search ==
  /\ pc = "search"
  /\ \/ IsSslType(es[edx % SEGMENT]) /\ pc' = "load" /\ UNCHANGED <<cx, edx, al>>
     \/ ~IsSslType(es[edx % SEGMENT]) /\ NextEntry
  /\ UNCHANGED <<drive, es, dap, ebp>>

\* The start LBA is read with the full EDX, within the segment's limit.
LoadSsl ==
  /\ pc = "load" /\ edx + 2 < SEGMENT
  /\ dap' = [lba |-> Quad(es[edx + 2]), sectors |-> SSL_SECTORS]
  /\ \/ Transfer /\ pc' = "ssl" /\ UNCHANGED al
     \/ Fail(7) /\ UNCHANGED es
  /\ UNCHANGED <<drive, cx, edx, ebp>>

LimitFaults ==
  /\ pc = "load" /\ edx + 2 >= SEGMENT
  /\ pc' = "fault"
  /\ UNCHANGED <<drive, es, dap, cx, edx, ebp, al>>

Stopped == pc \in {"ssl", "halt", "fault"}

\* The SSL runs, the processor halts, or the BIOS has the fault.
Stay == Stopped /\ UNCHANGED vars

Next ==
  \/ CheckExtensions \/ CheckSectorSize \/ ReadHeader \/ CheckSignature
  \/ ReadTable \/ DivideFaults \/ Search \/ LoadSsl \/ LimitFaults \/ Stay

\* The program runs alone, and every BIOS call returns.
Spec == Init /\ [][Next]_vars /\ WF_vars(Next)

-----------------------------------------------------------------------------
(***************************************************************************)
(* Properties.                                                             *)
(***************************************************************************)
\* The registers and the packet have the widths of the program's.
TypeOK ==
  /\ DOMAIN es = 0 .. (SEGMENT - 1)
  /\ \A o \in DOMAIN es : es[o].lba \in Nat /\ es[o].k \in 0 .. (SECTOR - 1)
  /\ dap \in [lba : Nat, sectors : 0 .. (WORD - 1)]
  /\ cx \in 0 .. (WORD - 1) /\ edx \in Nat /\ ebp \in Nat
  /\ al \in 0 .. 7
  /\ al # 0 <=> pc = "halt"
  /\ pc \in {"extensions", "sector size", "header", "signature", "table",
             "search", "load", "ssl", "halt", "fault"}

\* The table has entries, no more than CX counts, and one call reads it.
Readable ==
  /\ drive.count \in 1 .. WORD
  /\ drive.count * drive.size <= drive.limit * SECTOR

\* When the whole table was read, the SSL is started exactly from the first
\* SSL entry, all its sectors in place, although header, table and SSL take
\* turns in one buffer; code 6 is printed only if the table has no such
\* entry; and nothing faults.
SearchExact ==
  Readable =>
    /\ pc = "ssl" =>
         \E first \in DOMAIN drive.ssl :
           /\ \A e \in DOMAIN drive.ssl : first <= e
           /\ \A o \in 0 .. (SSL_SECTORS * SECTOR - 1) :
                es[o] = Unit(drive.ssl[first] + o \div SECTOR, o % SECTOR)
    /\ al = 6 => DOMAIN drive.ssl = {}
    /\ pc # "fault"

\* The search comes to an end, with an entry count of 0, or one that CX cannot
\* hold, too.
Terminates == <>Stopped
=============================================================================
