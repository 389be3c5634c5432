--------------------------------- MODULE Boot ---------------------------------
(***************************************************************************)
(* The second-stage loader from its entry to the jump to the third-stage   *)
(* loader (SSL/src/ssl_entry.c, with what it calls in utils.c and mem.c).  *)
(* The stages work on one heap and on one processor state: A20 (module     *)
(* A20) and the 4 GB segment limit that load_kernel needs above 1 MB, the  *)
(* descriptors the final jump needs, and the blocks whose addresses end up *)
(* in boot_info.                                                           *)
(*                                                                         *)
(* What modules MemoryMap, PartitionTable and ImageLoad show of their      *)
(* stages is used here: a call has all its effect, or fails and leaves the *)
(* heap as it was.                                                         *)
(***************************************************************************)
EXTENDS BlockList, A20, Sequences

CONSTANTS
  Machines,   \* what the loader may be run on
  Sizeof,     \* sizes of the program's structs, by name
  SECTOR,     \* SECTOR_SIZE
  SSL,        \* the address of the loader's segment, DS << 4
  RAMFS,      \* 1 MB, the address load_kernel and create_boot_info are given
  LIMIT16,    \* 2^16: limits are 4 bits longer than LIMIT16 - 1
  LIMIT4,     \* 2^4
  PAGE        \* the granularity a descriptor's limit may have

(* Besides the fields of A20 a machine has
     cpuid             : the ID flag can be changed;
     level, extlevel   : CPUID levels 1 and 80000001h exist;
     features          : the features the processor has;
     claims            : the features CPUID reports, PAE under level 1 and
                         LM and PG1G under 80000001h, which are sure to be
                         the processor's own only if that level exists;
     keeps             : no BIOS call reloads a segment limit;
     sector, guid      : the sector size and the GUID of the drive;
     gpt, intact       : the header has the signature, and its checksum;
     entries, used     : entries of the partition table, and those in use;
     tsl, kernel       : there is a partition of the type;
     large             : the TSL's partition has the 128 sectors at which
                         bios_read_drive splits a read that fails;
     sectors           : sectors of the kernel partition;
     told              : entries of the BIOS memory map;
     video             : int 10h, function 0Fh works.                      *)
ASSUME BootAssumption ==
  /\ Sizeof \in [{"memory_map", "memory_map_node", "memory_map_entry", "GPT_header",
                  "GPT_partition_array", "GPT_partition_entry", "boot_info_t",
                  "video_lintext"} -> Nat]
  /\ Sizeof.GPT_header <= SECTOR
  /\ SECTOR \in Nat \ {0} /\ SSL \in Nat /\ RAMFS \in Nat
  /\ LIMIT16 \in Nat \ {0} /\ LIMIT4 \in Nat \ {0} /\ PAGE \in Nat \ {0}
  /\ \A m \in Machines :
       /\ m.entries \in Nat /\ m.used \in Nat /\ m.used <= m.entries
       /\ m.sectors \in Nat /\ m.told \in Nat
       /\ m.level => m.claims \cap {"PAE"} \subseteq m.features
       /\ m.extlevel => m.claims \cap {"LM", "PG1G"} \subseteq m.features

VARIABLES
  machine,
  heap,
  live,       \* the blocks the loader still refers to, by what they hold
  gdt,        \* the descriptors, empty before they are set
  cpu,        \* gdtr is loaded, limit of DS in unreal mode, PE, interrupts
  low,        \* the memory at 0 holds "vectors" or the jump "stub"
  loaded,     \* what is kept of the drive: its GUID, how the TSL was loaded,
              \* and how many sectors of the kernel
  boot_info,
  pc

vars == <<a20vars, machine, heap, live, gdt, cpu, low, loaded, boot_info, pc>>

hardware == <<a20vars, gdt, cpu, low>>
memory   == <<heap, live, loaded, boot_info>>

NoInfo == [size |-> 0]

\* The array drive_GUID before it is filled.
NOGUID == "zeros"

Init ==
  /\ machine \in Machines
  /\ A20Init(machine)
  /\ heap = MemInit
  /\ live = [b \in {} |-> NULL]
  /\ gdt = << >>
  /\ cpu = [gdtr |-> FALSE, big |-> FALSE, pe |-> FALSE, interrupts |-> TRUE]
  /\ low = "vectors"
  /\ loaded = [drive_GUID |-> NOGUID, tsl |-> "not", kernel |-> 0]
  /\ boot_info = NoInfo
  /\ pc = "cpuid"

-----------------------------------------------------------------------------
(***************************************************************************)
(* The processor.                                                          *)
(***************************************************************************)
CheckCpuid ==
  /\ pc = "cpuid"
  /\ pc' = IF machine.cpuid THEN "compat" ELSE "halt"
  /\ UNCHANGED <<machine, hardware, memory>>

\* CPUID is asked for both levels if it has one of them.
Compatible ==
  /\ machine.level \/ machine.extlevel
  /\ {"PAE", "LM", "PG1G"} \subseteq machine.claims

check_cpu_compat ==
  /\ pc = "compat"
  /\ pc' = IF Compatible THEN "a20" ELSE "halt"
  /\ UNCHANGED <<machine, hardware, memory>>

\* A step of enable_A20, or of the keyboard controller meanwhile.
EnableA20 ==
  /\ pc = "a20"
  /\ enable_A20(machine)
  /\ UNCHANGED <<machine, gdt, cpu, low, memory, pc>>

KeyboardController ==
  /\ pc = "a20"
  /\ Controller(machine)
  /\ UNCHANGED <<machine, gdt, cpu, low, memory, pc>>

A20Answered == pc' = IF a20 = "on" THEN "gdt" ELSE "halt"

A20Done ==
  /\ pc = "a20" /\ a20 \in {"on", "off"}
  /\ A20Answered
  /\ UNCHANGED <<machine, hardware, memory>>

-----------------------------------------------------------------------------
(***************************************************************************)
(* Descriptors.                                                            *)
(***************************************************************************)
\* Mutant: the upper bits of the limit are lost.
set_GDT32_entryShort(limit, flags, access) ==
  [low |-> limit % LIMIT16, high |-> 0, flags |-> flags, access |-> access]

\* The base is 0 in all of them.  The bits of the limit above the upper four
\* are dropped.
set_GDT32_entry(limit, flags, access) ==
  [low |-> limit % LIMIT16, high |-> (limit \div LIMIT16) % LIMIT4,
   flags |-> flags, access |-> access]

\* 4 GB - 1
ALL == LIMIT16 * LIMIT4 * PAGE - 1

Flat(flags, access) ==
  set_GDT32_entry(ALL, {"granularity"} \cup flags, {"present", "segment"} \cup access)

LoadGdt ==
  /\ pc = "gdt"
  /\ gdt' = <<set_GDT32_entry(0, {}, {}),
              Flat({"size"}, {"executable", "readable"}),
              Flat({"size"}, {"writeable"}),
              Flat({"long"}, {"executable", "readable"})>>
  /\ cpu' = [cpu EXCEPT !.gdtr = TRUE]
  /\ pc' = "unreal"
  /\ UNCHANGED <<machine, a20vars, low, memory>>

\* The limit that a descriptor gives a segment.
SegmentLimit(d) ==
  LET limit == d.high * LIMIT16 + d.low
  IN  IF "granularity" \in d.flags THEN (limit + 1) * PAGE - 1 ELSE limit

\* DS and ES are loaded in protected mode with the data descriptor; back in
\* real mode the new base comes with the old limit.
enter_unreal ==
  /\ pc = "unreal"
  /\ cpu' = [cpu EXCEPT !.big = cpu.gdtr /\ SegmentLimit(gdt[3]) = ALL,
                        !.interrupts = TRUE]
  /\ pc' = "map"
  /\ UNCHANGED <<machine, a20vars, gdt, low, memory>>

\* Any BIOS call may come back with a limit of 64 KB, unless the BIOS is known
\* not to touch the segment registers.
Bios ==
  /\ cpu' \in {cpu, [cpu EXCEPT !.big = cpu.big /\ machine.keeps]}
  /\ UNCHANGED <<machine, a20vars, gdt, low>>

-----------------------------------------------------------------------------
(***************************************************************************)
(* Memory map and partition table.                                         *)
(***************************************************************************)
\* What one malloc of each size in turn comes to: the addresses and the heap
\* after the last.  There is nothing if one of them fails.
Mallocs(h, sizes) ==
  LET after[k \in 0 .. Len(sizes)] ==
        IF k = 0 THEN {[ptrs |-> << >>, heap |-> h]}
        ELSE UNION {{[ptrs |-> Append(r.ptrs, m.ptr), heap |-> m.heap] :
                       m \in {n \in {Malloc(r.heap, sizes[k])} : n.ptr # NULL}} :
                    r \in after[k - 1]}
  IN  after[Len(sizes)]

Block(struct, items) == [struct |-> struct, items |-> items]

\* The blocks in use when those at the addresses ptrs are added.
With(ptrs, blocks) ==
  [p \in DOMAIN live \cup {ptrs[k] : k \in DOMAIN ptrs} |->
     IF \E k \in DOMAIN ptrs : ptrs[k] = p
     THEN blocks[CHOOSE k \in DOMAIN ptrs : ptrs[k] = p]
     ELSE live[p]]

Without(ptr) == [p \in DOMAIN live \ {ptr} |-> live[p]]

\* The block of a struct of which there is one.
The(struct) == CHOOSE p \in DOMAIN live : live[p].struct = struct

Halt == pc' = "halt" /\ UNCHANGED memory

\* The map lists its nodes, and node k holds the k-th entry the BIOS told.
get_memory_map ==
  /\ pc = "map"
  /\ Bios
  /\ LET nodes == [k \in 1 .. machine.told |-> Block("memory_map_node", <<k>>)]
         sizes == <<Sizeof.memory_map>> \o [k \in DOMAIN nodes |-> Sizeof.memory_map_node]
     IN  \/ Halt
         \/ \E r \in Mallocs(heap, sizes) :
              /\ heap' = r.heap
              /\ live' = With(r.ptrs, <<Block("memory_map", Tail(r.ptrs))>> \o nodes)
              /\ pc' = "drive"
              /\ UNCHANGED <<loaded, boot_info>>

CheckSectorSize ==
  /\ pc = "drive"
  /\ Bios
  /\ \/ Halt
     \/ machine.sector = SECTOR /\ pc' = "header" /\ UNCHANGED memory

\* malloc of one struct's block.
Allocate(size, block) ==
  \E r \in Mallocs(heap, <<size>>) :
    /\ heap' = r.heap
    /\ live' = With(r.ptrs, <<block>>)
    /\ UNCHANGED loaded

Exhausted(size) == Mallocs(heap, <<size>>) = {}

AllocateHeader ==
  /\ pc = "header"
  /\ \/ Allocate(SECTOR, Block("GPT_header", << >>)) /\ pc' = "read" /\ UNCHANGED boot_info
     \/ Exhausted(SECTOR) /\ Halt
  /\ UNCHANGED <<machine, hardware>>

\* The sector is read, and its block cut down to the header.
ReadHeader ==
  /\ pc = "read"
  /\ Bios
  /\ \/ Halt
     \/ /\ heap' = Realloc(heap, The("GPT_header"), Sizeof.GPT_header).heap
        /\ pc' = "check"
        /\ UNCHANGED <<live, loaded, boot_info>>

\* Signature and checksum; the GUID of a sound header is kept.
CheckHeader ==
  /\ pc = "check"
  /\ \/ /\ machine.gpt /\ machine.intact
        /\ loaded' = [loaded EXCEPT !.drive_GUID = machine.guid]
        /\ pc' = "table"
     \/ /\ ~(machine.gpt /\ machine.intact)
        /\ pc' = "halt"
        /\ UNCHANGED loaded
  /\ UNCHANGED <<machine, hardware, heap, live, boot_info>>

\* The entries in use stay on the heap.
get_partition_array ==
  /\ pc = "table"
  /\ Bios
  /\ LET bytes == machine.entries * Sizeof.GPT_partition_entry
         sectors == bytes \div SECTOR + (IF bytes % SECTOR = 0 THEN 0 ELSE 1)
     IN  \/ Halt
         \/ \E r \in Mallocs(heap, <<Sizeof.GPT_partition_array, sectors * SECTOR>>) :
              /\ heap' = Realloc(r.heap, r.ptrs[2],
                                 machine.used * Sizeof.GPT_partition_entry).heap
              /\ live' = With(r.ptrs, <<Block("GPT_partition_array", <<r.ptrs[2]>>),
                                        Block("entries", << >>)>>)
              /\ pc' = "find"
              /\ UNCHANGED <<loaded, boot_info>>

FindPartitions ==
  /\ pc = "find"
  /\ pc' = IF machine.tsl /\ machine.kernel THEN "load" ELSE "halt"
  /\ UNCHANGED <<machine, hardware, memory>>

-----------------------------------------------------------------------------
(***************************************************************************)
(* Loading.                                                                *)
(***************************************************************************)
\* What a read of the TSL's partition that succeeds has put in memory.  One of
\* 128 sectors may have failed and succeeded in two parts, the second of which
\* reads the first sector again (TslExact of module ImageLoad).
TslRead == {"whole"} \cup (IF machine.large THEN {"but its last sector"} ELSE {})

LoadTsl ==
  /\ pc = "load"
  /\ Bios
  /\ \/ Halt
     \/ /\ \E t \in TslRead : loaded' = [loaded EXCEPT !.tsl = t]
        /\ pc' = "buffer"
        /\ UNCHANGED <<heap, live, boot_info>>

AllocateBuffer ==
  /\ pc = "buffer"
  /\ \/ Allocate(SECTOR, Block("buffer", << >>)) /\ pc' = "kernel" /\ UNCHANGED boot_info
     \/ Exhausted(SECTOR) /\ Halt
  /\ UNCHANGED <<machine, hardware>>

\* Mutant: the buffer is kept when nobody refers to it any more.
BufferKept ==
  /\ live' = Without(The("buffer"))
  /\ UNCHANGED heap

BufferFreed ==
  /\ heap' = Free(heap, The("buffer"))
  /\ live' = Without(The("buffer"))

\* Mutant: one sector more.
KernelReadLate == loaded.kernel > machine.sectors

KernelRead == loaded.kernel = machine.sectors

\* One sector is read and copied above 1 MB, through a segment whose limit
\* the read may have changed.
LoadSector ==
  /\ pc = "kernel" /\ ~KernelRead
  /\ Bios
  /\ \/ /\ cpu'.big
        /\ loaded' = [loaded EXCEPT !.kernel = @ + 1]
        /\ UNCHANGED <<heap, live, pc>>
     \/ ~cpu'.big /\ pc' = "fault" /\ UNCHANGED <<heap, live, loaded>>
     \/ BufferFreed /\ pc' = "halt" /\ UNCHANGED loaded
  /\ UNCHANGED boot_info

KernelLoaded ==
  /\ pc = "kernel" /\ KernelRead
  /\ BufferFreed
  /\ pc' = "info"
  /\ UNCHANGED <<machine, hardware, loaded, boot_info>>

-----------------------------------------------------------------------------
(***************************************************************************)
(* create_boot_info.                                                       *)
(***************************************************************************)
Physical(ptr) == ptr + SSL

AllocateInfo ==
  /\ pc = "info"
  /\ \/ /\ Allocate(Sizeof.boot_info_t, Block("boot_info_t", << >>))
        /\ boot_info' = [size |-> Sizeof.boot_info_t,
                         boot_drive |-> [GUID |-> loaded.drive_GUID]]
        /\ pc' = "array"
     \/ Exhausted(Sizeof.boot_info_t) /\ Halt
  /\ UNCHANGED <<machine, hardware>>

\* The entries along the list of the memory map.
Listed ==
  LET list == live[The("memory_map")].items
  IN  [k \in DOMAIN list |-> live[list[k]].items[1]]

MapInfo(ptr) ==
  [entry_size |-> Sizeof.memory_map_entry, count |-> machine.told, address |-> Physical(ptr)]

InfoFreed ==
  /\ heap' = Free(heap, The("boot_info_t"))
  /\ live' = Without(The("boot_info_t"))

\* The list becomes an array.
CopyMap ==
  /\ pc = "array"
  /\ LET size == machine.told * Sizeof.memory_map_entry
     IN  \/ /\ Allocate(size, Block("map array", Listed))
            /\ boot_info' = [size |-> boot_info.size, boot_drive |-> boot_info.boot_drive,
                             memory_map |-> MapInfo(Malloc(heap, size).ptr)]
            /\ pc' = "video"
         \/ Exhausted(size) /\ InfoFreed /\ pc' = "halt" /\ UNCHANGED <<loaded, boot_info>>
  /\ UNCHANGED <<machine, hardware>>

\* The last fields: the video mode, and where the kernel is.
VideoInfo(type, ptr) ==
  boot_info' = [size |-> boot_info.size, boot_drive |-> boot_info.boot_drive,
                memory_map |-> boot_info.memory_map,
                video_info |-> [type |-> type, address |-> Physical(ptr)],
                RAMFS |-> [address |-> RAMFS]]

\* _query_video: without a mode or without memory for it there is no video,
\* and the address is that of offset 0.
QueryVideo ==
  /\ pc = "video"
  /\ Bios
  /\ \/ /\ machine.video
        /\ Allocate(Sizeof.video_lintext, Block("video_lintext", << >>))
        /\ VideoInfo("LINTEXT", Malloc(heap, Sizeof.video_lintext).ptr)
     \/ /\ ~machine.video \/ Exhausted(Sizeof.video_lintext)
        /\ VideoInfo("NOVIDEO", NULL)
        /\ UNCHANGED <<heap, live, loaded>>
  /\ pc' = "finish"

-----------------------------------------------------------------------------
(***************************************************************************)
(* The final assembly.                                                     *)
(***************************************************************************)
InterruptsOff == [cpu EXCEPT !.interrupts = FALSE]

\* cli; both interrupt controllers are masked.
DisableInterrupts ==
  /\ pc = "finish"
  /\ cpu' = InterruptsOff
  /\ pc' = "protect"
  /\ UNCHANGED <<machine, a20vars, gdt, low, memory>>

\* CR0.PE, and the data descriptor in all segment registers but CS.
EnterProtectedMode ==
  /\ pc = "protect"
  /\ cpu' = [cpu EXCEPT !.pe = TRUE]
  /\ pc' = "stub"
  /\ UNCHANGED <<machine, a20vars, gdt, low, memory>>

\* A far jump to address 0, where the jump to the TSL is.
JumpToTsl ==
  /\ pc = "stub"
  /\ low' = "stub"
  /\ pc' = "tsl"
  /\ UNCHANGED <<machine, a20vars, gdt, cpu, memory>>

Stopped == pc \in {"tsl", "halt", "fault"}

Stay == Stopped /\ UNCHANGED vars

Loader ==
  \/ CheckCpuid \/ check_cpu_compat \/ EnableA20 \/ A20Done \/ LoadGdt \/ enter_unreal
  \/ get_memory_map \/ CheckSectorSize \/ AllocateHeader \/ ReadHeader \/ CheckHeader
  \/ get_partition_array \/ FindPartitions \/ LoadTsl \/ AllocateBuffer \/ LoadSector
  \/ KernelLoaded \/ AllocateInfo \/ CopyMap \/ QueryVideo
  \/ DisableInterrupts \/ EnterProtectedMode \/ JumpToTsl

Next == Loader \/ KeyboardController \/ Stay

\* The processor runs and BIOS calls return; a keyboard controller that is
\* there takes what it is sent.  Nobody has to press a key.
Spec ==
  /\ Init /\ [][Next]_vars
  /\ WF_vars(Loader)
  /\ WF_vars(pc = "a20" /\ TakeByte(machine) /\ UNCHANGED <<machine, gdt, cpu, low, memory, pc>>)

-----------------------------------------------------------------------------
(***************************************************************************)
(* Properties.                                                             *)
(***************************************************************************)
Steps == {"cpuid", "compat", "a20", "gdt", "unreal", "map", "drive", "header", "read",
          "check", "table", "find", "load", "buffer", "kernel", "info", "array", "video",
          "finish", "protect", "stub", "tsl", "halt", "fault"}

\* The state has the shape the program's declarations give it.
TypeOK ==
  /\ gate \in BOOLEAN
  /\ ram \in [{"low", "high"} -> 0 .. 255]
  /\ IsList(heap.blocks) /\ heap.max_alloc \in Nat
  /\ \A p \in DOMAIN live : live[p].struct \in DOMAIN Sizeof \cup {"entries", "map array", "buffer"}
  /\ cpu \in [gdtr : BOOLEAN, big : BOOLEAN, pe : BOOLEAN, interrupts : BOOLEAN]
  /\ loaded \in [drive_GUID : {NOGUID, machine.guid}, tsl : {"not"} \cup TslRead,
                 kernel : 0 .. machine.sectors]
  /\ pc \in Steps

\* Probing for A20 changes no byte of memory, whether the two addresses are
\* one byte or two; enable_A20 says "on" exactly when the line is on at the
\* end, and gives up only if none of its methods works; and unless a key was
\* pressed at the wrong moment the other bits of the output port, one of which
\* resets the processor, are written back as they were.
A20Exact ==
  /\ ram = [low |-> 1, high |-> 2]
  /\ a20 = "on" => gate
  /\ a20 = "off" => ~gate /\ machine.bios # "works" /\ machine.kbc # "wired" /\ ~machine.fast
  /\ ~machine.key => kbc.port.others = "reset line"

\* The bytes of a live block the loader may use.
Used(p) ==
  CASE live[p].struct = "entries"   -> machine.used * Sizeof.GPT_partition_entry
    [] live[p].struct = "map array" -> machine.told * Sizeof.memory_map_entry
    [] live[p].struct = "buffer"    -> SECTOR
    [] OTHER                        -> Sizeof[live[p].struct]

\* The segments that the last descriptors give are flat, 32 bits wide or 64.
GdtReady ==
  /\ \A k \in 2 .. 4 : SegmentLimit(gdt[k]) = ALL /\ "present" \in gdt[k].access
  /\ "executable" \in gdt[2].access /\ "size" \in gdt[2].flags
  /\ "executable" \notin gdt[3].access /\ "writeable" \in gdt[3].access
  /\ "executable" \in gdt[4].access /\ "long" \in gdt[4].flags /\ "size" \notin gdt[4].flags

\* A loader gets to the TSL only with A20 on, the kernel loaded and the TSL, too,
\* to its last sector (if its partition is not of the one length at which that
\* fails), flat descriptors, and on a processor that has each feature the TSL
\* and the kernel need which CPUID has the level to tell of; never is an
\* interrupt let in after the vectors are gone or in protected mode; and the
\* copy above 1 MB never faults where the BIOS leaves segment limits alone.
EntersReady ==
  /\ pc = "tsl" =>
       /\ gate /\ loaded.kernel = machine.sectors
       /\ loaded.tsl # "not" /\ (~machine.large => loaded.tsl = "whole")
       /\ GdtReady
       /\ machine.level => "PAE" \in machine.features
       /\ machine.extlevel => {"LM", "PG1G"} \subseteq machine.features
  /\ cpu.interrupts => ~cpu.pe /\ low = "vectors"
  /\ machine.keeps => pc # "fault"

\* Throughout the stages, on success and on failure, what is allocated is
\* what the loader still refers to, in blocks large enough.
HeapInUse ==
  /\ DOMAIN live = {b + HDR : b \in {c \in DOMAIN heap.blocks : ~heap.blocks[c].free}}
  /\ \A p \in DOMAIN live : Used(p) <= heap.blocks[p - HDR].size

\* What the TSL finds through boot_info: the drive's GUID; the entries the BIOS
\* told, in order, in a block of their own that holds as many of that size; the
\* video mode in another; all of it still allocated, at its physical address;
\* and the kernel.
InfoFound ==
  LET map == boot_info.memory_map.address - SSL
      video == boot_info.video_info
  IN  /\ map \in DOMAIN live /\ live[map].struct = "map array"
      /\ live[map].items = [k \in 1 .. machine.told |-> k]
      /\ boot_info.memory_map.count = machine.told
      /\ boot_info.memory_map.count * boot_info.memory_map.entry_size
           <= heap.blocks[map - HDR].size
      /\ video.type = "LINTEXT" =>
           video.address - SSL \in DOMAIN live /\ live[video.address - SSL].struct = "video_lintext"
      /\ The("boot_info_t") \in DOMAIN live
      /\ boot_info.boot_drive.GUID = machine.guid
      /\ boot_info.RAMFS.address = RAMFS

\* The data of all stages: the heap holds what is in use and no more from
\* the first stage to the last, and the TSL is handed complete information.
InfoComplete == HeapInUse /\ (pc = "tsl" => InfoFound)

\* The loader ends, in the TSL or halted, if there is a keyboard controller
\* and no interrupt takes its answer away.
Terminates == machine.kbc # "absent" /\ ~machine.irq1 => <>Stopped
=============================================================================
