------------------------------- MODULE TslEntry -------------------------------
(***************************************************************************)
(* The third-stage loader from its entry to the call of the kernel         *)
(* (TSL/src/tsl_entry.c, utils.c): PCI devices are disabled, the kernel    *)
(* and its dlls are loaded by PeLoader behind the RAM file system, the     *)
(* page tables are built, and the processor is taken to long mode.         *)
(* Everything the kernel is entered with must be in the identity map: the  *)
(* loader's own code, the descriptors and boot_info in the segment of the  *)
(* second-stage loader, the archive, the images and the new stack.         *)
(***************************************************************************)
EXTENDS PeLoader

CONSTANTS
  PAGE,       \* 4096; addresses are multiples of a unit that divides it
  ENTRIES,    \* 512, the entries of pml1
  SEGMENT,    \* 16, the pages of a loader's segment
  SSL,        \* 0x10000
  TSL,        \* 0x20000
  BIOS_AREA,  \* 0xE0000, where the search for the RSDP begins
  BIOS_END,   \* 0xFFFFF, where it ends
  Devices,    \* 8192 device numbers, bus and device together: 0 .. n
  Functions,  \* functions of a device: 0 .. 7
  Firmwares

(* A firmware has
     info_size_ok : boot_info has the size the loader was compiled with;
     pci          : <<device, function>> -> the command and status bits of
                    the functions that are there;
     multi        : devices with the multifunction bit;
     rsdp         : addresses of the RSDP signature.                       *)
ASSUME TslAssumption ==
  /\ PAGE \in Nat \ {0} /\ ENTRIES \in Nat \ {0} /\ SEGMENT \in Nat \ {0}
  /\ SSL \in Nat /\ SSL % PAGE = 0 /\ SSL + SEGMENT * PAGE <= RAMFS
  /\ TSL \in Nat /\ TSL % PAGE = 0 /\ TSL + SEGMENT * PAGE <= RAMFS
  /\ RAMFS % PAGE = 0
  /\ BIOS_AREA \in Nat /\ BIOS_END \in Nat /\ BIOS_AREA < BIOS_END
  /\ 0 \in Devices /\ \A d \in Devices : d \in Nat /\ 0 .. d \subseteq Devices
  /\ \A f \in Firmwares :
       /\ f.info_size_ok \in BOOLEAN
       /\ f.rsdp \subseteq BIOS_AREA .. (BIOS_END - 1)
       /\ \A x \in DOMAIN f.pci :
            /\ x[1] \in Devices /\ x[2] \in Functions /\ <<x[1], 0>> \in DOMAIN f.pci
            /\ x[2] # 0 => x[1] \in f.multi
            /\ f.pci[x] \in [io : BOOLEAN, memory : BOOLEAN, master : BOOLEAN, errors : BOOLEAN]

VARIABLES
  firmware,
  pci,        \* the registers of the PCI functions now
  device,     \* the loop of disable_pci is at this device
  pml1,       \* entries written: index -> the page mapped there
  cpu,        \* PAE, page table and its upper levels, LME, paging
  rsdp,       \* boot_info->ACPI.rsdp
  pc

vars == <<pevars, firmware, pci, device, pml1, cpu, rsdp, pc>>

Unpaged == [pae |-> FALSE, linked |-> FALSE, cr3 |-> FALSE, lme |-> FALSE, paging |-> FALSE]

TslInit ==
  /\ Init
  /\ firmware \in Firmwares
  /\ pci = firmware.pci
  /\ device = Min(Devices)
  /\ pml1 = [i \in {} |-> 0]
  /\ cpu = Unpaged
  /\ rsdp = 0
  /\ pc = "size"

At(step, next) ==
  /\ pc = step
  /\ pc' = next
  /\ UNCHANGED firmware

CheckSize ==
  /\ At("size", IF firmware.info_size_ok THEN "pci" ELSE "halt")
  /\ UNCHANGED <<pevars, pci, device, pml1, cpu, rsdp>>

-----------------------------------------------------------------------------
(***************************************************************************)
(* disable_pci.                                                            *)
(***************************************************************************)
\* The register is written back without its two lowest bits.  In its upper
\* half, the status, a one that is written clears the bit.
Disabled(r) == [r EXCEPT !.io = FALSE, !.memory = FALSE, !.errors = FALSE]

\* Mutant: the other functions are left alone.
FunctionsOfFirst(d) == IF <<d, 0>> \in DOMAIN pci THEN {0} ELSE {}

\* The functions that are written to.
FunctionsOf(d) ==
  IF <<d, 0>> \notin DOMAIN pci THEN {}
  ELSE IF d \in firmware.multi THEN Functions
  ELSE {0}

DisableDevice ==
  /\ At("pci", IF device + 1 \in Devices THEN "pci" ELSE "load")
  /\ pci' = [x \in DOMAIN pci |->
               IF x[1] = device /\ x[2] \in FunctionsOf(device) THEN Disabled(pci[x]) ELSE pci[x]]
  /\ device' = device + 1
  /\ UNCHANGED <<pevars, pml1, cpu, rsdp>>

-----------------------------------------------------------------------------
(***************************************************************************)
(* The kernel.                                                             *)
(***************************************************************************)
align_page(addr) == ((addr + PAGE - 1) \div PAGE) * PAGE

\* ramfs_init, pe_loader_init, and the call of pe_load.
StartLoading ==
  /\ At("load", "loading")
  /\ pe_loader_init(align_page(ramfs_get_end))
  /\ UNCHANGED <<pci, device, pml1, cpu, rsdp>>

Load ==
  /\ pc = "loading"
  /\ pe_load
  /\ UNCHANGED <<firmware, pci, device, pml1, cpu, rsdp, pc>>

Loaded ==
  /\ At("loading", IF answer = Failure THEN "halt" ELSE "pae")
  /\ Done
  /\ UNCHANGED <<pevars, pci, device, pml1, cpu, rsdp>>

kernel == slots[answer]

-----------------------------------------------------------------------------
(***************************************************************************)
(* Page tables.                                                            *)
(***************************************************************************)
enable_PAE ==
  /\ At("pae", "clear")
  /\ cpu' = [cpu EXCEPT !.pae = TRUE]
  /\ UNCHANGED <<pevars, pci, device, pml1, rsdp>>

\* count entries from the one of address on.  Nothing stops at ENTRIES.
Mapped(address, count) ==
  LET first == address \div PAGE
      new == first .. (first + count - 1)
  IN  [i \in DOMAIN pml1 \cup new |-> IF i \in new THEN i ELSE pml1[i]]

MapStep(step, next, address, count) ==
  /\ At(step, next)
  /\ pml1' = Mapped(address, count)
  /\ UNCHANGED <<pevars, pci, device, cpu, rsdp>>

ClearTables ==
  /\ At("clear", "map SSL")
  /\ pml1' = [i \in {} |-> 0]
  /\ UNCHANGED <<pevars, pci, device, cpu, rsdp>>

pe_memory_end == align_page(pe_get_memory_range_end)

ImagePages == (pe_memory_end - RAMFS) \div PAGE

\* Mutant: the last page is missing when the size is not a multiple of a page.
StackPagesDown == kernel.stack_size \div PAGE

StackPages == align_page(kernel.stack_size) \div PAGE

MapTables ==
  \/ MapStep("map SSL", "map TSL", SSL, SEGMENT)
  \/ MapStep("map TSL", "map images", TSL, SEGMENT)
  \/ MapStep("map images", "map stack", RAMFS, ImagePages)
  \/ MapStep("map stack", "link", pe_memory_end, StackPages)

LinkTables ==
  /\ At("link", "rsdp")
  /\ cpu' = [cpu EXCEPT !.linked = TRUE]
  /\ UNCHANGED <<pevars, pci, device, pml1, rsdp>>

\* The end of the area if there is none; the boot goes on.
FindRsdp ==
  /\ At("rsdp", "cr3")
  /\ rsdp' = Min(firmware.rsdp \cup {BIOS_END})
  /\ UNCHANGED <<pevars, pci, device, pml1, cpu>>

-----------------------------------------------------------------------------
(***************************************************************************)
(* Long mode.                                                              *)
(***************************************************************************)
load_page_table ==
  /\ At("cr3", "lme")
  /\ cpu' = [cpu EXCEPT !.cr3 = TRUE]
  /\ UNCHANGED <<pevars, pci, device, pml1, rsdp>>

LongMode == [cpu EXCEPT !.lme = TRUE]

enable_long_mode ==
  /\ At("lme", "paging")
  /\ cpu' = LongMode
  /\ UNCHANGED <<pevars, pci, device, pml1, rsdp>>

\* The processor finds page p at its own address.
Translated(p) == cpu.linked /\ p \in DOMAIN pml1 /\ p < ENTRIES /\ pml1[p] = p

PageOf(address) == address \div PAGE

\* With paging on, the next instruction is fetched through the tables.  Long
\* mode needs PAE; without long mode the tables have the wrong depth.
enable_paging ==
  /\ At("paging", IF cpu.pae /\ cpu.lme /\ cpu.cr3 /\ Translated(PageOf(TSL))
                  THEN "call" ELSE "fault")
  /\ cpu' = [cpu EXCEPT !.paging = TRUE]
  /\ UNCHANGED <<pevars, pci, device, pml1, rsdp>>

tmp_stack == pe_memory_end + kernel.stack_size

\* A far call through the descriptor of 64-bit code: it pushes the return
\* address on the new stack.
CallKernel ==
  /\ At("call", IF /\ Translated(PageOf(SSL))
                   /\ Translated(PageOf(kernel.entry))
                   /\ Translated(PageOf(tmp_stack - 1))
                THEN "kernel" ELSE "fault")
  /\ UNCHANGED <<pevars, pci, device, pml1, cpu, rsdp>>

Stopped == pc \in {"kernel", "halt", "fault"}

Stay == Stopped /\ UNCHANGED vars

tsl_entry ==
  \/ CheckSize \/ DisableDevice \/ StartLoading \/ Load \/ Loaded
  \/ enable_PAE \/ ClearTables \/ MapTables \/ LinkTables \/ FindRsdp
  \/ load_page_table \/ enable_long_mode \/ enable_paging \/ CallKernel

Next == tsl_entry \/ Stay

\* The processor runs.
Spec == TslInit /\ [][Next]_vars /\ WF_vars(tsl_entry)

-----------------------------------------------------------------------------
(***************************************************************************)
(* Properties.                                                             *)
(***************************************************************************)
\* The state has the shape the program's declarations give it; the spare slot
\* of the array of images is never used.
TypeOK ==
  /\ PeTypeOK
  /\ pc \in {"size", "pci", "load", "loading", "pae", "clear", "map SSL", "map TSL",
             "map images", "map stack", "link", "rsdp", "cr3", "lme", "paging", "call",
             "kernel", "halt", "fault"}
  /\ \A i \in DOMAIN pml1 : pml1[i] \in Nat
  /\ DOMAIN pci = DOMAIN firmware.pci

\* "Disables all PCI devices" (utils.h): before the kernel is loaded no
\* function of any device answers to I/O ports or memory any more, on devices
\* with one function and with many; what else it was set up to do it is.
PciOff ==
  pc \notin {"size", "pci"} /\ firmware.info_size_ok =>
    \A x \in DOMAIN pci :
      /\ ~pci[x].io /\ ~pci[x].memory
      /\ pci[x].master = firmware.pci[x].master

\* Whatever the shape of the imports, the loader gets past pe_load exactly when
\* it can, with every symbol bound although with circular imports a dll's
\* exports are used before its own imports are bound; and it halts only for a
\* reason.
LoadsExactly ==
  /\ pc \in {"pae", "kernel"} => Loadable /\ AllBound
  /\ pc = "halt" => ~firmware.info_size_ok \/ ~Loadable

\* The last page the loader maps has an entry.
FitsTable == pe_memory_end \div PAGE + StackPages <= ENTRIES

\* All that the kernel is entered with.
Entered ==
  SSL .. (SSL + SEGMENT * PAGE - 1) \cup TSL .. (TSL + SEGMENT * PAGE - 1)
    \cup RAMFS .. (ramfs_get_end - 1) \cup DOMAIN mem
    \cup (tmp_stack - kernel.stack_size) .. (tmp_stack - 1)

\* If the page table is large enough, the processor never faults on the way
\* and the kernel finds everything it is entered with mapped, on a stack that
\* overlaps no image, in long mode, and the RSDP told is one if there is one.
KernelReady ==
  /\ pc \in {"fault", "kernel"} /\ answer # Failure /\ FitsTable =>
       /\ pc = "kernel"
       /\ \A a \in Entered : Translated(PageOf(a))
       /\ DOMAIN mem \cap (pe_memory_end .. (tmp_stack - 1)) = {}
       /\ cpu = [pae |-> TRUE, linked |-> TRUE, cr3 |-> TRUE, lme |-> TRUE, paging |-> TRUE]
       /\ rsdp \in firmware.rsdp \/ firmware.rsdp = {}

\* The loader ends: with the kernel, or with the processor stopped.
Terminates == <>Stopped

\* "Identity map RAMFS and kernel image" (tsl_entry.c): when paging is on, they
\* are mapped.
ImagesMapped ==
  cpu.paging => \A a \in RAMFS .. (pe_get_memory_range_end - 1) : Translated(PageOf(a))
=============================================================================
