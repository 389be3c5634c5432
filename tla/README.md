# VolgaBL in TLA+

VolgaBL is a legacy (BIOS) bootloader in three stages. The boot sector (MBR)
loads the Second Stage Loader (SSL), which works in real mode with the BIOS
and loads the Third Stage Loader (TSL) and the kernel partition; the TSL works
in protected mode, loads the kernel's PE images from a RAM file system and
enters long mode. Paths below are relative to `src/bootloader/`.

## Inventory

| Component | State | Operations | Hard behaviour | What makes it correct |
|---|---|---|---|---|
| MBR (`MBR/mbr.asm`) | DAP, drive number, one 64 KB buffer | GPT check, search of the SSL partition, load, jump | word truncations, counter loops, BIOS failures | jumps only to a completely read SSL partition, otherwise halts with a code |
| SSL boot sequence (`SSL/src/ssl_entry.c`) | A20, descriptor tables, heap, GPT header, partitions, boot info | one after the other, each may halt | a step relies on what all earlier ones established (unreal-mode limits, A20, heap) | the TSL is entered only with everything loaded and described |
| Memory allocator (`SSL/src/mem.c` 21-203) | block list in 32 KB, `max_alloc` | `mem_init`, `malloc`, `realloc`, `free` | any order of calls and sizes; a cached maximum; split and merge boundaries; failure of `realloc` after half its work | blocks tile the heap, no two free neighbours, exact maximum, nothing lost, nothing overwritten |
| BIOS memory map (`SSL/src/mem.c` 205-254) | list of nodes on the heap, continuation value | E820 call, append, unwind | BIOS failure or full heap at any entry, circular firmware | the whole map in order, or the heap as before |
| GPT partition table (`SSL/src/utils.c` 251-350) | array of entries on the heap, two pointers | read, compact, trim, search | pattern of empty entries, partial failures, rounding to sectors | the entries in use, in order, inside the allocated block |
| Disk reading and image loading (`SSL/src/bios.c` 63-92, `utils.c` 388-418) | DAP, buffer, memory at 0x20000 and 0x100000 | split read, sector-by-sector copy | BIOSes that read 127 sectors at most, failures half way | each sector at its place, buffer returned |
| Boot info and video (`utils.c` 352-467) | boot_info on the heap | build from the parts | allocation failures after parts are done | describes what was loaded |
| A20 gate (`utils.c` 78-194) | A20 line, keyboard controller, port 92h | probe, three methods | aliased probe bytes, polling without a timeout | true only when the line is on, memory unchanged |
| CPU check (`utils.c` 469-550) | - | CPUID levels and bits | levels that do not exist | true only for a CPU with PAE, long mode, 1 GB pages |
| GDT (`utils.c` 196-249) | descriptor table | pack entries, enter unreal mode | segment caches | flat segments |
| TSL entry (`TSL/src/tsl_entry.c`) | page tables | map, find RSDP, switch modes | one page table for 2 MB | every address used after the switch is mapped |
| RAM file system (`TSL/src/ramfs.c`) | archive | walk, find by name | names that are prefixes | the file with the name |
| PE loader (`TSL/src/pe.c`) | 16 slots in consecutive memory | load, bind imports recursively | circular imports, failure after registration, full table | images do not overlap, every import bound |
| TSL hardware (`TSL/src/utils.c`) | PCI command registers, CR3, CR4, EFER | disable PCI, PAE, long mode | - | - |
| 64-bit arithmetic (`*/src/gcc_arithmetics64.c`) | - | shift-and-subtract division | the remainder at its full width | `\div` and `%` |
| Formatted output (`*/src/io.c`) | index, buffer, argument list | parse, convert, write | a buffer that ends anywhere, arguments narrower than the union they are read from | stays in the buffer, returns the whole length, the text C prescribes |
| String helpers (`*/src/string.c`), build files | - | - | - | - |

The components run one after the other on one processor, interrupts do not
call into the loader, and nothing is persisted; only the keyboard controller
works beside the loader, while `enable_A20` talks to it. They interact through the heap
(the memory map, the partition array, the sector buffer and the boot info are
live in it at the same time), through memory (the SSL loads where the TSL and
the kernel expect it) and through the BIOS, any call of which may fail. The
hard part is therefore mostly not concurrency but long sequences of calls on shared
state, failure in the middle of a sequence, and numeric boundaries.
`PROJECT.json` lists these hazards at their lines.

## Modules

| Module | Models |
|---|---|
| `BlockList` | the list operations of the allocator and `malloc`, `realloc`, `free` as operators from a heap value to a heap value; what a well-formed list is |
| `Heap` (EXTENDS `BlockList`) | the allocator with arbitrary callers: state machine, bytes, properties, refinement |
| `Allocator` | the abstract allocator: regions, no blocks |
| `MemoryMap` (EXTENDS `BlockList`) | `get_memory_map` on that allocator |
| `PartitionTable` (EXTENDS `BlockList`) | `get_partition_array`, `find_partition` on that allocator |
| `ImageLoad` (EXTENDS `BlockList`) | `bios_read_drive` for the TSL partition and `load_kernel`, its buffer on that allocator |
| `Mbr` | the boot sector, from the check of the BIOS to the jump to the SSL |
| `A20` | `enable_A20` and the keyboard controller, as actions on a machine that `Boot` supplies |
| `Boot` (EXTENDS `BlockList`, `A20`) | `ssl_entry` with all its stages on one heap and one processor state, and the jump to the TSL |
| `PeLoader` | `pe_load` with its recursion, `ramfs_file`, `ramfs_get_end`, `pe_get_memory_range`, as actions for `TslEntry` |
| `TslEntry` (EXTENDS `PeLoader`) | `tsl_entry`: PCI, kernel, page tables, long mode, call of the kernel |
| `Arithmetic64` | `unsigned_division64`, bit by bit |
| `Format` (EXTENDS `Arithmetic64`) | `_vsnprintf` with its write functions |
| `BlockListProofs` | lemmas about the operations on the list, for every list |
| `HeapProofs` | the theorems about the allocator, and its refinement of `Allocator` |
| `MemoryMapProofs`, `PartitionTableProofs`, `ImageLoadProofs`, `BootProofs`, `TslEntryProofs` | the theorems about the module of that name |
| `MbrFormatProofs` | the theorems about `Mbr` and about `Format`, the two state machines that use no other |
| `MCHeap`, `MCMemoryMap`, `MCPartitionTable`, `MCImageLoad`, `MCMbr`, `MCBoot`, `MCTslEntry`, `MCFormat` | instances for TLC |

### Heap

A heap value holds `blocks`, a function from header addresses to header fields
(`_block_hdr`), and `max_alloc` (`_mem_ctx`). Its domain is the set of headers
on the list; a merged header is off the list and out of the domain. Addresses
are real numbers of bytes, `NULL` is 0, and the granule (16), the header size
(16), the address and the size of the heap are constants, so header arithmetic
is the code's. `malloc` takes the first block that fits by walking `next`; the
model takes the lowest (`Min(Fits(..))`), which is the same because the list is
in address order, an invariant of the model itself (`Tiled`: `next` is the end
of the block). `_align16` is modelled without the wrap-around of `size_t`. Of the
loader's callers only `get_partition_array` could come near it, with a malformed
header whose `entry_size` is almost 2^32 and one entry in use; `PartitionTable`
ends before the `realloc` that would ask for it, see there.

`Heap` has one action per entry point, `DoMalloc`, `DoRealloc`, `DoFree`, and a
set of owners with at most one allocation each. `mem` says of every byte
whether it belongs to a header, to an owner's data or is junk: `Stored` writes
the headers of a list, `Copied` is `memcpy`, `Filled` is the owner writing the
bytes it asked for. So a header written into a live allocation, a copy of the
wrong length or a free before the copy is visible as lost data. A NULL result
leaves everything unchanged but `refused`, which records the size that the last
call asked for in vain, so that a refusal is a visible step (`Rejected`).

`Allocator` promises: regions are aligned, inside the heap, disjoint, at
different addresses even when empty, their contents survive a resize, the
empty heap serves every request up to its capacity, and a request is never
refused while a stretch of the heap as long as the request and the overhead of
three headers and granules is vacant, so memory that was given back can be
used again. `Heap!Implements` is its specification under the mapping
`region = (ptr, req)`, `contents =` the bytes at `ptr`.

### MemoryMap

`firmware` maps each continuation value to an entry and the next value; it may
end after any number of entries or run in a circle. `Start` and `First` are the
two allocations before the loop, `Query` is one successful round of it (last
entry; heap full, `Exhausted`; next node, `Extend`), `QueryFails` is a failing
BIOS call. `Unwind` is one round of `while (node->prev)`, `Abandon` frees the
first node, `Discard` the map. The code has the unwinding twice, in both error
paths, in the same words; both go through the same actions.

### PartitionTable

`table` is the drive's table, `arr` what is in memory: for each index the type
GUID and the index on the drive it came from. `Left` and `Right` are one
comparison each of the two inner loops, `Move` is the `memcpy` and `memset`,
`Trim` the final `realloc`. The code's branch for a NULL result of that
`realloc` would free NULL; `TrimSafe`, a part of `MemorySafe`, shows that it is
never taken, so the model has no action for it. The CRC and the signature of the GPT header are
checked before, by `ssl_entry`.

Nothing bounds the table. `Sectors` truncates the number of its sectors to a
word as `DAP.sectors` does, so that a table of more sectors gets a block that
is too small for it (`Capacity`) and is read in part. The compaction then comes
to an entry that is not `Inside` the block; what it finds there is undefined,
and the model ends in `"beyond"` (`LeaveBlock`). `MemorySafe` says that this
happens to no other table (`Counted`), that no entry outside the block is moved
or handed out before, and that a loop that ends has seen the whole table.

### ImageLoad

Memory is counted in sectors, and a sector of memory holds the LBA it was read
from. `ReadTsl`, `ReadHead` and `ReadTail` are the three BIOS calls
`bios_read_drive` may make; a failing call may have transferred some sectors
already. The rest is `load_kernel`: buffer, one read and one copy per sector,
and the buffer freed on both ways out. `MANY` stands for 127 and a segment
holds `MANY + 1` sectors.

### Mbr

The header, the table and the SSL are read into one segment, one over the
other, so `es` says of every 16 bytes of it which sector of the drive they came
from, and what the program reads there follows from that (`IsSslType`,
`Quad`). Before the first read the segment may hold something that looks like
the type of the SSL partition. Registers keep their widths: `cx` and the
packet's count wrap at `WORD`, the quotient of `div` faults at `DWORD`, the
search compares at `edx` modulo the segment and reads the LBA at `edx` itself.
A BIOS fails at any call, and has a limit of sectors per call.

### A20 and Boot

`A20` has the two bytes that `_check_A20` writes to, which are one byte while
the line is gated, and the keyboard controller with its input and output
buffer. The controller takes a byte at any time after it was sent; a key may
be pressed while the port is enabled; on some machines the BIOS's handler of
IRQ 1 reads the output buffer. The polling loops wait as they do in the code,
without an end.

`Boot` runs the stages of `ssl_entry` with one action for each call or check
that can fail. Every BIOS call (`Bios`) may come back with a 64 KB limit in
the hidden part of DS, unless the machine is one that `keeps` it, and the copy
of the kernel above 1 MB then faults. `live` names the blocks the loader still
refers to and what they hold, so that `boot_info` can be followed to the
memory map the BIOS told. What `MemoryMap`, `PartitionTable` and `ImageLoad`
show of their stages is used here in one step: the call has its whole effect
or leaves the heap as it was. A stage that fails halts, as all of them do.

A read of the TSL that succeeds is what `ImageLoad` shows it to be: of a
partition with the 128 sectors at which `bios_read_drive` splits a read that
fails, possibly all `"but its last sector"` (`TslRead`). The fields of
`boot_info` are filled in the order of `create_boot_info`, with the GUID that
`CheckHeader` kept of the drive, the size and the count of the map's entries,
and the kernel's address. CPUID's answer (`claims`) is the processor's own only
under a level that exists.

### PeLoader and TslEntry

`archive` is the RAM file system as the sequence of its entries. A name is a
sequence of parts, so that one name can begin another: `ramfs_file` compares
only as many characters as the name asked for has. A file is what `pe_load`
reads of it: signatures right or wrong, sizes of the file, the image and the
stack, entry point, import directories with symbols and hints, name table with
entry points. `slots` is `_ctx.states` (the last of its elements is spare),
`mem` says of every address which cell of which file was copied there, and
everything the code reads from a loaded image goes through `mem`. `calls` is
the stack of activations of the recursive function; `answer` is what the last
one returned. `LoadImage` is the copy and the registration, `LoadDll` the
recursive call, `Bind` one round of the symbol loop, and each `return false`
is an action (`TableFull`, `NoImage`, `DllFails`, `NotBound`). Hints lie inside
the name table, as a linker makes them. What the model does not have is the
size of the real stack: one activation holds a 256-byte path, the TSL's stack
is 2 KB, so that long before sixteen nested imports the real one is used up. In
the code the full table is met only by a graph that is more flat than deep.
`Copied` takes the headers and sections of a file to lie in its `size_of_image`,
which `pe_load` does not check, and the gaps between them for part of the image.

`TslEntry` starts `pe_load` behind the end of the archive, builds `pml1` from
its result, and switches modes in the order of the code. An index of `ENTRIES`
or more is written behind the table and translates nothing (`Translated`);
paging without PAE, long mode, or a translation of the running code faults, and
so does the call of the kernel when the descriptors, the entry point or the
top of the new stack is not mapped.

### Format

A format is a sequence of parsed directives and literals, an argument a number
or a text. Each specifier of `_vsnprintf` is an action, which writes all the
characters of its field. `Stored` is `_buffer_mem`, with the test that keeps
every write inside the buffer; bytes behind the buffer are part of `memory`.
Integer types have the scaled widths `Bits`, and the model keeps the way `%d`
reads its argument: stored in the low part of a cleared union, sign taken from
the whole. Width and precision are held modulo `UINT16`. The numeral is put
together in `num_buffer`, and `BufferExact` says that it fits; with a precision
too large for that the code writes behind `num_buffer`, where anything may
happen, so `FormatAssumption` admits no number with such a precision (`Roomy`).
`TextExact` compares with the text C prescribes (`Reference`) for
the directives of `Plain`, which covers those in the loader's own format
strings for which the code is a subset of printf; a `0` flag together with a
sign, a mark or `-`, the precision of a string and a precision of 0 are outside
of it, because the code differs from C there and no call of the loader depends
on it.

Three things are written as they are for the sake of the proofs. The state
machine's own definitions are called `CallInit`, `CallNext`, `CallSpec` and
`CallTypeOK`, so that one module can extend both `Mbr` and `Format`. Powers are
`Power`, not `^`, and what is left of a text without a character is `Without`,
not `SelectSeq`, because the provers have no facts about `^` and `SelectSeq`.
`FormatAssumption` says what a caller of a variadic function promises and the
code cannot check: each directive has its arguments, and a number's precision
leaves room for prefix and sign. It also says that the
texts hold no carriage return; in the source it occurs only in the write
functions (`SSL/src/io.c` 33 and 48), and `TextExact` tells by it what these
have added.

## Runs

| Run | Question | Bounds | Why they are enough |
|---|---|---|---|
| `heap` | does any order of calls break the list, leak, overwrite data, or break the promise of `Allocator` | three owners (symmetric), 22-byte heap at an odd address, granule and header 2, requests 0, 1, 5, 8, 18, 19 | up to three live blocks and free blocks before, between and behind them; the split threshold is met, missed by one granule and exceeded; the last block is not a multiple of the granule; 8 fits only when most is free, 18 only in the empty heap and 19 never, so refusals happen with and without other holders; `malloc(0)` too |
| `memory_map` | whole map or clean failure | three continuation values, two entry contents, heap for a map and four nodes less an earlier allocation | circular firmware, heap full before the map, before the first, second and third node, BIOS failure at each |
| `partition_table` | compaction and failure paths | tables of 0, 1 and 3 to 5 entries, entry sizes 3, 4 and 8 with sectors of 8, a word that counts two of them, all patterns of two types and empty | every shape two pointers can meet: no gap, gap at either end, several gaps, full, empty; table of a partial last sector; tables of two sectors, the most a word counts, and of three (read as none), four and five; heap too small for struct or array |
| `image_load` | sectors at their places | `MANY` = 3, TSL of 1, 3, 4, 5 sectors, kernel of 1 to 3, BIOS limit 3 or 4 | split read needed, not needed and not sufficient; failures after every sector |
| `tsl_exact` (violation) | is `bios.h`'s "Can read 128 sectors on all BIOSes" true | as above | the split read reads the first sector again where the last one belongs |
| `mbr` | is the first SSL partition started, and does the search end | sectors of 4 units, a segment of 4 sectors, words below 8, double words below 12 | counts of 0, at and beyond the word; tables of partial sectors, of one segment and of more; entries at the start, the end and missing; a quotient that faults; leftovers that look like an entry |
| `boot` | is the TSL entered only with all work done | A20 gates of 18 kinds with keys and interrupts, all CPUID levels and features, all drives with a TSL of the length that is split and of another, heap of 81 bytes with 9 by 5 sizes of the memory map and the table | each method of A20 is the one that works, lies or hangs; the heap is exhausted at every allocation that can fail (the block of boot_info fits in the buffer freed just before it) |
| `tsl` | is the kernel called exactly when it can be, with all it needs | a table of three slots, the kernel and three dlls in 96 import graphs, seven flaws, hints right and wrong, with and without a longer name in front; PCI devices with one function and several; a page table that everything fits in | chains, diamonds, one dll twice, an image importing itself, circles of two and three, one image more than slots, each missing piece at a direct and at an indirect import; sizes at and off page boundaries |
| `full_name` (violation) | does `ramfs_file` find the file with the "Full filename" (`ramfs.h`) | as above | a longer name earlier in the archive is taken |
| `images_mapped` (violation) | is what `tsl_entry.c` says of its page table true | as above, a page table of two entries less | the images reach beyond the last entry |
| `format` | buffer, length and text of formatted output | buffers of 0 to 7 bytes, every numeric directive with 7 sets of flags, 3 widths, 2 precisions, 5 lengths, 11 values; types of 2, 3, 4 and 6 bits, widths and precisions of 3; a `num_buffer` of 6 | the text is shorter than the buffer, fills it, and is longer by one and more; values at and beyond the ends of every type; starred widths and precisions, negative ones and those a word truncates too; numerals that just fill `num_buffer`; line feeds, NUL and what is not supported; the division is checked for every divisor |
| `signed` (violation) | is `io.h`'s "Implements printf" true of `%d` | as above | a negative int comes out positive |

Every property of the passing runs has a mutant in `PROJECT.json`: a definition
of the model changed as a plausible bug in the code would, defined next to the
original with a comment `Mutant:`.

What the runs found: `bios_read_drive` does not advance the LBA for its second
read (`SSL/src/bios.c` 83-85), so on a BIOS with the 127-sector limit the last
sector of a 64 KB TSL partition is a copy of its first one, and the boot goes
on. `TslFirstSectors` states what does hold on every BIOS. `ramfs_file`
(`TSL/src/ramfs.c` 56) does not compare the end of the name, so that an earlier
file with a longer name is loaded in its place. The identity map
(`TSL/src/tsl_entry.c` 93) ends at 2 MB, and what lies beyond is written behind
the table; `KernelReady` states what holds below. `%d` (`SSL/src/io.c` 346)
prints a negative int as a large positive number; `TextExact` leaves those
numbers out.

What holds only of some machines is stated with its condition:
`EntersReady` asks for the features of a CPUID level only where that level exists,
because `check_cpu_compat` refuses a processor only if both levels are missing
(`SSL/src/utils.c` 533), and for the last sector of the TSL only where its
partition is not split; it excludes the fault above 1 MB only for a BIOS that
leaves segment limits alone (412); and `A20Exact` keeps the other bits of the
output port only if no key is pressed while the port is still enabled (169).

Deadlock is checked in every run; a component that has returned to its caller
stutters explicitly (`Returned`).

## Fairness and liveness

`MemoryMap`, `PartitionTable`, `ImageLoad`, `Mbr`, `Boot` and `TslEntry` assume
weak fairness of their steps: the loader runs alone on the processor, so it
never stops between two steps, and a BIOS call returns, with success or
failure. Nothing is assumed about which. In particular the firmware need not
ever end its memory map: `Terminates` of `MemoryMap` holds because the heap
fills up, and that of `Mbr` holds for counts of 0 and beyond a word because CX
wraps. `Boot` also assumes that a keyboard controller that is there takes what
it is sent; nobody has to press a key. Its `Terminates` excludes machines
without a controller and those whose BIOS empties the output buffer on IRQ 1:
there `enable_A20` may poll for ever. `Heap` and `Format` have no liveness
property: the callers of the one are arbitrary, and each call of the other is
a straight walk through its format.

## Proofs

Every safety invariant that a passing run checks is also a theorem, for every
value of the constants, and so is the refinement.

| Module | Theorem | States |
|---|---|---|
| `HeapProofs` | `TypeCorrect`, `AlwaysTiled`, `AlwaysCoalesced`, `AlwaysExact`, `AlwaysAccounted` | `TypeOK`, `Tiled`, `Coalesced`, `MaxAllocExact`, `Accounted` |
| | `DataStays`, `Recovery`, `AlwaysAligned` | `DataIntact`, `FullRecovery`, `Aligned` |
| | `Refinement` | `Implements` |
| `MemoryMapProofs` | `TypeCorrect`, `NothingLeaks`, `MapRead` | `TypeOK`, `OwnsExactly`, `MapComplete` |
| `PartitionTableProofs` | `TypeCorrect`, `StaysInBlock`, `EntriesKept` | `TypeOK`, `MemorySafe`, `Filtered` |
| `ImageLoadProofs` | `TypeCorrect`, `TslRead`, `KernelLoaded` | `TypeOK`, `TslFirstSectors`, `KernelExact` |
| `MbrFormatProofs` | `TypeCorrect`, `FirstStarted` | `TypeOK`, `SearchExact` of `Mbr` |
| | `CallTypeCorrect`, `BufferAlwaysExact`, `TextAlwaysExact` | `CallTypeOK`, `BufferExact`, `TextExact` of `Format` |
| | `DivisionExact` | the division of `Arithmetic64` is `\div` and `%` |
| `BootProofs` | `TypeCorrect`, `A20Right`, `EntryReady`, `HandedOver` | `TypeOK`, `A20Exact`, `EntersReady`, `InfoComplete` |
| `TslEntryProofs` | `TypeCorrect`, `ImagesKept`, `PciDisabled`, `LoadsRight`, `KernelEntered` | `TypeOK`, `ImagesIntact`, `PciOff`, `LoadsExactly`, `KernelReady` |

Each of these modules has a theorem `Invariance`, which says that its `IInv` is
an invariant; the others follow from it. For `Format` they are `CallInvariance`
and `CallInv`. TLC checked each of these invariants on the run's instance
(`TslEntry`'s on a smaller archive).

### The assumptions

All of them are about the constants, stand in the module that declares these,
and are evaluated by TLC in the runs.

- `HeapAssumption`: positive sizes, a header that is a multiple of the granule,
  a heap with room for a header and a granule after the alignment of its start.
  `OwnerAssumption`: the byte markers are not owners.
- `MemoryMapAssumption`, `PartitionTableAssumption`, `ImageLoadAssumption`:
  sizes are numbers; 0 is no cookie of the firmware but the one that ends the
  map; the split threshold and one sector more fit in the packet's count. An
  entry of the partition table has a size, for it holds at least a type; a
  header that says 0 is outside of the model.
- `MbrAssumption`: the segment is smaller than what a word counts in sectors,
  the SSL fits in it, a BIOS never reads beyond it in one call, and an entry of
  the table is longer than the two units that are read of it.
- `BootAssumption`: sizes are numbers, the GPT header fits in a sector, and a
  processor that has a CPUID level has the features it claims under it.
- `PeLoaderAssumption`: an image has at least one byte and its entry point in
  it, names are not empty, and the hint of an import lies in the name table of
  any file that a search for the dll may find. A linker writes files so; the
  code does not check any of it.
- `TslAssumption`: the SSL's and the TSL's segments and the RAM file system
  begin at pages, the segments below the file system; the devices are those
  from 0 to some last one; a PCI function other than 0 exists only on a device
  with a function 0 that says it has several.

- `ArithmeticAssumption`: numbers have at least one bit. `FormatAssumption`: no
  integer type is wider than uintmax_t, pointers are one of the types, a number of
  the widest in octal with prefix and sign fits in `num_buffer`, buffers
  have a size, each call has the arguments its format takes, in order, and a
  number's precision leaves room for prefix and sign in `num_buffer`: 29 digits
  of its 32, where the loader's formats have 16 at most.

### The heap

`Tiled` alone is not inductive. A merge needs that neighbours
are really adjacent and point at each other, `free` needs that the pointer it
gets is an allocated block of the list (`Accounted`), the early return of
`malloc` needs `max_alloc`, and `max_alloc` after `free` is exact only because
a merged block is the only one that changed. The inductive invariant is

    IInv == TypeOK /\ Tiled /\ Coalesced /\ MaxAllocExact /\ Accounted

`BlockListProofs` has the lemmas about the operators: splitting, allocating
and merging keep a list well formed, linked, disjoint and separated; what they
do to sizes; that `malloc` and `realloc` return an allocated block of at least
the size asked for. `HeapProofs` puts them together per action. `DataIntact`
is proved relative to `IInv`, from the lemmas that storing headers, copying and
filling leave the bytes of other owners alone; `Aligned` is an invariant of its
own; `FullRecovery` follows from `IInv`.

`Refinement` says that every step of `Heap` is one of `Allocator` under the
mapping of `Implements`. It needs one more invariant, `Frugal`: an allocated
block holds its request, rounded, and less than a header and a granule more,
because a larger rest is split off, by `malloc` and by `realloc`. A call that
returns a pointer is a `Grant`: the place of the region follows from `IInv` and
the alignment of the list, its contents from `DataIntact` (`RegularRegions`). A
call that returns NULL is a `Refuse`: `malloc` and `realloc` return NULL only
if no free block holds the request (`MallocRefused`, `ReallocRefused`), and a
vacant stretch as long as the request and the overhead would contain one
(`Vacancy`). The stretch begins in a free block, or in what an allocated block
has beyond its request, which `Frugal` bounds; in the second case what follows
is a free block, and it cannot end before the stretch does, because free blocks
are not neighbours and the headers in the stretch belong to nobody. When nobody
holds anything the heap is the one of `mem_init`, whose only block serves every
request up to the capacity (`EmptyServes`).

For the modules that call the allocator in a fixed order, `BlockListProofs` ends
with a view of the heap for one caller. A sound heap is determined by its
allocated blocks and their sizes (`Canonical`): where the free blocks lie
follows, because they tile the rest and none are neighbours. `Holding(h,
before, P)` says that `h` is a sound heap with the allocations of `before` and
those at the pointers `P` on top; `malloc` adds to `P`, `free` takes away from
it, the shrinking `realloc` leaves it as it is, and with `P` empty `h` is
`before` again. That is how `free` undoes `malloc` in any order, which the
invariants of these modules need for "a failed call leaves the heap as it was".

### The callers of the heap

- `MemoryMap`: the nodes in memory are exactly those of one chain (`Chain`).
  Links and back links agree, nothing points back at the last node, and whoever
  follows the links from any node comes to the last one; this is stated without
  recursion, as: every non-empty set of nodes closed under `next` contains the
  last node. Without it a second, detached ring of nodes would satisfy the rest,
  and the unwinding would never free it. `MapComplete`
  is proved from `Walked`: while the firmware is asked, the nodes in the order of
  the list and the cookies in the order of the firmware go along with each
  other, all nodes but the last are filled, and the last one waits for the entry
  of the next cookie.
- `PartitionTable`: `Room` (the array has room for the sectors that are read
  while it is compacted and for `count` entries at the end), `Reached` (all that
  is before the pointers lies in the block, and the loop ends only with the whole
  table there), `Pointing` (all entries before
  the left pointer are in use, none from there to the right one is) and
  `SameEntries`.
- `ImageLoad`: what the packet asks for at each step, how many sectors are in
  place, and that the heap is `before` with at most the buffer on top.
- `Boot`: `A20Inv` follows the handshake with the keyboard controller step by
  step (what is in its buffers, which command it waits for, whether the port
  read is still the one to write back); `Control` says what each stage has
  established for those after it; `Data` lists the live blocks at each stage,
  with what they hold, and `Fields` what each stage has put in `boot_info`. The heap after the nodes of the memory map, a recursive
  function of their number, is followed by induction on the set of numbers for
  which it holds.
- `Mbr`: while the table is needed it is in the segment and nothing is read over
  it; no entry before the current one is an SSL's; CX counts the entries from
  there on, modulo the word. All this under `Readable`, where one call reads the
  whole table.

### The TSL

`IInv` of `TslEntryProofs` has four parts. That of the PE loader:

- `Layout`: the slots in use are the first ones, their images lie one behind
  the other behind the archive, and their names are distinct and all needed,
  that is, reachable from the kernel by imports;
- `Copies`: every image is in memory as the file has it;
- `Stack`: each activation of `pe_load` knows its image and the directory it is
  at, and the one above it, if any, is for the dll of that directory;
- `Answered`: what the last activation returned is the slot its caller asked
  for, and it failed only where the kernel cannot be loaded;
- `Bindings`: the imports that an image's activation is past are bound, all of
  them once it is no longer on the stack.

A circular import is found in its slot before its imports are bound, so "every
image in a slot is bound" is no invariant; `Bindings` is what replaces it, and
`AllBound` follows when the stack is empty. A full table is a reason
to fail because the names in it are distinct and needed, and one more is: the
set of needed images has more elements than there are slots. In the other
direction, when the load succeeds, the names registered are closed under
imports and contain the kernel's (`Called`), so every needed image is there.

`PciInv` says which devices the loop has passed. `MachineInv` says which pages
each step of `tsl_entry` has mapped; that the pages of an image are all mapped
is arithmetic on rounding to pages, with no bound on sizes.

### Formatted output

What `Format` computes is recursive in four places: the bits of a quotient, the
digits of a number, the pieces of a text joined (`FlattenSeq`), and a text
without a character. Each recursive function is first shown to exist and to be
the only one with its equation, over a finite range of numbers or over all
sequences, and then to be what is claimed. The induction theorems of the library
take an operator; here induction is a lemma about a set (`Induction`: a set of
numbers that contains 0 and with each of its members the next contains them
all), and each use of it is about the set of those inputs for which the claim
holds.

- `DivisionExact`: after the bits from the highest to bit `i`, quotient and
  remainder are those of `N \div 2^i`, the quotient shifted by `i`. A remainder
  is no more than what was divided, so doubling it and adding the next bit gives
  no more than `N` shifted by one bit less, and the shift of `R`, which may lose
  a bit, never does.
- `BufferExact` needs that the numerals fit (`NumeralFits`): a number has no more
  digits than its bits allow in octal, zeros fill up to the precision, and
  prefix and sign are three characters at most.
- `NumeralExact`: the digits that `_ntoa` takes off, reversed and filled with
  zeros, are those at the places of `Numeral`, as many as are needed, because
  dividing `k` times by the radix is dividing by its `k`-th power. `PaddedExact`
  does the same for `_format_output` and `Padded`.
- `CallInv` has four parts. `ParseInv`: the next argument is the one that
  belongs to the next item. `TextInv`: when all items of the call are plain,
  the arguments taken are as many as items with a value, and the text is the
  prescribed texts of the items so far, joined. `ScreenInv`: what was sent, without
  carriage returns, is the text without NULs, and every line feed has a carriage
  return in front. `BufferInv`: the memory holds byte by byte what `ByteAt` says
  of a text of that length, and every count is
  the length at its time, as its type holds it.

`BufferExact` follows for any call, plain or not. `TextInv` would not be
inductive without the condition on the whole call: one starred or wide
directive shifts the arguments of all behind it.

### Only model-checked

- Everything about liveness, and `ENABLED`, which the prover does not handle:
  `Terminates` of six modules.
- The four properties that the code violates have no theorem, of course; the
  conditions under which their counterparts hold are in `TslFirstSectors`,
  `LoadsExactly`, `KernelReady` and `TextExact`.

## Plan

The modules of the plan are written, their safety invariants and the refinement
are proved. What no property covers is with the hazards in `PROJECT.json`:
`TslFirstSectors`, for one, is stated for partitions shorter than the 16 bits of
`DAP.sectors`; a longer one is read in part (`ssl_entry.c` 228). The same module
would have to keep the packet's count as a word of its own for that, as it would
for a kernel partition that ends before it starts (`utils.c` 392).

## Not modelled

- The dumps of heap and memory map (`mem.c` 255-306), the messages and the
  serial port's set-up: output only. `Format` models how their text is made.
- Single port and control register instructions, PIC masks and the base of the
  descriptors (0 in all of them), except for the state they leave behind.
- The polynomial of the CRC: a header is intact or not.
- The parsing of a directive's digits and flags, a format that ends in a lone `%`
  (`io.c` 490; there is none), and what a numeral longer than `num_buffer`
  overwrites: see the hazard at `io.c` 162.
- The wrap-around of `_align16`, and what the compaction of the partition table
  does outside of its block: see the hazards at `mem.c` 36 and `utils.c` 273.
- A GPT header with an `entry_size` of 0.
- The sizes in octal of the RAM file system, and an archive without its end.
- A partition whose `end_lba` lies before its `start_lba`.
- The size of the real stacks, so also a chain of imports too deep for the TSL's.
- CMake files and linker scripts.
