------------------------------ MODULE PeLoader ------------------------------
(***************************************************************************)
(* The PE loader of the third-stage loader (TSL/src/pe.c) on the RAM file  *)
(* system (TSL/src/ramfs.c): pe_load copies an image behind the ones that  *)
(* are loaded, registers it, and calls itself for each DLL the image       *)
(* imports, whose symbols it then binds.  Imports may be circular.         *)
(***************************************************************************)
EXTENDS Integers, SequencesExt

CONSTANTS
  STATES_MAX, \* the slots pe_load uses; the array has one more
  RAMFS,      \* the address of the RAM file system
  KERNEL,     \* the name tsl_entry loads
  Archives    \* contents of the RAM file system: sequences of named files

NoName == <<>>

IsTable(t) == Len(t) \in Nat /\ DOMAIN t = 1 .. Len(t)

(* An image has at least a byte, its entry point is in it, the path of a dll
   is not empty (it begins with "ramfs/"), and a hint is a position in the
   name table of the files it may be looked up in.                         *)
ASSUME PeLoaderAssumption ==
  /\ STATES_MAX \in Nat \ {0}
  /\ RAMFS \in Nat \ {0}
  /\ KERNEL # NoName
  /\ \A files \in Archives :
       /\ IsTable(files)
       /\ \A k \in DOMAIN files :
            /\ files[k].length \in Nat /\ files[k].stack \in Nat
            /\ files[k].size \in Nat \ {0} /\ files[k].entry \in 0 .. (files[k].size - 1)
            /\ IsTable(files[k].imports) /\ IsTable(files[k].exports)
            /\ \A d \in DOMAIN files[k].imports :
                 LET import == files[k].imports[d]
                 IN  /\ import.dll # NoName
                     /\ IsTable(import.symbols)
                     /\ \A j \in DOMAIN files : \A m \in DOMAIN import.symbols :
                          IsPrefix(import.dll, files[j].name) /\ files[j].exports # <<>> =>
                            import.symbols[m].hint \in DOMAIN files[j].exports

VARIABLES
  archive,    \* the RAM file system
  slots,      \* _ctx.states
  mem,        \* address -> which cell of which file is there
  iat,        \* slot -> import address tables: directory -> symbol -> value
  calls,      \* the activations of pe_load, the running one last
  answer      \* what the last activation returned

pevars == <<archive, slots, mem, iat, calls, answer>>

\* The slots that are used and all of the array.
Slot    == 0 .. (STATES_MAX - 1)
AllSlot == 0 .. STATES_MAX

\* A slot number is a successful answer.
NoAnswer == -1
Failure  == -2

Unbound == [base |-> 0, entry |-> 0]

-----------------------------------------------------------------------------
(***************************************************************************)
(* The RAM file system.  A name is a sequence, so that a name can be the   *)
(* beginning of another one.  A file has                                   *)
(*    valid   : whether it has the MZ, PE and PE32+ signatures;            *)
(*    length  : the size of its header and its contents in the archive;    *)
(*    size, entry, stack : the size of its image, the offset of its entry  *)
(*              point and the size of the stack it wants;                  *)
(*    imports : its import directories, each a dll and the symbols wanted, *)
(*              with a hint where in the dll's name table to look;         *)
(*    exports : its name table with the symbols' entry points, empty when  *)
(*              it has no export directory.                                *)
(***************************************************************************)
\* ramfs_init goes through the headers to find the end.
ramfs_get_end ==
  LET header[k \in 0 .. Len(archive)] ==
        IF k = 0 THEN RAMFS ELSE header[k - 1] + archive[k].length
  IN  header[Len(archive)]

\* memcmp(hdr->name, name, strlen(name)) = 0
Matches(name) == {k \in DOMAIN archive : IsPrefix(name, archive[k].name)}

Exists(name) == Matches(name) # {}

ramfs_file(name) == archive[Min(Matches(name))]

\* The file is there and has the signatures.
IsImage(name) == Exists(name) /\ ramfs_file(name).valid

-----------------------------------------------------------------------------
Running == Last(calls)

Call(name) == [name |-> name, pc |-> "enter", slot |-> 0, dll |-> 0, dir |-> 1, symbol |-> 1]

Replace(call) == calls' = Append(Front(calls), call)

Return(result) ==
  /\ calls'  = Front(calls)
  /\ answer' = result

\* Mutant: the search goes one slot too far.
StopsSpare(name) == {s \in AllSlot : slots[s].name \in {NoName, name}}

\* Slots at which the search for a name ends: its own or the first free one.
Stops(name) == {s \in Slot : slots[s].name \in {NoName, name}}

\* The file whose image is in slot s: the code reads it from memory.
Image(s) == archive[mem[slots[s].load_addr].file]

\* Slot s is filled with file k; the one behind it, unless it is the spare
\* one, gets addr.
Filling(s, name, k, addr) ==
  [t \in AllSlot |->
     CASE t = s -> [slots[t] EXCEPT !.name = name, !.image_size = archive[k].size,
                                    !.entry = slots[s].load_addr + archive[k].entry,
                                    !.stack_size = archive[k].stack]
       [] t = s + 1 /\ t < STATES_MAX -> [slots[t] EXCEPT !.load_addr = addr]
       [] OTHER -> slots[t]]

\* Mutant: the next image goes where this one is.
FilledInPlace(s, name, k) == Filling(s, name, k, slots[s].load_addr)

\* The next image goes behind this one.
Filled(s, name, k) == Filling(s, name, k, slots[s].load_addr + archive[k].size)

\* The headers and the sections of file k are copied to address addr.  Their sizes
\* and addresses are not checked; a file is taken for one whose headers and
\* sections lie in its size_of_image, and the gaps between them, which keep what
\* was in memory, for part of its image.
Copied(k, addr) ==
  [a \in DOMAIN mem \cup addr .. (addr + archive[k].size - 1) |->
     IF a \in addr .. (addr + archive[k].size - 1)
     THEN [file |-> k, cell |-> a - addr]
     ELSE mem[a]]

Cleared(imports) ==
  [d \in DOMAIN imports |-> [m \in DOMAIN imports[d].symbols |-> Unbound]]

\* Mutant: the entry at the hint is taken without comparing its name.
LookupHinted(exports, symbol) == {symbol.hint} \cap DOMAIN exports

\* The hint is tried first, then the name table is searched.
Lookup(exports, symbol) ==
  IF exports[symbol.hint].name = symbol.name
  THEN {symbol.hint}
  ELSE {k \in DOMAIN exports : exports[k].name = symbol.name}

-----------------------------------------------------------------------------
Empty == [name |-> NoName, load_addr |-> 0, image_size |-> 0, entry |-> 0, stack_size |-> 0]

Init ==
  /\ archive \in Archives
  /\ slots  = [s \in AllSlot |-> Empty]
  /\ mem    = [a \in {} |-> [file |-> 0, cell |-> 0]]
  /\ iat    = [s \in AllSlot |-> <<>>]
  /\ calls  = <<>>
  /\ answer = NoAnswer

\* The caller of pe_loader_init loads the kernel next.
pe_loader_init(start) ==
  /\ slots' = [s \in AllSlot |-> IF s = 0 THEN [Empty EXCEPT !.load_addr = start] ELSE Empty]
  /\ calls' = <<Call(KERNEL)>>
  /\ UNCHANGED <<archive, mem, iat, answer>>

Entering == calls # <<>> /\ Running.pc = "enter"

AlreadyLoaded ==
  /\ Entering
  /\ LET stops == Stops(Running.name)
     IN  /\ stops # {}
         /\ slots[Min(stops)].name = Running.name
         /\ Return(Min(stops))
  /\ UNCHANGED <<archive, slots, mem, iat>>

TableFull ==
  /\ Entering
  /\ Stops(Running.name) = {}
  /\ Return(Failure)
  /\ UNCHANGED <<archive, slots, mem, iat>>

NewSlot == Stops(Running.name) # {} /\ slots[Min(Stops(Running.name))].name = NoName

NoImage ==
  /\ Entering /\ NewSlot
  /\ ~IsImage(Running.name)
  /\ Return(Failure)
  /\ UNCHANGED <<archive, slots, mem, iat>>

LoadImage ==
  /\ Entering /\ NewSlot
  /\ IsImage(Running.name)
  /\ LET s == Min(Stops(Running.name))
         k == Min(Matches(Running.name))
     IN  /\ mem'   = Copied(k, slots[s].load_addr)
         /\ slots' = Filled(s, Running.name, k)
         /\ iat'   = [iat EXCEPT ![s] = Cleared(archive[k].imports)]
         /\ Replace([Running EXCEPT !.pc = "imports", !.slot = s])
  /\ UNCHANGED <<archive, answer>>

-----------------------------------------------------------------------------
\* The activation is at an import directory whose dll is not loaded yet.
AtDirectory == calls # <<>> /\ Running.pc = "imports"

LoadDll ==
  /\ AtDirectory
  /\ Running.dir \in DOMAIN Image(Running.slot).imports
  /\ calls' = Append(Front(calls),
                     [Running EXCEPT !.pc = "loading"])
              \o <<Call(Image(Running.slot).imports[Running.dir].dll)>>
  /\ answer' = NoAnswer
  /\ UNCHANGED <<archive, slots, mem, iat>>

Loading == calls # <<>> /\ Running.pc = "loading"

\* The dll was loaded and has an export directory.
Usable == answer # Failure /\ Image(answer).exports # <<>>

DllFails ==
  /\ Loading
  /\ ~Usable
  /\ Return(Failure)
  /\ UNCHANGED <<archive, slots, mem, iat>>

DllLoaded ==
  /\ Loading
  /\ Usable
  /\ Replace([Running EXCEPT !.pc = "symbols", !.dll = answer, !.symbol = 1])
  /\ UNCHANGED <<archive, slots, mem, iat, answer>>

-----------------------------------------------------------------------------
Binding == calls # <<>> /\ Running.pc = "symbols"

Directory == Image(Running.slot).imports[Running.dir]

\* An import by ordinal is not supported.
Found ==
  LET wanted == Directory.symbols[Running.symbol]
  IN  IF wanted.ordinal THEN {} ELSE Lookup(Image(Running.dll).exports, wanted)

\* Mutant: no way on to the next symbol.
NextSymbolNot == [Running EXCEPT !.symbol = @]

NextSymbol == [Running EXCEPT !.symbol = @ + 1]

NotBound ==
  /\ Binding
  /\ Running.symbol \in DOMAIN Directory.symbols
  /\ Found = {}
  /\ Return(Failure)
  /\ UNCHANGED <<archive, slots, mem, iat>>

Bind ==
  /\ Binding
  /\ Running.symbol \in DOMAIN Directory.symbols
  /\ Found # {}
  /\ iat' = [iat EXCEPT ![Running.slot][Running.dir][Running.symbol] =
               [base  |-> slots[Running.dll].load_addr,
                entry |-> Image(Running.dll).exports[Min(Found)].entry]]
  /\ Replace(NextSymbol)
  /\ UNCHANGED <<archive, slots, mem, answer>>

DirectoryBound ==
  /\ Binding
  /\ Running.symbol \notin DOMAIN Directory.symbols
  /\ Replace([Running EXCEPT !.pc = "imports", !.dir = @ + 1])
  /\ UNCHANGED <<archive, slots, mem, iat, answer>>

ImportsBound ==
  /\ AtDirectory
  /\ Running.dir \notin DOMAIN Image(Running.slot).imports
  /\ Return(Running.slot)
  /\ UNCHANGED <<archive, slots, mem, iat>>

Done == calls = <<>>

pe_load ==
  \/ AlreadyLoaded \/ TableFull \/ NoImage \/ LoadImage
  \/ LoadDll \/ DllFails \/ DllLoaded
  \/ NotBound \/ Bind \/ DirectoryBound \/ ImportsBound

-----------------------------------------------------------------------------
\* The end of the memory for images: the code looks at the slots from the last
\* one down for one with an address.
pe_get_memory_range_end ==
  LET last == Max({s \in Slot : slots[s].load_addr # 0})
  IN  slots[last].load_addr + slots[last].image_size

-----------------------------------------------------------------------------
(***************************************************************************)
(* What the properties of TslEntry are made of.                           *)
(***************************************************************************)
Registered == {s \in AllSlot : slots[s].name # NoName}

\* The state has the shape the program's declarations give it; the spare slot
\* of the array is never used.
PeTypeOK ==
  /\ \A s \in AllSlot : slots[s].load_addr \in Nat /\ slots[s].image_size \in Nat
  /\ slots[STATES_MAX] = Empty
  /\ \A a \in DOMAIN mem : mem[a].file \in DOMAIN archive
  /\ answer \in Slot \cup {NoAnswer, Failure}
  /\ \A k \in DOMAIN calls :
       /\ calls[k].slot \in Slot /\ calls[k].dll \in Slot
       /\ calls[k].pc \in {"enter", "imports", "loading", "symbols"}

\* While pe_load calls itself for dlls of any depth, every loaded image stays
\* in memory as it was copied: no later image is put on top of it, and none
\* on the archive they all come from.
ImagesIntact ==
  /\ \A s \in Registered : \A c \in 0 .. (slots[s].image_size - 1) :
       mem[slots[s].load_addr + c] = [file |-> Min(Matches(slots[s].name)), cell |-> c]
  /\ \A a \in DOMAIN mem : a >= ramfs_get_end

\* Every symbol that any loaded image imports is bound to the entry point of
\* that symbol in the dll it is imported from.
AllBound ==
  \A s \in Registered : \A d \in DOMAIN Image(s).imports :
    \A m \in DOMAIN Image(s).imports[d].symbols :
      \E t \in Registered : \E x \in DOMAIN Image(t).exports :
        /\ slots[t].name = Image(s).imports[d].dll
        /\ Image(t).exports[x].name = Image(s).imports[d].symbols[m].name
        /\ iat[s][d][m] = [base  |-> slots[t].load_addr,
                           entry |-> Image(t).exports[x].entry]

\* The names that loading the kernel takes: the smallest set with the kernel
\* that has with a file the dlls it imports.
Names == {KERNEL} \cup
         UNION {{archive[k].imports[d].dll : d \in DOMAIN archive[k].imports} :
                k \in DOMAIN archive}

ImportedBy(name) ==
  IF Exists(name)
  THEN {ramfs_file(name).imports[d] : d \in DOMAIN ramfs_file(name).imports}
  ELSE {}

Needed ==
  {n \in Names : \A S \in SUBSET Names :
     /\ KERNEL \in S
     /\ \A m \in S : \A i \in ImportedBy(m) : i.dll \in S
     => n \in S}

Provided(i) ==
  /\ ramfs_file(i.dll).exports # <<>>
  /\ \A m \in DOMAIN i.symbols :
       /\ ~i.symbols[m].ordinal
       /\ \E x \in DOMAIN ramfs_file(i.dll).exports :
            ramfs_file(i.dll).exports[x].name = i.symbols[m].name

\* All files that the kernel needs, directly or not, are there with the symbols
\* wanted of them, and fit in the table.
Loadable ==
  /\ Cardinality(Needed) <= STATES_MAX
  /\ \A n \in Needed : Exists(n) /\ ramfs_file(n).valid
  /\ \A n \in Needed : \A i \in ImportedBy(n) : Provided(i)

\* ramfs_file takes the "Full filename" (ramfs.h): an image comes from the
\* file with the name asked for.
FullName ==
  \A s \in Registered : archive[mem[slots[s].load_addr].file].name = slots[s].name
=============================================================================
