------------------------------ MODULE BootProofs ------------------------------
(***************************************************************************)
(* Theorems about Boot, for every machine, heap and size of the structs.   *)
(***************************************************************************)
EXTENDS Boot, BlockListProofs

-----------------------------------------------------------------------------
(***************************************************************************)
(* The A20 gate: how far enable_A20 and the keyboard controller have come  *)
(* with each other.                                                        *)
(***************************************************************************)
A20Steps == {"probe", "bios", "bios probe", "disable keyboard", "read port", "receive",
             "write port", "port data", "enable keyboard", "settle", "controller probe",
             "fast", "fast probe", "on", "off"}

Bytes == {"none", "floating", "AD", "D0", "D1", "data", "AE"}

Ports == [a20 : BOOLEAN, others : {"reset line", "key code", "nothing"}]

Controllers == [input : Bytes, output : Ports, port : Ports, keyboard : BOOLEAN,
                writing : BOOLEAN, keys : Nat]

\* The gate is on if the controller is wired to it.
Wired == machine.kbc = "wired" => gate

\* Which bytes the controller may still have to take.
Handshake ==
  /\ kbc.input = "data" => a20 = "enable keyboard" /\ kbc.writing
  /\ a20 = "port data" => kbc.input = "D1" \/ (kbc.input = "none" /\ kbc.writing)
  /\ a20 = "enable keyboard" => kbc.input = "data" \/ (kbc.input = "none" /\ Wired)
  /\ a20 = "settle" => kbc.input \in {"AE", "none"} /\ Wired
  /\ a20 \in {"controller probe", "fast", "fast probe", "off"} => kbc.input = "none" /\ Wired

\* Without a key, whatever is read is the output port.
NoKey ==
  /\ kbc.keys = 0
  /\ kbc.port.others = "reset line"
  /\ kbc.output = NOTHING \/ kbc.output.others = "reset line"
  /\ a20 \in {"write port", "port data", "enable keyboard"} => kb_data.others = "reset line"

\* What the methods that were tried have done to the gate.
Gated ==
  /\ a20 \notin {"probe", "bios"} /\ machine.bios = "works" => gate
  /\ a20 \in {"fast probe", "off"} /\ machine.fast => gate
  /\ a20 = "on" => gate
  /\ a20 = "off" => ~gate

A20Inv ==
  /\ gate \in BOOLEAN
  /\ ram = [low |-> 1, high |-> 2]
  /\ kbc \in Controllers /\ kb_data \in Ports
  /\ a20 \in A20Steps
  /\ Handshake /\ Gated
  /\ ~machine.key => NoKey

LEMMA InitA20 ==
  ASSUME Init
  PROVE  A20Inv
  <1>1. A20Init(machine)
    BY DEF Init
  <1>2. kbc \in Controllers /\ kb_data \in Ports /\ NOTHING \in Ports
    BY <1>1 DEF A20Init, Controllers, Ports, Port, NOTHING, Bytes
  <1>3. gate \in BOOLEAN /\ ram = [low |-> 1, high |-> 2] /\ a20 = "probe"
    BY <1>1 DEF A20Init
  <1>4. /\ kbc.input \in {"none", "floating"} /\ kbc.output = NOTHING
        /\ kbc.port.others = "reset line" /\ (~machine.key => kbc.keys = 0)
    BY <1>1 DEF A20Init, Port
  <1> QED
    BY <1>2, <1>3, <1>4 DEF A20Inv, A20Steps, Handshake, Gated, NoKey

\* A probe leaves memory as it was, and sees the gate.
LEMMA ProbeFacts ==
  ASSUME gate \in BOOLEAN, ram = [low |-> 1, high |-> 2]
  PROVE  Restored = ram /\ (check_A20 <=> gate)
  <1>1. CASE gate
    BY <1>1 DEF Restored, Marked, Test, check_A20
  <1>2. CASE ~gate
    BY <1>2 DEF Restored, Marked, Test, check_A20
  <1> QED
    BY <1>1, <1>2

LEMMA ProbeStep ==
  ASSUME A20Inv, UNCHANGED machine, NEW step, NEW otherwise, Probe(step, otherwise),
         <<step, otherwise>> \in {<<"probe", "bios">>, <<"bios probe", "disable keyboard">>,
                                  <<"controller probe", "fast">>, <<"fast probe", "off">>}
  PROVE  A20Inv'
  <1>1. a20 = step /\ ram' = Restored /\ UNCHANGED <<gate, kbc, kb_data>>
        /\ a20' = IF check_A20 THEN "on" ELSE otherwise
    BY DEF Probe
  <1>2. ram' = ram /\ a20' = IF gate THEN "on" ELSE otherwise
    BY <1>1, ProbeFacts DEF A20Inv
  <1> QED
    BY <1>1, <1>2 DEF A20Inv, A20Steps, Handshake, Gated, NoKey, Wired

LEMMA SendStep ==
  ASSUME A20Inv, UNCHANGED machine, NEW step, NEW byte, NEW next, Send(step, byte, next),
         <<step, byte, next>> \in {<<"disable keyboard", "AD", "read port">>,
                                   <<"read port", "D0", "receive">>,
                                   <<"write port", "D1", "port data">>,
                                   <<"port data", "data", "enable keyboard">>,
                                   <<"enable keyboard", "AE", "settle">>}
  PROVE  A20Inv'
  <1>1. a20 = step /\ kbc.input = "none" /\ kbc' = [kbc EXCEPT !.input = byte] /\ a20' = next
        /\ UNCHANGED <<gate, ram, kb_data>>
    BY DEF Send
  <1>2. byte \in Bytes /\ next \in A20Steps
    BY DEF Bytes, A20Steps
  <1>3. /\ kbc' \in Controllers /\ kbc'.input = byte /\ kbc'.output = kbc.output
        /\ kbc'.port = kbc.port /\ kbc'.writing = kbc.writing /\ kbc'.keys = kbc.keys
    BY <1>1, <1>2 DEF A20Inv, Controllers
  <1> QED
    BY <1>1, <1>2, <1>3 DEF A20Inv, Handshake, Gated, NoKey, Wired

LEMMA LoaderA20Step ==
  ASSUME A20Inv, UNCHANGED machine, enable_A20(machine)
  PROVE  A20Inv'
  <1>1. CASE Poll
    BY <1>1 DEF Poll, a20vars, A20Inv, Handshake, Gated, NoKey, Wired
  <1>2. CASE \/ Probe("probe", "bios") \/ Probe("bios probe", "disable keyboard")
             \/ Probe("controller probe", "fast") \/ Probe("fast probe", "off")
    BY <1>2, ProbeStep
  <1>3. CASE \/ Send("disable keyboard", "AD", "read port") \/ Send("read port", "D0", "receive")
             \/ Send("write port", "D1", "port data") \/ Send("port data", "data", "enable keyboard")
             \/ Send("enable keyboard", "AE", "settle")
    BY <1>3, SendStep
  <1>4. CASE BiosGate(machine)
    BY <1>4 DEF BiosGate, A20Inv, A20Steps, Handshake, Gated, NoKey, Wired
  <1>5. CASE Receive
    <2>1. /\ a20 = "receive" /\ kbc.output # NOTHING /\ kb_data' = kbc.output
          /\ kbc' = [kbc EXCEPT !.output = NOTHING] /\ a20' = "write port"
          /\ UNCHANGED <<gate, ram>>
      BY <1>5 DEF Receive
    <2>2. NOTHING \in Ports
      BY DEF NOTHING, Port, Ports
    <2>3. /\ kbc' \in Controllers /\ kb_data' \in Ports /\ kbc'.input = kbc.input
          /\ kbc'.output = NOTHING /\ kbc'.port = kbc.port /\ kbc'.writing = kbc.writing
          /\ kbc'.keys = kbc.keys
      BY <2>1, <2>2 DEF A20Inv, Controllers
    <2> QED
      BY <2>1, <2>3 DEF A20Inv, A20Steps, Handshake, Gated, NoKey, Wired
  <1>6. CASE Settle
    BY <1>6 DEF Settle, Settled, A20Inv, A20Steps, Handshake, Gated, NoKey, Wired
  <1>7. CASE FastGate(machine)
    BY <1>7 DEF FastGate, A20Inv, A20Steps, Handshake, Gated, NoKey, Wired
  <1> QED
    BY <1>1, <1>2, <1>3, <1>4, <1>5, <1>6, <1>7 DEF enable_A20

\* The controller takes a byte.
LEMMA TakeByteStep ==
  ASSUME A20Inv, UNCHANGED machine, TakeByte(machine)
  PROVE  A20Inv'
  <1> DEFINE taken == [kbc EXCEPT !.input = "none", !.writing = kbc.input = "D1"]
             writes == kbc.input = "data" /\ kbc.writing
  <1>1. /\ kbc.input # "none"
        /\ kbc' = CASE kbc.input = "AD" -> [taken EXCEPT !.keyboard = FALSE]
                     [] kbc.input = "AE" -> [taken EXCEPT !.keyboard = TRUE]
                     [] kbc.input = "D0" -> [taken EXCEPT !.output = kbc.port]
                     [] writes           -> [taken EXCEPT !.port = Port(TRUE, kb_data.others)]
                     [] OTHER            -> taken
        /\ gate' = (gate \/ (writes /\ machine.kbc = "wired"))
        /\ UNCHANGED <<ram, kb_data, a20>>
    BY DEF TakeByte
  <1>2. kbc \in Controllers /\ kb_data \in Ports
    BY DEF A20Inv
  <1>3. taken \in Controllers /\ Port(TRUE, kb_data.others) \in Ports
        /\ Port(TRUE, kb_data.others).others = kb_data.others
    BY <1>2 DEF Controllers, Bytes, Port, Ports
  <1>4. /\ kbc' \in Controllers /\ kbc'.input = "none" /\ kbc'.writing = (kbc.input = "D1")
        /\ kbc'.keys = kbc.keys
        /\ kbc'.output = IF kbc.input = "D0" THEN kbc.port ELSE kbc.output
        /\ kbc'.port = IF writes THEN Port(TRUE, kb_data.others) ELSE kbc.port
    <2>1. CASE kbc.input = "AD"
      BY <2>1, <1>1, <1>2, <1>3 DEF Controllers
    <2>2. CASE kbc.input = "AE"
      BY <2>2, <1>1, <1>2, <1>3 DEF Controllers
    <2>3. CASE kbc.input = "D0"
      BY <2>3, <1>1, <1>2, <1>3 DEF Controllers
    <2>4. CASE writes
      BY <2>4, <1>1, <1>2, <1>3 DEF Controllers
    <2>5. CASE kbc.input \notin {"AD", "AE", "D0"} /\ ~writes
      <3>1. kbc' = taken
        BY <2>5, <1>1
      <3> QED
        BY <2>5, <3>1, <1>2, <1>3 DEF Controllers
    <2> QED
      BY <2>1, <2>2, <2>3, <2>4, <2>5
  <1>5. Gated' /\ gate' \in BOOLEAN
    BY <1>1 DEF A20Inv, Gated, Handshake
  <1>6. Handshake'
    BY <1>1, <1>4 DEF A20Inv, Handshake, Wired
  <1>7. ~machine'.key => NoKey'
    BY <1>1, <1>3, <1>4, ZenonT(60) DEF A20Inv, NoKey, Handshake
  <1> QED
    BY <1>1, <1>4, <1>5, <1>6, <1>7 DEF A20Inv

LEMMA ControllerStep ==
  ASSUME A20Inv, UNCHANGED machine, Controller(machine)
  PROVE  A20Inv'
  <1>0. NOTHING \in Ports /\ KEYCODE \in Ports
    BY DEF NOTHING, KEYCODE, Port, Ports
  <1>1. CASE TakeByte(machine)
    BY <1>1, TakeByteStep
  <1>2. CASE PressKey(machine)
    <2>1. /\ kbc' = [kbc EXCEPT !.output = KEYCODE, !.keys = @ - 1] /\ kbc.keys > 0
          /\ UNCHANGED <<gate, ram, kb_data, a20>>
      BY <1>2 DEF PressKey
    <2>2. kbc \in Controllers /\ kbc.keys \in Nat /\ kbc.keys # 0 /\ kbc.keys - 1 \in Nat
      <3>1. kbc \in Controllers /\ kbc.keys \in Nat
        BY DEF A20Inv, Controllers
      <3> QED
        BY <2>1, <3>1
    <2>3. kbc' = [kbc EXCEPT !.output = KEYCODE, !.keys = kbc.keys - 1]
      BY <2>1
    <2>4. /\ kbc' \in Controllers /\ kbc'.input = kbc.input /\ kbc'.writing = kbc.writing
      BY <2>2, <2>3, <1>0 DEF Controllers
    <2>5. machine.key
      BY <2>2 DEF A20Inv, NoKey
    <2> QED
      BY <2>1, <2>4, <2>5 DEF A20Inv, Handshake, Gated, Wired
  <1>3. CASE Interrupt(machine)
    <2>1. /\ kbc' = [kbc EXCEPT !.output = NOTHING]
          /\ UNCHANGED <<gate, ram, kb_data, a20>>
      BY <1>3 DEF Interrupt
    <2>2. /\ kbc' \in Controllers /\ kbc'.input = kbc.input /\ kbc'.writing = kbc.writing
          /\ kbc'.port = kbc.port /\ kbc'.output = NOTHING /\ kbc'.keys = kbc.keys
      BY <2>1, <1>0 DEF A20Inv, Controllers
    <2> QED
      BY <2>1, <2>2 DEF A20Inv, Handshake, Gated, NoKey, Wired
  <1> QED
    BY <1>1, <1>2, <1>3 DEF Controller

-----------------------------------------------------------------------------
(***************************************************************************)
(* The processor: what it has been set up for at each of the steps.        *)
(***************************************************************************)
\* Steps with A20 on; with descriptors; with the limit of 4 GB.
Enabled   == Steps \ {"cpuid", "compat", "a20", "halt"}
Described == Enabled \ {"gdt"}
Unreal    == Described \ {"unreal", "fault"}

\* Steps with the kernel loaded, and with the TSL.
KernelIn == {"info", "array", "video", "finish", "protect", "stub", "tsl"}
TslIn    == {"buffer", "kernel"} \cup KernelIn

\* Steps with the drive's GUID.
GuidIn == {"table", "find", "load"} \cup TslIn

\* What is kept of the drive.
Kept == [drive_GUID : {NOGUID, machine.guid}, tsl : {"not"} \cup TslRead,
         kernel : 0 .. machine.sectors]

\* Steps without interrupts.
Masked == {"protect", "stub", "tsl"}

Control ==
  /\ machine \in Machines
  /\ pc \in Steps
  /\ cpu \in [gdtr : BOOLEAN, big : BOOLEAN, pe : BOOLEAN, interrupts : BOOLEAN]
  /\ loaded \in Kept
  /\ pc \notin {"cpuid", "compat", "halt"} => Compatible
  /\ pc \in Enabled => gate
  /\ pc \in Described => cpu.gdtr /\ GdtReady
  /\ pc \in Unreal /\ machine.keeps => cpu.big
  /\ pc = "fault" => ~machine.keeps
  /\ pc \in GuidIn => loaded.drive_GUID = machine.guid
  /\ pc \in TslIn => loaded.tsl \in TslRead
  /\ pc \in KernelIn => loaded.kernel = machine.sectors
  /\ pc \in Masked => ~cpu.interrupts
  /\ pc \notin Masked => ~cpu.pe /\ low = "vectors"

LEMMA InitControl ==
  ASSUME Init
  PROVE  Control
  <1>1. machine \in Machines /\ machine.sectors \in Nat /\ pc = "cpuid" /\ low = "vectors"
    BY BootAssumption DEF Init
  <1>2. /\ cpu \in [gdtr : BOOLEAN, big : BOOLEAN, pe : BOOLEAN, interrupts : BOOLEAN]
        /\ ~cpu.pe
    BY DEF Init
  <1>3. loaded \in Kept
    BY <1>1 DEF Init, Kept
  <1> QED
    BY <1>1, <1>2, <1>3
    DEF Control, Steps, Enabled, Described, Unreal, GuidIn, TslIn, KernelIn, Masked

\* Moves from one step to another that set nothing up.
Moves ==
  {<<"cpuid", "halt">>, <<"compat", "halt">>, <<"a20", "halt">>, <<"map", "halt">>,
   <<"drive", "halt">>, <<"header", "halt">>, <<"read", "halt">>, <<"check", "halt">>,
   <<"table", "halt">>, <<"find", "halt">>, <<"load", "halt">>, <<"buffer", "halt">>,
   <<"kernel", "halt">>, <<"info", "halt">>, <<"array", "halt">>,
   <<"cpuid", "compat">>, <<"map", "drive">>, <<"drive", "header">>, <<"header", "read">>,
   <<"read", "check">>, <<"table", "find">>, <<"find", "load">>,
   <<"buffer", "kernel">>, <<"info", "array">>, <<"array", "video">>, <<"video", "finish">>}

LEMMA BiosFacts ==
  ASSUME Control, Bios
  PROVE  /\ cpu' \in [gdtr : BOOLEAN, big : BOOLEAN, pe : BOOLEAN, interrupts : BOOLEAN]
         /\ cpu'.gdtr = cpu.gdtr /\ cpu'.pe = cpu.pe /\ cpu'.interrupts = cpu.interrupts
         /\ machine.keeps => cpu'.big = cpu.big
         /\ UNCHANGED <<machine, gate, gdt, low>>
  <1>1. /\ cpu' \in {cpu, [cpu EXCEPT !.big = cpu.big /\ machine.keeps]}
        /\ UNCHANGED <<machine, gate, gdt, low>>
    BY DEF Bios, a20vars
  <1>2. cpu \in [gdtr : BOOLEAN, big : BOOLEAN, pe : BOOLEAN, interrupts : BOOLEAN]
    BY DEF Control
  <1>3. CASE cpu' = cpu
    BY <1>1, <1>2, <1>3
  <1>4. CASE cpu' = [cpu EXCEPT !.big = cpu.big /\ machine.keeps]
    BY <1>1, <1>2, <1>4
  <1> QED
    BY <1>1, <1>3, <1>4

\* A step that the processor is not concerned with, or only as far as the
\* BIOS may reload its segment limits.
LEMMA MovedControl ==
  ASSUME Control, Bios \/ UNCHANGED <<machine, hardware>>, UNCHANGED loaded,
         <<pc, pc'>> \in Moves
  PROVE  Control'
  <1>1. /\ cpu' \in [gdtr : BOOLEAN, big : BOOLEAN, pe : BOOLEAN, interrupts : BOOLEAN]
        /\ cpu'.gdtr = cpu.gdtr /\ cpu'.pe = cpu.pe /\ cpu'.interrupts = cpu.interrupts
        /\ machine.keeps => cpu'.big = cpu.big
        /\ UNCHANGED <<machine, gate, gdt, low>>
    <2>1. CASE Bios
      BY <2>1, BiosFacts
    <2>2. CASE UNCHANGED <<machine, hardware>>
      BY <2>2 DEF hardware, a20vars, Control
    <2> QED
      BY <2>1, <2>2
  <1>2. (GdtReady <=> GdtReady') /\ (Compatible <=> Compatible')
    BY <1>1 DEF GdtReady, SegmentLimit, Compatible
  <1>3. /\ pc' \in Steps /\ pc' \notin Masked /\ pc \notin Masked /\ pc' # "fault"
        /\ pc' \notin {"cpuid", "compat", "halt"} => pc \notin {"cpuid", "compat", "halt"}
        /\ pc' \in Enabled => pc \in Enabled
        /\ pc' \in Described => pc \in Described
        /\ pc' \in Unreal => pc \in Unreal
        /\ pc' \in GuidIn => pc \in GuidIn
        /\ pc' \in TslIn => pc \in TslIn
        /\ pc' \in KernelIn => pc \in KernelIn
    BY DEF Moves, Steps, Enabled, Described, Unreal, GuidIn, TslIn, KernelIn, Masked
  <1>4. Kept' = Kept /\ TslRead' = TslRead
    BY <1>1 DEF Kept, TslRead
  <1> QED
    BY <1>1, <1>2, <1>3, <1>4 DEF Control

-----------------------------------------------------------------------------
\* The last of a * b numbers is in the last place of the last group.
LEMMA LastOf ==
  ASSUME NEW a \in Nat \ {0}, NEW b \in Nat \ {0}
  PROVE  /\ a * b - 1 \in Nat
         /\ (a * b - 1) % a = a - 1
         /\ (a * b - 1) \div a = b - 1
  <1> DEFINE n == a * b - 1
             q == n \div a
             r == n % a
  <1>1. a * b \in Nat /\ a * b >= 1 /\ a * b = a * (b - 1) + a
    OBVIOUS
  <1>2. n \in Nat /\ n = a * (b - 1) + (a - 1)
    BY <1>1
  <1>3. q \in Nat /\ r \in 0 .. (a - 1) /\ n = a * q + r
    BY <1>2
  <1> HIDE DEF n, q, r
  <1>4. CASE q < b - 1
    <2>1. a * q + a <= a * (b - 1)
      BY <1>3, <1>4
    <2> QED
      BY <2>1, <1>2, <1>3
  <1>5. CASE q > b - 1
    <2>1. a * (b - 1) + a <= a * q
      BY <1>3, <1>5
    <2> QED
      BY <2>1, <1>2, <1>3
  <1>6. q = b - 1 /\ r = a - 1
    BY <1>2, <1>3, <1>4, <1>5
  <1> QED
    BY <1>2, <1>6 DEF n, q, r

\* A descriptor for the largest limit gives it.
LEMMA FlatLimit ==
  ASSUME NEW flags, NEW access
  PROVE  SegmentLimit(Flat(flags, access)) = ALL
  <1> DEFINE d == Flat(flags, access)
  <1>0. LIMIT16 \in Nat \ {0} /\ LIMIT4 \in Nat \ {0} /\ PAGE \in Nat \ {0}
    BY BootAssumption
  <1>1. /\ d.low = ALL % LIMIT16 /\ d.high = (ALL \div LIMIT16) % LIMIT4
        /\ "granularity" \in d.flags
    BY DEF Flat, set_GDT32_entry
  <1>2. LIMIT4 * PAGE \in Nat \ {0} /\ LIMIT16 * LIMIT4 \in Nat \ {0}
        /\ LIMIT16 * (LIMIT4 * PAGE) = LIMIT16 * LIMIT4 * PAGE
    BY <1>0
  <1>3. ALL = LIMIT16 * (LIMIT4 * PAGE) - 1
    BY <1>2 DEF ALL
  <1>4. d.low = LIMIT16 - 1 /\ ALL \div LIMIT16 = LIMIT4 * PAGE - 1
    BY <1>0, <1>1, <1>2, <1>3, LastOf
  <1>5. d.high = LIMIT4 - 1
    BY <1>0, <1>1, <1>4, LastOf, ZenonT(60)
  <1>6. d.high * LIMIT16 + d.low + 1 = LIMIT16 * LIMIT4
    BY <1>0, <1>4, <1>5
  <1>7. SegmentLimit(d) = (d.high * LIMIT16 + d.low + 1) * PAGE - 1
    BY <1>1 DEF SegmentLimit
  <1> QED
    BY <1>6, <1>7 DEF ALL

LEMMA LoadGdtControl ==
  ASSUME Control, LoadGdt
  PROVE  Control'
  <1>1. /\ pc = "gdt" /\ pc' = "unreal" /\ cpu' = [cpu EXCEPT !.gdtr = TRUE]
        /\ UNCHANGED <<machine, gate, low, loaded>>
    BY DEF LoadGdt, a20vars, memory
  <1>2. /\ gdt'[2] = Flat({"size"}, {"executable", "readable"})
        /\ gdt'[3] = Flat({"size"}, {"writeable"})
        /\ gdt'[4] = Flat({"long"}, {"executable", "readable"})
    BY DEF LoadGdt
  <1>3. GdtReady'
    <2>1. \A k \in 2 .. 4 : k = 2 \/ k = 3 \/ k = 4
      OBVIOUS
    <2>2. \A k \in 2 .. 4 : SegmentLimit(gdt'[k]) = ALL
      BY <1>2, <2>1, FlatLimit
    <2>3. /\ gdt'[2].flags = {"granularity", "size"}
          /\ gdt'[2].access = {"present", "segment", "executable", "readable"}
          /\ gdt'[3].access = {"present", "segment", "writeable"}
          /\ gdt'[4].flags = {"granularity", "long"}
          /\ gdt'[4].access = {"present", "segment", "executable", "readable"}
      BY <1>2 DEF Flat, set_GDT32_entry
    <2> QED
      BY <2>1, <2>2, <2>3 DEF GdtReady, SegmentLimit
  <1>4. /\ cpu' \in [gdtr : BOOLEAN, big : BOOLEAN, pe : BOOLEAN, interrupts : BOOLEAN]
        /\ cpu'.gdtr /\ cpu'.pe = cpu.pe
    BY <1>1 DEF Control
  <1>5. (Compatible' <=> Compatible) /\ Kept' = Kept /\ TslRead' = TslRead
    BY <1>1 DEF Compatible, Kept, TslRead
  <1> QED
    BY <1>1, <1>3, <1>4, <1>5
    DEF Control, Steps, Enabled, Described, Unreal, GuidIn, TslIn, KernelIn, Masked

LEMMA UnrealControl ==
  ASSUME Control, enter_unreal
  PROVE  Control'
  <1>1. /\ pc = "unreal" /\ pc' = "map"
        /\ cpu' = [cpu EXCEPT !.big = cpu.gdtr /\ SegmentLimit(gdt[3]) = ALL,
                              !.interrupts = TRUE]
        /\ UNCHANGED <<machine, gate, gdt, low, loaded>>
    BY DEF enter_unreal, a20vars, memory
  <1>2. cpu.gdtr /\ GdtReady /\ SegmentLimit(gdt[3]) = ALL
    BY <1>1 DEF Control, Described, Enabled, Steps, GdtReady
  <1>3. /\ cpu' \in [gdtr : BOOLEAN, big : BOOLEAN, pe : BOOLEAN, interrupts : BOOLEAN]
        /\ cpu'.gdtr /\ cpu'.big /\ cpu'.pe = cpu.pe
    BY <1>1, <1>2 DEF Control
  <1>4. (Compatible' <=> Compatible) /\ GdtReady' /\ Kept' = Kept /\ TslRead' = TslRead
    BY <1>1, <1>2 DEF Compatible, GdtReady, SegmentLimit, Kept, TslRead
  <1> QED
    BY <1>1, <1>3, <1>4
    DEF Control, Steps, Enabled, Described, Unreal, GuidIn, TslIn, KernelIn, Masked

LEMMA CompatControl ==
  ASSUME Control, check_cpu_compat
  PROVE  Control'
  BY DEF check_cpu_compat, hardware, a20vars, memory, Compatible, Kept, TslRead, Control, Steps, Enabled,
         Described, Unreal, GuidIn, TslIn, KernelIn, Masked

LEMMA A20Control ==
  ASSUME Control, A20Inv, EnableA20 \/ KeyboardController \/ A20Done
  PROVE  Control'
  <1>1. /\ pc = "a20" /\ UNCHANGED <<machine, gdt, cpu, low, loaded>>
        /\ \/ pc' = pc
           \/ pc' = "halt" /\ UNCHANGED gate
           \/ pc' = "gdt" /\ a20 = "on" /\ UNCHANGED gate
    BY DEF EnableA20, KeyboardController, A20Done, A20Answered, hardware, a20vars, memory
  <1>2. (Compatible' <=> Compatible) /\ Kept' = Kept /\ TslRead' = TslRead
    BY <1>1 DEF Compatible, Kept, TslRead
  <1> QED
    BY <1>1, <1>2
    DEF A20Inv, Gated, Control, Steps, Enabled, Described, Unreal, GuidIn, TslIn, KernelIn, Masked

LEMMA CheckHeaderControl ==
  ASSUME Control, CheckHeader
  PROVE  Control'
  <1>1. pc = "check" /\ UNCHANGED <<machine, gate, gdt, cpu, low>>
    BY DEF CheckHeader, hardware, a20vars
  <1>2. CASE loaded' = [loaded EXCEPT !.drive_GUID = machine.guid] /\ pc' = "table"
    <2>1. Kept' = Kept /\ TslRead' = TslRead
      BY <1>1 DEF Kept, TslRead
    <2>2. loaded' \in Kept /\ loaded'.drive_GUID = machine.guid
      BY <1>2 DEF Control, Kept
    <2>3. (Compatible' <=> Compatible) /\ (GdtReady' <=> GdtReady)
      BY <1>1 DEF Compatible, GdtReady, SegmentLimit
    <2> QED
      BY <1>1, <1>2, <2>1, <2>2, <2>3
      DEF Control, Steps, Enabled, Described, Unreal, GuidIn, TslIn, KernelIn, Masked
  <1>3. CASE pc' = "halt" /\ UNCHANGED loaded
    BY <1>3, MovedControl DEF CheckHeader, Moves
  <1> QED
    BY <1>2, <1>3 DEF CheckHeader

LEMMA LoadTslControl ==
  ASSUME Control, LoadTsl
  PROVE  Control'
  <1>1. CASE Halt
    BY <1>1, MovedControl DEF LoadTsl, Halt, memory, Moves
  <1>2. ASSUME NEW t \in TslRead, loaded' = [loaded EXCEPT !.tsl = t], pc' = "buffer"
        PROVE  Control'
    <2>1. /\ pc = "load" /\ Bios
      BY DEF LoadTsl
    <2>2. /\ cpu' \in [gdtr : BOOLEAN, big : BOOLEAN, pe : BOOLEAN, interrupts : BOOLEAN]
          /\ cpu'.gdtr = cpu.gdtr /\ cpu'.pe = cpu.pe
          /\ machine.keeps => cpu'.big = cpu.big
          /\ UNCHANGED <<machine, gate, gdt, low>>
      BY <2>1, BiosFacts
    <2>3. /\ loaded' \in Kept /\ loaded'.tsl \in TslRead
          /\ loaded'.drive_GUID = loaded.drive_GUID
      BY <1>2 DEF Control, Kept
    <2>5. Kept' = Kept /\ TslRead' = TslRead
      BY <2>2 DEF Kept, TslRead
    <2>4. (Compatible' <=> Compatible) /\ (GdtReady' <=> GdtReady)
      BY <2>2 DEF Compatible, GdtReady, SegmentLimit
    <2> QED
      BY <1>2, <2>1, <2>2, <2>3, <2>4, <2>5
      DEF Control, Steps, Enabled, Described, Unreal, GuidIn, TslIn, KernelIn, Masked
  <1> QED
    BY <1>1, <1>2 DEF LoadTsl

LEMMA LoadSectorControl ==
  ASSUME Control, LoadSector
  PROVE  Control'
  <1>1. /\ pc = "kernel" /\ loaded.kernel # machine.sectors /\ Bios
        /\ \/ cpu'.big /\ loaded' = [loaded EXCEPT !.kernel = @ + 1] /\ UNCHANGED pc
           \/ ~cpu'.big /\ pc' = "fault" /\ UNCHANGED loaded
           \/ pc' = "halt" /\ UNCHANGED loaded
    BY DEF LoadSector, KernelRead
  <1>2. /\ cpu' \in [gdtr : BOOLEAN, big : BOOLEAN, pe : BOOLEAN, interrupts : BOOLEAN]
        /\ cpu'.gdtr = cpu.gdtr /\ cpu'.pe = cpu.pe
        /\ machine.keeps => cpu'.big = cpu.big
        /\ UNCHANGED <<machine, gate, gdt, low>>
    BY <1>1, BiosFacts
  <1>3. (Compatible' <=> Compatible) /\ (GdtReady' <=> GdtReady)
    BY <1>2 DEF Compatible, GdtReady, SegmentLimit
  <1>4. /\ loaded' \in Kept
        /\ loaded'.tsl = loaded.tsl /\ loaded'.drive_GUID = loaded.drive_GUID
    <2>1. loaded \in Kept /\ machine.sectors \in Nat
      BY BootAssumption DEF Control
    <2>2. loaded.kernel + 1 \in 0 .. machine.sectors
      BY <2>1, <1>1 DEF Kept
    <2> QED
      BY <1>1, <2>1, <2>2 DEF Kept
  <1>6. Kept' = Kept /\ TslRead' = TslRead
    BY <1>2 DEF Kept, TslRead
  <1>5. machine.keeps => cpu.big
    BY <1>1 DEF Control, Unreal, Described, Enabled, Steps
  <1> QED
    BY <1>1, <1>2, <1>3, <1>4, <1>5, <1>6
    DEF Control, Steps, Enabled, Described, Unreal, GuidIn, TslIn, KernelIn, Masked

LEMMA KernelLoadedControl ==
  ASSUME Control, KernelLoaded
  PROVE  Control'
  BY DEF KernelLoaded, KernelRead, hardware, a20vars, Compatible, GdtReady, SegmentLimit,
         Kept, TslRead,
         Control, Steps, Enabled, Described, Unreal, GuidIn, TslIn, KernelIn, Masked

LEMMA AssemblyControl ==
  ASSUME Control, DisableInterrupts \/ EnterProtectedMode \/ JumpToTsl
  PROVE  Control'
  <1>1. /\ UNCHANGED <<machine, gate, gdt, loaded>>
        /\ \/ /\ pc = "finish" /\ pc' = "protect" /\ UNCHANGED low
              /\ cpu' = [cpu EXCEPT !.interrupts = FALSE]
           \/ /\ pc = "protect" /\ pc' = "stub" /\ UNCHANGED low
              /\ cpu' = [cpu EXCEPT !.pe = TRUE]
           \/ pc = "stub" /\ pc' = "tsl" /\ UNCHANGED cpu
    BY DEF DisableInterrupts, InterruptsOff, EnterProtectedMode, JumpToTsl, a20vars, memory
  <1>2. /\ (Compatible' <=> Compatible) /\ (GdtReady' <=> GdtReady)
        /\ Kept' = Kept /\ TslRead' = TslRead
    BY <1>1 DEF Compatible, GdtReady, SegmentLimit, Kept, TslRead
  <1>3. /\ cpu' \in [gdtr : BOOLEAN, big : BOOLEAN, pe : BOOLEAN, interrupts : BOOLEAN]
        /\ cpu'.gdtr = cpu.gdtr /\ cpu'.big = cpu.big
        /\ ~cpu'.interrupts
    BY <1>1 DEF Control, Masked
  <1> QED
    BY <1>1, <1>2, <1>3
    DEF Control, Steps, Enabled, Described, Unreal, GuidIn, TslIn, KernelIn, Masked

-----------------------------------------------------------------------------
(***************************************************************************)
(* Several calls of malloc in a row.  Mallocs is a recursive function; the *)
(* lemmas below are by induction over the number of calls, by way of sets  *)
(* of numbers, since a set of numbers that has 0 and the next number of    *)
(* every one it has has them all.                                          *)
(***************************************************************************)
LEMMA Induction ==
  ASSUME NEW S, 0 \in S, \A n \in Nat : n \in S => n + 1 \in S
  PROVE  \A n \in Nat : n \in S
  <1> SUFFICES ASSUME NEW k \in Nat, k \notin S PROVE FALSE
    OBVIOUS
  <1> DEFINE T == {n \in Nat : n \notin S}
  <1>1. Min(T) \in T /\ \A n \in T : Min(T) <= n
    <2>1. T \subseteq Nat /\ T # {}
      OBVIOUS
    <2> HIDE DEF T
    <2> QED
      BY <2>1, LeastExists
  <1>2. Min(T) # 0 /\ Min(T) \in Nat
    BY <1>1
  <1>3. Min(T) - 1 \in S
    BY <1>1, <1>2
  <1> QED
    BY <1>1, <1>2, <1>3

\* What one more call of malloc makes of the outcomes so far.
OneMore(outcomes, size) ==
  UNION {{[ptrs |-> Append(r.ptrs, m.ptr), heap |-> m.heap] :
            m \in {n \in {Malloc(r.heap, size)} : n.ptr # NULL}} : r \in outcomes}

\* f[k] is what k calls come to.
IsMallocs(f, n, h, sizes) ==
  f = [k \in 0 .. n |-> IF k = 0 THEN {[ptrs |-> << >>, heap |-> h]}
                                 ELSE OneMore(f[k - 1], sizes[k])]

\* The recursion defines a function.
LEMMA MallocsExists ==
  ASSUME NEW h, NEW sizes, NEW n \in Nat
  PROVE  \E f : IsMallocs(f, n, h, sizes)
  <1> DEFINE S == {m \in Nat : \E f : IsMallocs(f, m, h, sizes)}
  <1>1. 0 \in S
    <2> DEFINE f == [k \in 0 .. 0 |-> {[ptrs |-> << >>, heap |-> h]}]
    <2>1. f = [k \in 0 .. 0 |-> IF k = 0 THEN {[ptrs |-> << >>, heap |-> h]}
                                         ELSE OneMore(f[k - 1], sizes[k])]
      OBVIOUS
    <2>2. IsMallocs(f, 0, h, sizes)
      BY <2>1 DEF IsMallocs
    <2> QED
      BY <2>2
  <1>2. ASSUME NEW m \in Nat, m \in S PROVE m + 1 \in S
    <2>1. PICK f : IsMallocs(f, m, h, sizes)
      BY <1>2
    <2>2. f = [k \in 0 .. m |-> IF k = 0 THEN {[ptrs |-> << >>, heap |-> h]}
                                         ELSE OneMore(f[k - 1], sizes[k])]
      BY <2>1 DEF IsMallocs
    <2> DEFINE Value(k, outcomes) == IF k = 0 THEN {[ptrs |-> << >>, heap |-> h]}
                                              ELSE OneMore(outcomes, sizes[k])
               g == [k \in 0 .. (m + 1) |-> IF k = m + 1 THEN Value(k, f[m]) ELSE f[k]]
    <2>3. \A k \in 0 .. m : f[k] = Value(k, f[k - 1])
      BY <2>2
    <2> HIDE DEF Value
    <2>4. \A k \in 0 .. (m + 1) : g[k] = Value(k, g[k - 1])
      <3> SUFFICES ASSUME NEW k \in 0 .. (m + 1) PROVE g[k] = Value(k, g[k - 1])
        OBVIOUS
      <3>1. CASE k = m + 1
        <4>1. g[k - 1] = f[m]
          BY <3>1
        <4> QED
          BY <3>1, <4>1
      <3>2. CASE k \in 1 .. m
        <4>1. g[k - 1] = f[k - 1] /\ g[k] = f[k]
          BY <3>2
        <4> QED
          BY <3>2, <4>1, <2>3
      <3>3. CASE k = 0
        <4>1. g[k] = f[k] /\ f[k] = Value(k, f[k - 1])
          BY <3>3, <2>3
        <4> QED
          BY <3>3, <4>1 DEF Value
      <3> QED
        BY <3>1, <3>2, <3>3
    <2>5. g = [k \in 0 .. (m + 1) |-> Value(k, g[k - 1])]
      BY <2>4
    <2>6. IsMallocs(g, m + 1, h, sizes)
      BY <2>5 DEF IsMallocs, Value
    <2> QED
      BY <2>6
  <1> HIDE DEF S
  <1>3. n \in S
    BY <1>1, <1>2, Induction
  <1> QED
    BY <1>3 DEF S

\* What k calls of malloc come to.
After(k, h, sizes) == (CHOOSE f : IsMallocs(f, Len(sizes), h, sizes))[k]

LEMMA AfterFacts ==
  ASSUME NEW h, NEW sizes \in Seq(Nat)
  PROVE  /\ Mallocs(h, sizes) = After(Len(sizes), h, sizes)
         /\ After(0, h, sizes) = {[ptrs |-> << >>, heap |-> h]}
         /\ \A k \in 1 .. Len(sizes) :
              After(k, h, sizes) = OneMore(After(k - 1, h, sizes), sizes[k])
  <1> DEFINE n == Len(sizes)
             f == CHOOSE f : IsMallocs(f, n, h, sizes)
  <1>1. n \in Nat
    OBVIOUS
  <1>2. IsMallocs(f, n, h, sizes)
    BY <1>1, MallocsExists
  <1>3. Mallocs(h, sizes) = f[n]
    BY DEF Mallocs, IsMallocs, OneMore
  <1> HIDE DEF f, n
  <1>4. f = [k \in 0 .. n |-> IF k = 0 THEN {[ptrs |-> << >>, heap |-> h]}
                                       ELSE OneMore(f[k - 1], sizes[k])]
    BY <1>2 DEF IsMallocs
  <1>5. f[0] = {[ptrs |-> << >>, heap |-> h]}
    BY <1>1, <1>4
  <1>6. \A k \in 1 .. n : f[k] = OneMore(f[k - 1], sizes[k])
    <2>1. \A k \in 0 .. n : f[k] = IF k = 0 THEN {[ptrs |-> << >>, heap |-> h]}
                                            ELSE OneMore(f[k - 1], sizes[k])
      BY <1>4, Zenon
    <2>2. \A k \in 1 .. n : k \in 0 .. n /\ k # 0
      BY <1>1
    <2> QED
      BY <2>1, <2>2, Zenon
  <1>7. \A k : After(k, h, sizes) = f[k]
    BY DEF After, f, n
  <1> QED
    BY <1>3, <1>5, <1>6, <1>7 DEF n

\* A pointer for every size, all of them new, on top of what was held.
Allocation(h, P, sizes, k, r) ==
  /\ r.ptrs \in Seq(Nat) /\ Len(r.ptrs) = k
  /\ \A i \in 1 .. k : r.ptrs[i] \notin P
  /\ \A i, j \in 1 .. k : r.ptrs[i] = r.ptrs[j] => i = j
  /\ Holding(r.heap, MemInit, P \cup {r.ptrs[i] : i \in 1 .. k})
  /\ \A i \in 1 .. k : SizeAt(r.heap, r.ptrs[i]) >= Align16(sizes[i])
  /\ \A p \in P : SizeAt(r.heap, p) = SizeAt(h, p)

\* The heap at the start holds nothing.
LEMMA InitHeapFacts ==
  SoundHeap(MemInit) /\ Pointers(MemInit) = {}
  <1>1. Taken(MemInit.blocks) = {}
    BY DEF Taken, MemInit, Header
  <1> QED
    BY <1>1, MemInitLemma DEF Pointers

\* What malloc of n bytes returns when the pointers Q are allocated.
Fresh(h, Q, n, m) ==
  /\ m.ptr \in Nat /\ m.ptr \notin Q
  /\ Holding(m.heap, MemInit, Q \cup {m.ptr})
  /\ SizeAt(m.heap, m.ptr) >= Align16(n)
  /\ \A p \in Q : SizeAt(m.heap, p) = SizeAt(h, p)

LEMMA FreshPointer ==
  ASSUME NEW h, NEW Q, Holding(h, MemInit, Q), NEW n \in Nat,
         NEW m, m = Malloc(h, n), m.ptr # NULL
  PROVE  Fresh(h, Q, n, m)
  <1>1. SoundHeap(MemInit)
    BY InitHeapFacts
  <1>2. Q = Pointers(h)
    BY InitHeapFacts DEF Holding
  <1>3. \/ m.ptr = NULL /\ m.heap = h
        \/ /\ m.ptr \in Nat /\ m.ptr # NULL /\ m.ptr \notin Pointers(h)
           /\ Holding(m.heap, MemInit, Q \cup {m.ptr})
           /\ SizeAt(m.heap, m.ptr) >= Align16(n)
           /\ \A p \in Q : SizeAt(m.heap, p) = SizeAt(h, p)
    BY <1>1, HoldingMalloc
  <1> QED
    BY <1>2, <1>3 DEF Fresh

LEMMA OneMoreAllocation ==
  ASSUME NEW h, NEW P, NEW sizes \in Seq(Nat), NEW k \in Nat, k < Len(sizes),
         NEW r, Allocation(h, P, sizes, k, r),
         NEW m, Fresh(r.heap, P \cup {r.ptrs[i] : i \in 1 .. k}, sizes[k + 1], m),
         NEW s, s = [ptrs |-> Append(r.ptrs, m.ptr), heap |-> m.heap]
  PROVE  Allocation(h, P, sizes, k + 1, s)
  <1> DEFINE Q == P \cup {r.ptrs[i] : i \in 1 .. k}
  <1>1. /\ m.ptr \in Nat /\ m.ptr \notin Q
        /\ Holding(m.heap, MemInit, Q \cup {m.ptr})
        /\ SizeAt(m.heap, m.ptr) >= Align16(sizes[k + 1])
        /\ \A p \in Q : SizeAt(m.heap, p) = SizeAt(r.heap, p)
    BY DEF Fresh
  <1>2. /\ r.ptrs \in Seq(Nat) /\ Len(r.ptrs) = k
        /\ \A i \in 1 .. k : r.ptrs[i] \notin P
        /\ \A i, j \in 1 .. k : r.ptrs[i] = r.ptrs[j] => i = j
        /\ \A i \in 1 .. k : SizeAt(r.heap, r.ptrs[i]) >= Align16(sizes[i])
        /\ \A p \in P : SizeAt(r.heap, p) = SizeAt(h, p)
    BY DEF Allocation
  <1> DEFINE ptrs == s.ptrs
  <1>3. /\ ptrs \in Seq(Nat) /\ Len(ptrs) = k + 1 /\ ptrs[k + 1] = m.ptr
        /\ \A i \in 1 .. k : ptrs[i] = r.ptrs[i]
    BY <1>1, <1>2
  <1>4. s.heap = m.heap
    OBVIOUS
  <1>5. \A i \in 1 .. (k + 1) : i = k + 1 \/ i \in 1 .. k
    OBVIOUS
  <1> HIDE DEF ptrs
  <1>6. {ptrs[i] : i \in 1 .. (k + 1)} = {r.ptrs[i] : i \in 1 .. k} \cup {m.ptr}
    <2>1. ASSUME NEW i \in 1 .. (k + 1) PROVE ptrs[i] \in {r.ptrs[j] : j \in 1 .. k} \cup {m.ptr}
      BY <1>3, <1>5
    <2>2. ASSUME NEW i \in 1 .. k PROVE r.ptrs[i] \in {ptrs[j] : j \in 1 .. (k + 1)}
      <3>1. i \in 1 .. (k + 1)
        OBVIOUS
      <3> QED
        BY <1>3, <3>1
    <2>3. m.ptr \in {ptrs[j] : j \in 1 .. (k + 1)}
      <3>1. k + 1 \in 1 .. (k + 1)
        OBVIOUS
      <3> QED
        BY <1>3, <3>1
    <2> QED
      BY <2>1, <2>2, <2>3
  <1>7. Holding(s.heap, MemInit, P \cup {ptrs[i] : i \in 1 .. (k + 1)})
    <2>1. P \cup {ptrs[i] : i \in 1 .. (k + 1)} = Q \cup {m.ptr}
      BY <1>6
    <2> QED
      BY <2>1, <1>1, <1>4
  <1>8. \A i \in 1 .. (k + 1) : ptrs[i] \notin P
    BY <1>1, <1>2, <1>3, <1>5
  <1>9. ASSUME NEW i \in 1 .. (k + 1), NEW j \in 1 .. (k + 1), ptrs[i] = ptrs[j] PROVE i = j
    <2>1. \A l \in 1 .. k : ptrs[l] # ptrs[k + 1]
      BY <1>1, <1>3
    <2> QED
      BY <2>1, <1>2, <1>3, <1>5, <1>9
  <1>10. \A i \in 1 .. (k + 1) : SizeAt(s.heap, ptrs[i]) >= Align16(sizes[i])
    <2>1. ASSUME NEW i \in 1 .. k PROVE SizeAt(s.heap, ptrs[i]) >= Align16(sizes[i])
      <3>1. r.ptrs[i] \in Q
        OBVIOUS
      <3>2. SizeAt(s.heap, ptrs[i]) = SizeAt(r.heap, r.ptrs[i])
        BY <3>1, <1>1, <1>3, <1>4
      <3> QED
        BY <3>2, <1>2
    <2> QED
      BY <2>1, <1>1, <1>3, <1>4, <1>5
  <1>11. \A p \in P : SizeAt(s.heap, p) = SizeAt(h, p)
    BY <1>1, <1>2, <1>4
  <1> QED
    BY <1>3, <1>7, <1>8, <1>9, <1>10, <1>11 DEF Allocation, ptrs

LEMMA MallocsFacts ==
  ASSUME NEW h, NEW P, Holding(h, MemInit, P), NEW sizes \in Seq(Nat),
         NEW r \in Mallocs(h, sizes)
  PROVE  Allocation(h, P, sizes, Len(sizes), r)
  <1> DEFINE S == {k \in Nat : k <= Len(sizes) =>
                     \A s \in After(k, h, sizes) : Allocation(h, P, sizes, k, s)}
  <1>1. 0 \in S
    <2> SUFFICES ASSUME NEW s, s = [ptrs |-> << >>, heap |-> h]
                 PROVE  Allocation(h, P, sizes, 0, s)
      BY AfterFacts
    <2>1. s.ptrs = << >> /\ s.heap = h /\ Len(s.ptrs) = 0 /\ s.ptrs \in Seq(Nat)
      OBVIOUS
    <2>2. 1 .. 0 = {} /\ P \cup {s.ptrs[i] : i \in 1 .. 0} = P
      OBVIOUS
    <2> QED
      BY <2>1, <2>2 DEF Allocation
  <1>2. ASSUME NEW k \in Nat, k \in S PROVE k + 1 \in S
    <2> SUFFICES ASSUME k + 1 <= Len(sizes), NEW s \in After(k + 1, h, sizes)
                 PROVE  Allocation(h, P, sizes, k + 1, s)
      OBVIOUS
    <2>1. k + 1 \in 1 .. Len(sizes) /\ k < Len(sizes) /\ k <= Len(sizes) /\ (k + 1) - 1 = k
      OBVIOUS
    <2>2. s \in OneMore(After(k, h, sizes), sizes[k + 1])
      BY <2>1, AfterFacts
    <2>3. PICK t \in After(k, h, sizes) :
            \E m : /\ m = Malloc(t.heap, sizes[k + 1]) /\ m.ptr # NULL
                  /\ s = [ptrs |-> Append(t.ptrs, m.ptr), heap |-> m.heap]
      BY <2>2 DEF OneMore
    <2>4. Allocation(h, P, sizes, k, t)
      BY <2>1, <2>3, <1>2
    <2>5. PICK m : /\ m = Malloc(t.heap, sizes[k + 1]) /\ m.ptr # NULL
                   /\ s = [ptrs |-> Append(t.ptrs, m.ptr), heap |-> m.heap]
      BY <2>3
    <2>6. Fresh(t.heap, P \cup {t.ptrs[i] : i \in 1 .. k}, sizes[k + 1], m)
      <3>1. Holding(t.heap, MemInit, P \cup {t.ptrs[i] : i \in 1 .. k})
        BY <2>4 DEF Allocation
      <3>2. sizes[k + 1] \in Nat
        BY <2>1
      <3>3. PICK g, n, Q : /\ g = t.heap /\ n = sizes[k + 1]
                           /\ Q = P \cup {t.ptrs[i] : i \in 1 .. k}
        OBVIOUS
      <3>4. Fresh(g, Q, n, m)
        BY <2>5, <3>1, <3>2, <3>3, FreshPointer
      <3> QED
        BY <3>3, <3>4
    <2> QED
      BY <2>1, <2>4, <2>5, <2>6, OneMoreAllocation
  <1> HIDE DEF S
  <1>3. Len(sizes) \in S
    BY <1>1, <1>2, Induction
  <1> QED
    BY <1>3, AfterFacts DEF S

\* One call.
LEMMA OneMalloc ==
  ASSUME NEW h, NEW size \in Nat, NEW r \in Mallocs(h, <<size>>)
  PROVE  r.ptrs = <<Malloc(h, size).ptr>> /\ r.heap = Malloc(h, size).heap
  <1> DEFINE sizes == <<size>>
  <1>1. sizes \in Seq(Nat) /\ Len(sizes) = 1 /\ sizes[1] = size /\ 1 \in 1 .. 1 /\ 1 - 1 = 0
    OBVIOUS
  <1> HIDE DEF sizes
  <1>2. r \in OneMore({[ptrs |-> << >>, heap |-> h]}, size)
    <2>1. r \in Mallocs(h, sizes)
      BY DEF sizes
    <2>2. Mallocs(h, sizes) = OneMore(After(0, h, sizes), size)
      BY <1>1, AfterFacts
    <2> QED
      BY <1>1, <2>1, <2>2, AfterFacts
  <1>3. r = [ptrs |-> Append(<< >>, Malloc(h, size).ptr), heap |-> Malloc(h, size).heap]
    BY <1>2 DEF OneMore
  <1> QED
    BY <1>3

-----------------------------------------------------------------------------
(***************************************************************************)
(* What the loader holds on the heap.                                      *)
(***************************************************************************)
Structs == DOMAIN Sizeof \cup {"entries", "map array", "buffer"}

\* The bytes of a block of the struct that the loader may use.
UsedOf(struct) ==
  CASE struct = "entries"   -> machine.used * Sizeof.GPT_partition_entry
    [] struct = "map array" -> machine.told * Sizeof.memory_map_entry
    [] struct = "buffer"    -> SECTOR
    [] OTHER                -> Sizeof[struct]

Of(struct) == {p \in DOMAIN live : live[p].struct = struct}

\* The memory map at p lists a node for every entry.
ListsNodes(p) ==
  /\ DOMAIN live[p].items = 1 .. machine.told
  /\ \A k \in 1 .. machine.told :
       /\ live[p].items[k] \in Of("memory_map_node")
       /\ live[live[p].items[k]].items[1] = k

\* What is allocated is what is in use, in blocks large enough.
Core ==
  /\ Holding(heap, MemInit, DOMAIN live)
  /\ \A p \in DOMAIN live : /\ live[p].struct \in Structs
                            /\ UsedOf(live[p].struct) <= SizeAt(heap, p)
  /\ \A p \in Of("memory_map") : ListsNodes(p)

\* Steps before there is a header; with a memory map; with a boot_info; with
\* the map's array; with the video mode.
NoHeader == {"cpuid", "compat", "a20", "gdt", "unreal", "map", "drive", "header"}
VideoIn  == {"finish", "protect", "stub", "tsl"}
ArrayIn  == {"video"} \cup VideoIn
InfoIn   == {"array"} \cup ArrayIn
MapIn    == {"drive", "header", "read", "check", "table", "find", "load", "buffer", "kernel",
             "info"} \cup InfoIn

ArrayTold ==
  LET map == boot_info.memory_map.address - SSL
  IN  /\ map \in Of("map array")
      /\ live[map].items = [k \in 1 .. machine.told |-> k]
      /\ boot_info.memory_map.count = machine.told

VideoTold ==
  boot_info.video_info.type = "LINTEXT" =>
    boot_info.video_info.address - SSL \in Of("video_lintext")

Progress ==
  /\ pc \in NoHeader => Of("GPT_header") = {}
  /\ pc = "read" => /\ Of("GPT_header") # {}
                    /\ \A p \in Of("GPT_header") : SizeAt(heap, p) >= Align16(SECTOR)
  /\ pc = "kernel" => Of("buffer") # {}
  /\ pc \in MapIn => Of("memory_map") # {}
  /\ pc \in InfoIn => Of("boot_info_t") # {}
  /\ pc \in ArrayIn => ArrayTold
  /\ pc \in VideoIn => VideoTold

Data == Core /\ Progress

\* The fields of boot_info that are not about the heap.
Fields ==
  /\ pc \in InfoIn  => boot_info.boot_drive = [GUID |-> machine.guid]
  /\ pc \in ArrayIn => boot_info.memory_map.entry_size = Sizeof.memory_map_entry
  /\ pc \in VideoIn => boot_info.RAMFS = [address |-> RAMFS]

IInv == A20Inv /\ Control /\ Data /\ Fields

\* The sizes of the structs.
LEMMA SizeFacts ==
  ASSUME Control
  PROVE  /\ \A s \in DOMAIN Sizeof : Sizeof[s] \in Nat
         /\ DOMAIN Sizeof = {"memory_map", "memory_map_node", "memory_map_entry", "GPT_header",
                             "GPT_partition_array", "GPT_partition_entry", "boot_info_t",
                             "video_lintext"}
         /\ SECTOR \in Nat
         /\ machine.told \in Nat /\ machine.entries \in Nat /\ machine.used \in Nat
         /\ machine.used <= machine.entries
         /\ machine.used * Sizeof.GPT_partition_entry \in Nat
         /\ machine.told * Sizeof.memory_map_entry \in Nat
         /\ \A s \in Structs : UsedOf(s) \in Nat
  <1>1. /\ machine \in Machines /\ machine.told \in Nat /\ machine.entries \in Nat
        /\ machine.used \in Nat /\ machine.used <= machine.entries /\ SECTOR \in Nat
    BY BootAssumption DEF Control
  <1>2. /\ \A s \in DOMAIN Sizeof : Sizeof[s] \in Nat
        /\ DOMAIN Sizeof = {"memory_map", "memory_map_node", "memory_map_entry", "GPT_header",
                            "GPT_partition_array", "GPT_partition_entry", "boot_info_t",
                            "video_lintext"}
    BY BootAssumption
  <1>3. Sizeof.GPT_partition_entry \in Nat /\ Sizeof.memory_map_entry \in Nat
    BY <1>2
  <1>4. /\ machine.used * Sizeof.GPT_partition_entry \in Nat
        /\ machine.told * Sizeof.memory_map_entry \in Nat
    BY <1>1, <1>3
  <1>5. ASSUME NEW s \in Structs PROVE UsedOf(s) \in Nat
    BY <1>1, <1>2, <1>4 DEF Structs, UsedOf
  <1> QED
    BY <1>1, <1>2, <1>4, <1>5

LEMMA InitData ==
  ASSUME Init
  PROVE  Data
  <1>1. heap = MemInit /\ DOMAIN live = {} /\ pc = "cpuid"
    BY DEF Init
  <1>2. Holding(heap, MemInit, DOMAIN live)
    BY <1>1, InitHeapFacts, HoldingNothing
  <1> QED
    BY <1>1, <1>2
    DEF Data, Core, Progress, Of, NoHeader, VideoIn, ArrayIn, InfoIn, MapIn

\* Moves that leave the heap alone.
Quiet ==
  {<<"cpuid", "compat">>, <<"compat", "a20">>, <<"a20", "a20">>, <<"a20", "gdt">>,
   <<"gdt", "unreal">>, <<"unreal", "map">>, <<"drive", "header">>, <<"check", "table">>,
   <<"find", "load">>, <<"load", "buffer">>, <<"kernel", "kernel">>, <<"kernel", "fault">>,
   <<"finish", "protect">>, <<"protect", "stub">>, <<"stub", "tsl">>,
   <<"tsl", "tsl">>, <<"halt", "halt">>, <<"fault", "fault">>}

LEMMA QuietData ==
  ASSUME Data, UNCHANGED <<machine, heap, live, boot_info>>,
         pc' = "halt" \/ <<pc, pc'>> \in Quiet
  PROVE  Data'
  <1>1. /\ \A s : Of(s)' = Of(s) /\ UsedOf(s)' = UsedOf(s)
        /\ \A p : ListsNodes(p)' <=> ListsNodes(p)
    BY DEF Of, UsedOf, ListsNodes
  <1>2. (ArrayTold' <=> ArrayTold) /\ (VideoTold' <=> VideoTold)
    BY DEF ArrayTold, VideoTold, Of
  <1>3. Core'
    BY <1>1 DEF Data, Core
  <1>4. /\ pc' \in NoHeader => pc \in NoHeader
        /\ pc' # "read"
        /\ pc' = "kernel" => pc = "kernel"
        /\ pc' \in MapIn => pc \in MapIn
        /\ pc' \in InfoIn => pc \in InfoIn
        /\ pc' \in ArrayIn => pc \in ArrayIn
        /\ pc' \in VideoIn => pc \in VideoIn
    BY DEF Quiet, NoHeader, VideoIn, ArrayIn, InfoIn, MapIn
  <1> QED
    BY <1>1, <1>2, <1>3, <1>4 DEF Data, Progress

-----------------------------------------------------------------------------
\* The blocks are in use, too, from now on.
Added(ptrs, blocks, n) ==
  /\ DOMAIN live' = DOMAIN live \cup {ptrs[i] : i \in 1 .. n}
  /\ \A p \in DOMAIN live : live'[p] = live[p]
  /\ \A i \in 1 .. n : ptrs[i] \notin DOMAIN live /\ live'[ptrs[i]] = blocks[i]

LEMMA WithAdded ==
  ASSUME NEW ptrs \in Seq(Nat), NEW n \in Nat, Len(ptrs) = n, NEW blocks,
         \A i \in 1 .. n : ptrs[i] \notin DOMAIN live,
         \A i, j \in 1 .. n : ptrs[i] = ptrs[j] => i = j,
         live' = With(ptrs, blocks)
  PROVE  Added(ptrs, blocks, n)
  <1>1. DOMAIN ptrs = 1 .. n
    OBVIOUS
  <1>2. live' = [p \in DOMAIN live \cup {ptrs[k] : k \in 1 .. n} |->
                   IF \E k \in 1 .. n : ptrs[k] = p
                   THEN blocks[CHOOSE k \in 1 .. n : ptrs[k] = p]
                   ELSE live[p]]
    BY <1>1 DEF With
  <1>3. DOMAIN live' = DOMAIN live \cup {ptrs[i] : i \in 1 .. n}
    BY <1>2
  <1>4. ASSUME NEW p \in DOMAIN live PROVE live'[p] = live[p]
    <2>1. ~\E k \in 1 .. n : ptrs[k] = p
      OBVIOUS
    <2> QED
      BY <1>2, <2>1
  <1>5. ASSUME NEW i \in 1 .. n PROVE live'[ptrs[i]] = blocks[i]
    <2>1. (CHOOSE k \in 1 .. n : ptrs[k] = ptrs[i]) = i
      OBVIOUS
    <2> QED
      BY <1>2, <2>1
  <1> QED
    BY <1>3, <1>4, <1>5 DEF Added

LEMMA AddedCore ==
  ASSUME Core, machine' = machine, NEW ptrs, NEW blocks, NEW n \in Nat, Added(ptrs, blocks, n),
         Holding(heap', MemInit, DOMAIN live'),
         \A p \in DOMAIN live : SizeAt(heap', p) = SizeAt(heap, p),
         \A i \in 1 .. n : /\ blocks[i].struct \in Structs
                          /\ UsedOf(blocks[i].struct) <= SizeAt(heap', ptrs[i]),
         \A i \in 1 .. n : blocks[i].struct = "memory_map" => ListsNodes(ptrs[i])'
  PROVE  Core'
  <1>1. \A s : UsedOf(s)' = UsedOf(s)
    BY DEF UsedOf
  <1>2. \A p \in DOMAIN live' : p \in DOMAIN live \/ \E i \in 1 .. n : p = ptrs[i]
    BY DEF Added
  <1>3. \A p \in DOMAIN live' : /\ live'[p].struct \in Structs
                               /\ UsedOf(live'[p].struct) <= SizeAt(heap', p)
    BY <1>2 DEF Core, Added
  <1>4. ASSUME NEW p \in Of("memory_map")' PROVE ListsNodes(p)'
    <2>1. p \in DOMAIN live' /\ live'[p].struct = "memory_map"
      BY <1>4 DEF Of
    <2>2. CASE p \in DOMAIN live
      <3>1. p \in Of("memory_map") /\ live'[p] = live[p] /\ ListsNodes(p)
        BY <2>1, <2>2 DEF Core, Added, Of
      <3>2. \A q \in Of("memory_map_node") : q \in Of("memory_map_node")' /\ live'[q] = live[q]
        BY DEF Of, Added
      <3> QED
        BY <3>1, <3>2 DEF ListsNodes
    <2>3. CASE p \notin DOMAIN live
      BY <1>2, <2>1, <2>3 DEF Added
    <2> QED
      BY <2>2, <2>3
  <1>5. Core'
    <2>1. Holding(heap, MemInit, DOMAIN live)'
      BY DEF MemInit, HeapStart
    <2> QED
      BY <1>1, <1>3, <1>4, <2>1 DEF Core
  <1> QED
    BY <1>5

\* malloc of a block of one struct.
LEMMA AllocateData ==
  ASSUME Core, Control, UNCHANGED machine, NEW size \in Nat, NEW block, Allocate(size, block),
         block.struct \in Structs \ {"memory_map"}, UsedOf(block.struct) <= size,
         NEW p, p = Malloc(heap, size).ptr
  PROVE  /\ Core'
         /\ p \in Nat /\ p \notin DOMAIN live /\ DOMAIN live' = DOMAIN live \cup {p}
         /\ live'[p] = block /\ \A q \in DOMAIN live : live'[q] = live[q]
         /\ SizeAt(heap', p) >= Align16(size)
  <1>1. PICK r \in Mallocs(heap, <<size>>) : heap' = r.heap /\ live' = With(r.ptrs, <<block>>)
    BY DEF Allocate
  <1> DEFINE sizes == <<size>>
             blocks == <<block>>
  <1>2. sizes \in Seq(Nat) /\ Len(sizes) = 1 /\ sizes[1] = size /\ blocks[1] = block
    OBVIOUS
  <1>3. Allocation(heap, DOMAIN live, sizes, 1, r)
    BY <1>1, <1>2, MallocsFacts DEF Core
  <1>4. r.ptrs[1] = p
    BY <1>1, OneMalloc
  <1>5. \A i \in 1 .. 1 : i = 1
    OBVIOUS
  <1>6. {r.ptrs[i] : i \in 1 .. 1} = {p}
    <2>1. 1 \in 1 .. 1
      OBVIOUS
    <2> QED
      BY <1>4, <1>5, <2>1
  <1> HIDE DEF sizes, blocks
  <1>7. /\ r.ptrs \in Seq(Nat) /\ Len(r.ptrs) = 1 /\ p \in Nat /\ p \notin DOMAIN live
        /\ Holding(heap', MemInit, DOMAIN live \cup {p})
        /\ SizeAt(heap', p) >= Align16(size)
        /\ \A q \in DOMAIN live : SizeAt(heap', q) = SizeAt(heap, q)
    <2>1. /\ r.ptrs \in Seq(Nat) /\ Len(r.ptrs) = 1 /\ r.ptrs[1] \notin DOMAIN live
          /\ Holding(heap', MemInit, DOMAIN live \cup {r.ptrs[i] : i \in 1 .. 1})
          /\ SizeAt(heap', r.ptrs[1]) >= Align16(sizes[1])
          /\ \A q \in DOMAIN live : SizeAt(heap', q) = SizeAt(heap, q)
      <3>1. 1 \in 1 .. 1
        OBVIOUS
      <3> QED
        BY <1>1, <1>3, <3>1 DEF Allocation
    <2>2. r.ptrs[1] \in Nat
      BY <2>1
    <2> QED
      BY <2>1, <2>2, <1>2, <1>4, <1>6
  <1>8. Added(r.ptrs, blocks, 1)
    <2>1. live' = With(r.ptrs, blocks)
      BY <1>1 DEF blocks
    <2> QED
      BY <2>1, <1>4, <1>5, <1>7, WithAdded
  <1>9. /\ DOMAIN live' = DOMAIN live \cup {p} /\ live'[p] = block
        /\ \A q \in DOMAIN live : live'[q] = live[q]
    BY <1>2, <1>4, <1>6, <1>8 DEF Added
  <1>10. UsedOf(block.struct) <= SizeAt(heap', p)
    <2>1. UsedOf(block.struct) \in Nat /\ Align16(size) \in Nat /\ size <= Align16(size)
      BY SizeFacts, AlignFacts
    <2>2. SizeAt(heap', p) \in Nat
      <3>1. SoundHeap(heap') /\ p \in Pointers(heap')
        BY <1>7 DEF Holding
      <3> QED
        BY <3>1, PointerFacts
    <2> QED
      BY <1>7, <2>1, <2>2
  <1>11. Core'
    <2>1. \A i \in 1 .. 1 : /\ blocks[i].struct \in Structs /\ blocks[i].struct # "memory_map"
                            /\ UsedOf(blocks[i].struct) <= SizeAt(heap', r.ptrs[i])
      BY <1>2, <1>4, <1>5, <1>10
    <2>2. \A i \in 1 .. 1 : blocks[i].struct = "memory_map" => ListsNodes(r.ptrs[i])'
      BY <2>1
    <2>3. Holding(heap', MemInit, DOMAIN live')
      BY <1>7, <1>9
    <2>4. \A q \in DOMAIN live : SizeAt(heap', q) = SizeAt(heap, q)
      BY <1>7
    <2>5. 1 \in Nat
      OBVIOUS
    <2> QED
      BY <2>1, <2>2, <2>3, <2>4, <2>5, <1>8, AddedCore
  <1> QED
    BY <1>7, <1>9, <1>11

-----------------------------------------------------------------------------
\* free of a block that is in use.
LEMMA FreedData ==
  ASSUME Core, UNCHANGED machine, NEW p \in DOMAIN live, live[p].struct # "memory_map_node",
         heap' = Free(heap, p), live' = Without(p)
  PROVE  /\ Core'
         /\ DOMAIN live' = DOMAIN live \ {p}
         /\ \A q \in DOMAIN live' : live'[q] = live[q]
  <1>1. /\ DOMAIN live' = DOMAIN live \ {p}
        /\ \A q \in DOMAIN live' : live'[q] = live[q]
    BY DEF Without
  <1>2. /\ Holding(heap', MemInit, DOMAIN live \ {p})
        /\ \A q \in DOMAIN live \ {p} : SizeAt(heap', q) = SizeAt(heap, q)
    BY InitHeapFacts, HoldingFree DEF Core
  <1>3. Holding(heap, MemInit, DOMAIN live)'
    BY <1>1, <1>2 DEF MemInit, HeapStart
  <1>4. \A s : UsedOf(s)' = UsedOf(s)
    BY DEF UsedOf
  <1>5. \A q \in DOMAIN live' : /\ live'[q].struct \in Structs
                               /\ UsedOf(live'[q].struct) <= SizeAt(heap', q)
    BY <1>1, <1>2 DEF Core
  <1>6. ASSUME NEW q \in Of("memory_map")' PROVE ListsNodes(q)'
    <2>1. q \in Of("memory_map") /\ live'[q] = live[q] /\ ListsNodes(q)
      BY <1>1, <1>6 DEF Of, Core
    <2>2. \A t \in Of("memory_map_node") : t \in Of("memory_map_node")' /\ live'[t] = live[t]
      BY <1>1 DEF Of
    <2> QED
      BY <2>1, <2>2 DEF ListsNodes
  <1> QED
    BY <1>1, <1>3, <1>4, <1>5, <1>6 DEF Core

\* The block of a struct is one of those in use.
LEMMA TheFacts ==
  ASSUME NEW s, Of(s) # {}
  PROVE  The(s) \in Of(s) /\ The(s) \in DOMAIN live /\ live[The(s)].struct = s
  BY DEF The, Of

LEMMA BlockFields ==
  \A struct, items : Block(struct, items).struct = struct /\ Block(struct, items).items = items
  BY DEF Block

\* malloc of one block of a struct: there is one more of that struct.
LEMMA AllocateOf ==
  ASSUME Core, Control, UNCHANGED machine, NEW struct \in Structs \ {"memory_map"}, NEW items,
         NEW size \in Nat, UsedOf(struct) <= size, Allocate(size, Block(struct, items)),
         NEW p, p = Malloc(heap, size).ptr
  PROVE  /\ Core' /\ p \in Nat
         /\ p \in Of(struct)' /\ Of(struct)' = Of(struct) \cup {p}
         /\ live'[p].items = items
         /\ SizeAt(heap', p) >= Align16(size)
         /\ \A s : s # struct => Of(s)' = Of(s)
         /\ \A q \in DOMAIN live : q \in DOMAIN live' /\ live'[q] = live[q]
  <1>1. PICK block : block = Block(struct, items)
    OBVIOUS
  <1>2. block.struct = struct /\ block.items = items
    BY <1>1, BlockFields
  <1>3. Allocate(size, block)
    BY <1>1
  <1>4. /\ Core'
        /\ p \in Nat /\ p \notin DOMAIN live /\ DOMAIN live' = DOMAIN live \cup {p}
        /\ live'[p] = block /\ \A q \in DOMAIN live : live'[q] = live[q]
        /\ SizeAt(heap', p) >= Align16(size)
    <2>1. block.struct \in Structs \ {"memory_map"} /\ UsedOf(block.struct) <= size
      BY <1>2
    <2> QED
      BY <1>3, <2>1, AllocateData
  <1>5. Of(struct)' = Of(struct) \cup {p}
    BY <1>2, <1>4 DEF Of
  <1>6. \A s : s # struct => Of(s)' = Of(s)
    BY <1>2, <1>4 DEF Of
  <1> QED
    BY <1>2, <1>4, <1>5, <1>6

\* The sizes and the blocks of a map of told entries.
MapSizes(sizes, told) ==
  /\ sizes \in Seq(Nat) /\ Len(sizes) = told + 1 /\ sizes[1] = Sizeof.memory_map
  /\ \A k \in 1 .. told : sizes[k + 1] = Sizeof.memory_map_node

MapBlocks(blocks, ptrs, told) ==
  /\ blocks[1].struct = "memory_map" /\ blocks[1].items = Tail(ptrs)
  /\ \A k \in 1 .. told : /\ blocks[k + 1].struct = "memory_map_node"
                          /\ blocks[k + 1].items = <<k>>

LEMMA MapSequences ==
  ASSUME NEW told \in Nat, NEW ptrs,
         NEW a \in Nat, a = Sizeof.memory_map, NEW b \in Nat, b = Sizeof.memory_map_node,
         NEW nodes, nodes = [k \in 1 .. told |-> Block("memory_map_node", <<k>>)],
         NEW sizes, sizes = <<a>> \o [k \in DOMAIN nodes |-> b],
         NEW blocks, blocks = <<Block("memory_map", Tail(ptrs))>> \o nodes
  PROVE  MapSizes(sizes, told) /\ MapBlocks(blocks, ptrs, told)
  <1>1. PICK ones : ones = [k \in DOMAIN nodes |-> b]
    OBVIOUS
  <1>2. /\ ones \in Seq(Nat) /\ Len(ones) = told
        /\ \A k \in 1 .. told : ones[k] = b
    BY <1>1
  <1>3. sizes \in Seq(Nat) /\ Len(sizes) = told + 1 /\ sizes[1] = a
        /\ \A k \in 1 .. told : sizes[k + 1] = ones[k]
    BY <1>1, <1>2
  <1>4. PICK first : first = Block("memory_map", Tail(ptrs))
    OBVIOUS
  <1>5. /\ Len(nodes) = told /\ DOMAIN nodes = 1 .. told
        /\ \A k \in 1 .. told : nodes[k] = Block("memory_map_node", <<k>>)
    OBVIOUS
  <1>6. blocks[1] = first /\ \A k \in 1 .. told : blocks[k + 1] = nodes[k]
    <2>1. blocks = <<first>> \o nodes
      BY <1>4
    <2> QED
      BY <2>1, <1>5
  <1>7. MapSizes(sizes, told)
    BY <1>2, <1>3 DEF MapSizes
  <1>8. MapBlocks(blocks, ptrs, told)
    <2>1. blocks[1].struct = "memory_map" /\ blocks[1].items = Tail(ptrs)
      BY <1>4, <1>6 DEF Block
    <2>2. ASSUME NEW k \in 1 .. told
          PROVE  blocks[k + 1].struct = "memory_map_node" /\ blocks[k + 1].items = <<k>>
      <3>1. PICK items : items = <<k>>
        OBVIOUS
      <3>2. blocks[k + 1] = nodes[k] /\ nodes[k] = Block("memory_map_node", items)
        BY <1>5, <1>6, <3>1
      <3> QED
        BY <3>1, <3>2 DEF Block
    <2> QED
      BY <2>1, <2>2 DEF MapBlocks
  <1> QED
    BY <1>7, <1>8

\* A node for every entry, and the map that lists them.
LEMMA MapAllocated ==
  ASSUME Data, Control, UNCHANGED machine,
         NEW told, told = machine.told,
         NEW sizes, MapSizes(sizes, told),
         NEW r \in Mallocs(heap, sizes), NEW ptrs, ptrs = r.ptrs,
         NEW blocks, MapBlocks(blocks, ptrs, told),
         heap' = r.heap, live' = With(ptrs, blocks)
  PROVE  /\ Core' /\ Of("memory_map")' # {}
         /\ Of("GPT_header") = {} => Of("GPT_header")' = {}
  <1>1. PICK n : n = told + 1
    OBVIOUS
  <1>2. /\ told \in Nat /\ n \in Nat
        /\ Sizeof.memory_map \in Nat /\ Sizeof.memory_map_node \in Nat
        /\ "memory_map" \in Structs /\ "memory_map_node" \in Structs
    <2>1. machine.told \in Nat
      BY SizeFacts, Zenon
    <2>2. "memory_map" \in DOMAIN Sizeof /\ "memory_map_node" \in DOMAIN Sizeof
      <3>1. DOMAIN Sizeof = {"memory_map", "memory_map_node", "memory_map_entry", "GPT_header",
                             "GPT_partition_array", "GPT_partition_entry", "boot_info_t",
                             "video_lintext"}
        BY SizeFacts, Zenon
      <3> QED
        BY <3>1
    <2>3. Sizeof.memory_map \in Nat /\ Sizeof.memory_map_node \in Nat
      BY <2>2, SizeFacts, Zenon
    <2> QED
      BY <1>1, <2>1, <2>2, <2>3 DEF Structs
  <1>3. Allocation(heap, DOMAIN live, sizes, n, r)
    <2>1. sizes \in Seq(Nat) /\ Len(sizes) = n
      BY <1>1 DEF MapSizes
    <2> QED
      BY <2>1, MallocsFacts DEF Data, Core
  <1>4. /\ ptrs \in Seq(Nat) /\ Len(ptrs) = n
        /\ \A i \in 1 .. n : ptrs[i] \notin DOMAIN live
        /\ \A i, j \in 1 .. n : ptrs[i] = ptrs[j] => i = j
        /\ Holding(heap', MemInit, DOMAIN live \cup {ptrs[i] : i \in 1 .. n})
        /\ \A i \in 1 .. n : SizeAt(heap', ptrs[i]) >= Align16(sizes[i])
        /\ \A p \in DOMAIN live : SizeAt(heap', p) = SizeAt(heap, p)
    BY <1>3 DEF Allocation
  <1>5. Added(ptrs, blocks, n)
    BY <1>2, <1>4, WithAdded
  <1>6. \A i \in 1 .. n : i = 1 \/ \E k \in 1 .. told : i = k + 1
    <2> SUFFICES ASSUME NEW i \in 1 .. n, i # 1
                 PROVE  \E k \in 1 .. told : i = k + 1
      OBVIOUS
    <2>1. i - 1 \in 1 .. told /\ i = (i - 1) + 1
      BY <1>1, <1>2
    <2> QED
      BY <2>1
  <1>7. 1 \in 1 .. n /\ \A k \in 1 .. told : k + 1 \in 1 .. n
    BY <1>1, <1>2
  <1>8. Holding(heap', MemInit, DOMAIN live')
    BY <1>4, <1>5 DEF Added
  <1>9. /\ UsedOf("memory_map") = Sizeof.memory_map
        /\ UsedOf("memory_map_node") = Sizeof.memory_map_node
    BY DEF UsedOf
  <1>10. /\ blocks[1].struct = "memory_map" /\ blocks[1].items = Tail(ptrs)
         /\ \A k \in 1 .. told : /\ blocks[k + 1].struct = "memory_map_node"
                                /\ blocks[k + 1].items = <<k>>
    BY DEF MapBlocks
  <1>11. ASSUME NEW i \in 1 .. n
         PROVE  /\ blocks[i].struct \in Structs
                /\ blocks[i].struct \in {"memory_map", "memory_map_node"}
                /\ blocks[i].struct = "memory_map" => i = 1
                /\ UsedOf(blocks[i].struct) = sizes[i]
                /\ sizes[i] \in Nat
    <2>1. CASE i = 1
      BY <2>1, <1>2, <1>9, <1>10 DEF MapSizes
    <2>2. CASE \E k \in 1 .. told : i = k + 1
      <3>1. PICK k \in 1 .. told : i = k + 1
        BY <2>2
      <3> QED
        BY <3>1, <1>2, <1>9, <1>10 DEF MapSizes
    <2> QED
      BY <2>1, <2>2, <1>6
  <1>12. ASSUME NEW i \in 1 .. n
         PROVE  UsedOf(blocks[i].struct) <= SizeAt(heap', ptrs[i])
    <2>1. PICK size : size = sizes[i]
      OBVIOUS
    <2>2. size \in Nat /\ UsedOf(blocks[i].struct) = size /\ SizeAt(heap', ptrs[i]) >= Align16(size)
      BY <1>4, <1>11, <2>1
    <2>3. size <= Align16(size) /\ Align16(size) \in Nat
      BY <2>2, AlignFacts
    <2>4. SizeAt(heap', ptrs[i]) \in Nat
      <3>1. SoundHeap(heap') /\ ptrs[i] \in Pointers(heap')
        BY <1>4 DEF Holding
      <3> QED
        BY <3>1, PointerFacts
    <2> QED
      BY <2>2, <2>3, <2>4
  <1>13. /\ ptrs[1] \in Of("memory_map")' /\ live'[ptrs[1]].items = Tail(ptrs)
    BY <1>5, <1>7, <1>10 DEF Added, Of
  <1>14. ASSUME NEW k \in 1 .. told
         PROVE  ptrs[k + 1] \in Of("memory_map_node")' /\ live'[ptrs[k + 1]].items[1] = k
    <2>1. k + 1 \in 1 .. n
      BY <1>7
    <2>2. ptrs[k + 1] \in DOMAIN live' /\ live'[ptrs[k + 1]] = blocks[k + 1]
      BY <2>1, <1>5 DEF Added
    <2> QED
      BY <2>2, <1>10 DEF Of
  <1>15. ListsNodes(ptrs[1])'
    <2>1. /\ DOMAIN Tail(ptrs) = 1 .. told
          /\ \A k \in 1 .. told : Tail(ptrs)[k] = ptrs[k + 1]
      BY <1>1, <1>2, <1>4
    <2>2. machine'.told = told
      OBVIOUS
    <2>3. DOMAIN (live'[ptrs[1]].items) = 1 .. machine'.told
      BY <2>1, <2>2, <1>13, Zenon
    <2>4. ASSUME NEW k \in 1 .. machine'.told
          PROVE  /\ live'[ptrs[1]].items[k] \in Of("memory_map_node")'
                 /\ live'[live'[ptrs[1]].items[k]].items[1] = k
      <3>1. k \in 1 .. told
        BY <2>2, <2>4, Zenon
      <3>2. live'[ptrs[1]].items[k] = ptrs[k + 1]
        BY <2>1, <3>1, <1>13, Zenon
      <3> QED
        BY <3>1, <3>2, <1>14, Zenon
    <2> QED
      BY <2>3, <2>4, Zenon DEF ListsNodes
  <1>16. \A i \in 1 .. n : blocks[i].struct = "memory_map" => ListsNodes(ptrs[i])'
    BY <1>11, <1>15
  <1>17. Core'
    BY <1>2, <1>4, <1>5, <1>8, <1>11, <1>12, <1>16, AddedCore DEF Data
  <1>18. Of("GPT_header") = {} => Of("GPT_header")' = {}
    BY <1>5, <1>11 DEF Of, Added
  <1> QED
    BY <1>13, <1>17, <1>18

LEMMA MapData ==
  ASSUME Data, Control, get_memory_map
  PROVE  Data'
  <1>1. PICK told, nodes, sizes :
          /\ told = machine.told
          /\ nodes = [k \in 1 .. told |-> Block("memory_map_node", <<k>>)]
          /\ sizes = <<Sizeof.memory_map>> \o [k \in DOMAIN nodes |-> Sizeof.memory_map_node]
    OBVIOUS
  <1>2. /\ pc = "map" /\ Bios
        /\ \/ Halt
           \/ \E r \in Mallocs(heap, sizes) :
                /\ heap' = r.heap
                /\ live' = With(r.ptrs, <<Block("memory_map", Tail(r.ptrs))>> \o nodes)
                /\ pc' = "drive"
    BY <1>1 DEF get_memory_map
  <1>3. UNCHANGED machine
    BY <1>2, BiosFacts
  <1>4. CASE Halt
    BY <1>3, <1>4, QuietData DEF Halt, memory
  <1>5. CASE \E r \in Mallocs(heap, sizes) :
               /\ heap' = r.heap
               /\ live' = With(r.ptrs, <<Block("memory_map", Tail(r.ptrs))>> \o nodes)
               /\ pc' = "drive"
    <2>1. PICK r \in Mallocs(heap, sizes) :
            /\ heap' = r.heap
            /\ live' = With(r.ptrs, <<Block("memory_map", Tail(r.ptrs))>> \o nodes)
            /\ pc' = "drive"
      BY <1>5
    <2>2. PICK ptrs, blocks : /\ ptrs = r.ptrs
                              /\ blocks = <<Block("memory_map", Tail(ptrs))>> \o nodes
      OBVIOUS
    <2>3. PICK a, b : a = Sizeof.memory_map /\ b = Sizeof.memory_map_node
      OBVIOUS
    <2>4. told \in Nat /\ a \in Nat /\ b \in Nat /\ told = machine.told
      BY <1>1, <2>3, SizeFacts
    <2>8. sizes = <<a>> \o [k \in DOMAIN nodes |-> b]
      BY <1>1, <2>3
    <2>9. nodes = [k \in 1 .. told |-> Block("memory_map_node", <<k>>)]
      BY <1>1
    <2>10. MapSizes(sizes, told) /\ MapBlocks(blocks, ptrs, told)
      BY <2>2, <2>3, <2>4, <2>8, <2>9, MapSequences
    <2>5. live' = With(ptrs, blocks)
      BY <2>1, <2>2
    <2>6. /\ Core' /\ Of("memory_map")' # {}
          /\ Of("GPT_header") = {} => Of("GPT_header")' = {}
      <3>1. ptrs = r.ptrs /\ heap' = r.heap
        BY <2>1, <2>2
      <3> QED
        BY <1>3, <2>4, <2>5, <2>10, <3>1, MapAllocated
    <2>7. Of("GPT_header") = {}
      BY <1>2 DEF Data, Progress, NoHeader
    <2> QED
      BY <2>1, <2>6, <2>7 DEF Data, Progress, NoHeader, VideoIn, ArrayIn, InfoIn, MapIn
  <1> QED
    BY <1>2, <1>4, <1>5

\* The BIOS may reload limits, or a step leaves the processor alone.
LEMMA SameMachine ==
  ASSUME Bios \/ UNCHANGED <<machine, hardware>>
  PROVE  UNCHANGED machine
  BY DEF Bios

LEMMA HeaderData ==
  ASSUME Data, Control, AllocateHeader
  PROVE  Data'
  <1>1. /\ pc = "header" /\ UNCHANGED machine
        /\ \/ /\ Allocate(SECTOR, Block("GPT_header", << >>))
              /\ pc' = "read" /\ UNCHANGED boot_info
           \/ Halt
    BY DEF AllocateHeader
  <1>2. CASE Halt
    BY <1>1, <1>2, QuietData DEF Halt, memory
  <1>3. CASE Allocate(SECTOR, Block("GPT_header", << >>)) /\ pc' = "read"
    <2>1. PICK size, p : size = SECTOR /\ p = Malloc(heap, size).ptr
      OBVIOUS
    <2>2. /\ size \in Nat /\ UsedOf("GPT_header") <= size
          /\ "GPT_header" \in Structs \ {"memory_map"}
      BY <2>1, BootAssumption DEF Structs, UsedOf
    <2>3. Allocate(size, Block("GPT_header", << >>)) /\ Core
      BY <1>3, <2>1 DEF Data
    <2>4. /\ Core' /\ Of("GPT_header")' = Of("GPT_header") \cup {p}
          /\ Of("memory_map")' = Of("memory_map")
          /\ SizeAt(heap', p) >= Align16(size)
      BY <1>1, <2>1, <2>2, <2>3, AllocateOf
    <2>5. Of("GPT_header") = {} /\ Of("memory_map") # {}
      BY <1>1 DEF Data, Progress, NoHeader, MapIn
    <2> QED
      BY <1>3, <2>1, <2>4, <2>5
      DEF Data, Progress, NoHeader, VideoIn, ArrayIn, InfoIn, MapIn, Align16
  <1> QED
    BY <1>1, <1>2, <1>3

\* A larger number of bytes takes no fewer granules.
LEMMA AlignMonotone ==
  ASSUME NEW m \in Nat, NEW n \in Nat, m <= n
  PROVE  Align16(m) <= Align16(n)
  <1>1. ALIGN \in Nat \ {0}
    BY HeapAssumption
  <1> DEFINE a == (m + (ALIGN - 1)) \div ALIGN
             b == (n + (ALIGN - 1)) \div ALIGN
  <1>2. /\ a \in Nat /\ a * ALIGN <= m + (ALIGN - 1)
        /\ b \in Nat /\ n + (ALIGN - 1) < b * ALIGN + ALIGN
    BY <1>1, DivFacts
  <1> HIDE DEF a, b
  <1>3. a * ALIGN < b * ALIGN + ALIGN
    BY <1>1, <1>2
  <1>4. a <= b
    <2>1. CASE a >= b + 1
      <3>1. a * ALIGN >= b * ALIGN + ALIGN
        BY <2>1, <1>1, <1>2
      <3> QED
        BY <3>1, <1>1, <1>2, <1>3
    <2> QED
      BY <2>1, <1>2
  <1>5. a * ALIGN <= b * ALIGN
    BY <1>1, <1>2, <1>4
  <1> QED
    BY <1>5 DEF a, b, Align16

\* The block of the header is cut down in place.
LEMMA ReadData ==
  ASSUME Data, Control, ReadHeader
  PROVE  Data'
  <1>1. /\ pc = "read" /\ Bios
        /\ \/ Halt
           \/ /\ heap' = Realloc(heap, The("GPT_header"), Sizeof.GPT_header).heap
              /\ pc' = "check" /\ UNCHANGED <<live, loaded, boot_info>>
    BY DEF ReadHeader
  <1>2. UNCHANGED machine
    BY <1>1, SameMachine
  <1>3. CASE Halt
    BY <1>2, <1>3, QuietData DEF Halt, memory
  <1>4. CASE /\ heap' = Realloc(heap, The("GPT_header"), Sizeof.GPT_header).heap
             /\ pc' = "check" /\ UNCHANGED <<live, boot_info>>
    <2>1. PICK p, n, r : /\ p = The("GPT_header") /\ n = Sizeof.GPT_header
                         /\ r = Realloc(heap, p, n)
      OBVIOUS
    <2>2. n \in Nat /\ n <= SECTOR /\ SECTOR \in Nat
      BY <2>1, BootAssumption
    <2>3. p \in Of("GPT_header") /\ p \in DOMAIN live /\ SizeAt(heap, p) >= Align16(SECTOR)
      BY <1>1, <2>1, TheFacts DEF Data, Progress
    <2>4. Holding(heap, MemInit, DOMAIN live) /\ SoundHeap(MemInit)
      BY InitHeapFacts DEF Data, Core
    <2>5. SizeAt(heap, p) \in Nat
      <3>1. SoundHeap(heap) /\ p \in Pointers(heap)
        BY <2>3, <2>4 DEF Holding
      <3> QED
        BY <3>1, PointerFacts
    <2>6. Align16(n) <= SizeAt(heap, p)
      <3>1. Align16(n) <= Align16(SECTOR) /\ Align16(n) \in Nat /\ Align16(SECTOR) \in Nat
        BY <2>2, AlignMonotone, AlignFacts
      <3> QED
        BY <3>1, <2>3, <2>5
    <2>7. /\ Holding(r.heap, MemInit, DOMAIN live) /\ SizeAt(r.heap, p) >= n
          /\ \A q \in DOMAIN live \ {p} : SizeAt(r.heap, q) = SizeAt(heap, q)
      BY <2>1, <2>2, <2>3, <2>4, <2>6, HoldingShrink
    <2>8. heap' = r.heap
      BY <1>4, <2>1
    <2>9. /\ \A s : Of(s)' = Of(s) /\ UsedOf(s)' = UsedOf(s)
          /\ \A q : ListsNodes(q)' <=> ListsNodes(q)
      BY <1>2, <1>4 DEF Of, UsedOf, ListsNodes
    <2>10. UsedOf(live[p].struct) = n
      BY <2>1, <2>3 DEF Of, UsedOf
    <2>11. \A q \in DOMAIN live : UsedOf(live[q].struct) <= SizeAt(heap', q)
      BY <2>7, <2>8, <2>10 DEF Data, Core
    <2>12. Holding(heap, MemInit, DOMAIN live)'
      BY <1>4, <2>7, <2>8 DEF MemInit, HeapStart
    <2>13. Core'
      BY <1>4, <2>9, <2>11, <2>12 DEF Data, Core
    <2> QED
      BY <1>1, <1>4, <2>9, <2>13
      DEF Data, Progress, NoHeader, VideoIn, ArrayIn, InfoIn, MapIn
  <1> QED
    BY <1>1, <1>3, <1>4

\* Whole sectors for a number of bytes, and fewer entries of a size.
LEMMA WholeSectors ==
  ASSUME NEW bytes \in Nat, NEW sector \in Nat \ {0}, NEW room,
         room = (bytes \div sector + (IF bytes % sector = 0 THEN 0 ELSE 1)) * sector
  PROVE  room \in Nat /\ bytes <= room
  <1>1. PICK q, m, k : /\ q = bytes \div sector /\ m = bytes % sector
                       /\ k = bytes \div sector + (IF bytes % sector = 0 THEN 0 ELSE 1)
    OBVIOUS
  <1>2. room = k * sector
    BY <1>1, Zenon
  <1>3. q \in Nat /\ m \in 0 .. sector - 1 /\ bytes = q * sector + m
    BY <1>1
  <1>4. k = IF m = 0 THEN q ELSE q + 1
    BY <1>1, <1>3
  <1>5. CASE m = 0
    <2>1. k = q /\ q * sector \in Nat
      BY <1>3, <1>4, <1>5
    <2> QED
      BY <1>2, <1>3, <1>5, <2>1
  <1>6. CASE m # 0
    <2>1. k = q + 1
      BY <1>4, <1>6
    <2>2. (q + 1) * sector = q * sector + sector /\ q * sector \in Nat
      BY <1>3
    <2> QED
      BY <1>2, <1>3, <2>1, <2>2
  <1> QED
    BY <1>5, <1>6

LEMMA ScaledMonotone ==
  ASSUME NEW a \in Nat, NEW b \in Nat, a <= b, NEW size \in Nat
  PROVE  a * size \in Nat /\ b * size \in Nat /\ a * size <= b * size
  <1>1. PICK c \in Nat : b = a + c
    <2>1. b - a \in Nat /\ b = a + (b - a)
      OBVIOUS
    <2> QED
      BY <2>1
  <1>2. b * size = a * size + c * size /\ c * size \in Nat /\ a * size \in Nat
    BY <1>1
  <1> QED
    BY <1>2

\* The table: the block of the entries is cut down to those in use.
LEMMA TableData ==
  ASSUME Data, Control, get_partition_array
  PROVE  Data'
  <1>1. PICK a, n, bytes, room :
          /\ a = Sizeof.GPT_partition_array
          /\ n = machine.used * Sizeof.GPT_partition_entry
          /\ bytes = machine.entries * Sizeof.GPT_partition_entry
          /\ room = (bytes \div SECTOR + (IF bytes % SECTOR = 0 THEN 0 ELSE 1)) * SECTOR
    OBVIOUS
  <1>2. /\ pc = "table" /\ Bios
        /\ \/ Halt
           \/ \E r \in Mallocs(heap, <<a, room>>) :
                /\ heap' = Realloc(r.heap, r.ptrs[2], n).heap
                /\ live' = With(r.ptrs, <<Block("GPT_partition_array", <<r.ptrs[2]>>),
                                          Block("entries", << >>)>>)
                /\ pc' = "find"
                /\ UNCHANGED <<loaded, boot_info>>
    BY <1>1 DEF get_partition_array
  <1>3. UNCHANGED machine
    BY <1>2, SameMachine
  <1>4. CASE Halt
    BY <1>3, <1>4, QuietData DEF Halt, memory
  <1>5. /\ a \in Nat /\ n \in Nat /\ room \in Nat /\ n <= room
        /\ UsedOf("GPT_partition_array") = a /\ UsedOf("entries") = n
        /\ "GPT_partition_array" \in Structs /\ "entries" \in Structs
    <2>1. PICK e, used, size : e = machine.entries /\ used = machine.used
                               /\ size = Sizeof.GPT_partition_entry
      OBVIOUS
    <2>2. e \in Nat /\ used \in Nat /\ used <= e /\ size \in Nat /\ SECTOR \in Nat \ {0}
          /\ n = used * size /\ bytes = e * size /\ a \in Nat
      BY <1>1, <2>1, SizeFacts, BootAssumption
    <2>3. n \in Nat /\ bytes \in Nat /\ n <= bytes
      BY <2>2, ScaledMonotone
    <2>4. room \in Nat /\ bytes <= room
      BY <1>1, <2>2, <2>3, WholeSectors
    <2>5. /\ "GPT_partition_array" \in Structs /\ "entries" \in Structs
          /\ UsedOf("GPT_partition_array") = Sizeof.GPT_partition_array
          /\ UsedOf("entries") = machine.used * Sizeof.GPT_partition_entry
      BY SizeFacts DEF UsedOf, Structs
    <2>6. UsedOf("GPT_partition_array") = a /\ UsedOf("entries") = n
      BY <1>1, <2>5, Zenon
    <2>7. n <= room
      BY <2>3, <2>4
    <2> QED
      BY <2>2, <2>3, <2>4, <2>5, <2>6, <2>7
  <1>6. CASE \E r \in Mallocs(heap, <<a, room>>) :
               /\ heap' = Realloc(r.heap, r.ptrs[2], n).heap
               /\ live' = With(r.ptrs, <<Block("GPT_partition_array", <<r.ptrs[2]>>),
                                         Block("entries", << >>)>>)
               /\ pc' = "find"
    <2>1. PICK r \in Mallocs(heap, <<a, room>>) :
            /\ heap' = Realloc(r.heap, r.ptrs[2], n).heap
            /\ live' = With(r.ptrs, <<Block("GPT_partition_array", <<r.ptrs[2]>>),
                                      Block("entries", << >>)>>)
            /\ pc' = "find"
      BY <1>6
    <2>2. PICK sizes, blocks, ptrs, g :
            /\ sizes = <<a, room>> /\ ptrs = r.ptrs /\ g = r.heap
            /\ blocks = <<Block("GPT_partition_array", <<ptrs[2]>>), Block("entries", << >>)>>
      OBVIOUS
    <2>3. sizes \in Seq(Nat) /\ Len(sizes) = 2 /\ sizes[1] = a /\ sizes[2] = room
      BY <1>5, <2>2
    <2>4. Allocation(heap, DOMAIN live, sizes, 2, r)
      BY <2>1, <2>2, <2>3, MallocsFacts DEF Data, Core
    <2>5. /\ ptrs \in Seq(Nat) /\ Len(ptrs) = 2
          /\ \A i \in 1 .. 2 : ptrs[i] \notin DOMAIN live
          /\ \A i, j \in 1 .. 2 : ptrs[i] = ptrs[j] => i = j
          /\ Holding(g, MemInit, DOMAIN live \cup {ptrs[i] : i \in 1 .. 2})
          /\ \A i \in 1 .. 2 : SizeAt(g, ptrs[i]) >= Align16(sizes[i])
          /\ \A p \in DOMAIN live : SizeAt(g, p) = SizeAt(heap, p)
      BY <2>2, <2>4 DEF Allocation
    <2>6. PICK P, c, d : /\ P = DOMAIN live \cup {ptrs[i] : i \in 1 .. 2}
                         /\ c = ptrs[1] /\ d = ptrs[2]
      OBVIOUS
    <2>7. 1 \in 1 .. 2 /\ 2 \in 1 .. 2 /\ \A i \in 1 .. 2 : i = 1 \/ i = 2
      OBVIOUS
    <2>8. c \in P /\ d \in P /\ c # d /\ c \notin DOMAIN live /\ d \notin DOMAIN live
      BY <2>5, <2>6, <2>7
    <2>9. Holding(g, MemInit, P) /\ SizeAt(g, c) >= Align16(a) /\ SizeAt(g, d) >= Align16(room)
      BY <2>3, <2>5, <2>6, <2>7
    <2>10. SoundHeap(g) /\ SizeAt(g, c) \in Nat /\ SizeAt(g, d) \in Nat
      <3>1. SoundHeap(g) /\ c \in Pointers(g) /\ d \in Pointers(g)
        BY <2>8, <2>9 DEF Holding
      <3> QED
        BY <3>1, PointerFacts
    <2>11. Align16(n) <= SizeAt(g, d) /\ a <= SizeAt(g, c)
      <3>1. /\ Align16(n) <= Align16(room) /\ Align16(n) \in Nat /\ Align16(room) \in Nat
            /\ a <= Align16(a) /\ Align16(a) \in Nat
        BY <1>5, AlignMonotone, AlignFacts
      <3> QED
        BY <1>5, <2>9, <2>10, <3>1
    <2>12. PICK t : t = Realloc(g, d, n)
      OBVIOUS
    <2>13. heap' = t.heap
      BY <2>1, <2>2, <2>6, <2>12
    <2>14. /\ Holding(t.heap, MemInit, P) /\ SizeAt(t.heap, d) >= n
           /\ \A q \in P \ {d} : SizeAt(t.heap, q) = SizeAt(g, q)
      BY <1>5, <2>8, <2>9, <2>11, <2>12, InitHeapFacts, HoldingShrink
    <2>15. live' = With(ptrs, blocks)
      BY <2>1, <2>2
    <2>16. Added(ptrs, blocks, 2)
      BY <2>5, <2>15, WithAdded
    <2>17. DOMAIN live' = P
      BY <2>6, <2>16 DEF Added
    <2>18. \A p \in DOMAIN live : SizeAt(heap', p) = SizeAt(heap, p)
      BY <2>5, <2>6, <2>8, <2>13, <2>14
    <2>19. blocks[1].struct = "GPT_partition_array" /\ blocks[2].struct = "entries"
      BY <2>2, BlockFields
    <2>20. \A i \in 1 .. 2 : /\ blocks[i].struct \in Structs /\ blocks[i].struct # "memory_map"
                             /\ blocks[i].struct # "GPT_header"
                             /\ UsedOf(blocks[i].struct) <= SizeAt(heap', ptrs[i])
      <3>1. SizeAt(heap', c) = SizeAt(g, c)
        BY <2>8, <2>13, <2>14
      <3>2. a <= SizeAt(heap', c) /\ n <= SizeAt(heap', d)
        <4>1. SizeAt(heap', d) >= n
          BY <2>13, <2>14
        <4>2. SizeAt(heap', d) \in Nat
          <5>1. SoundHeap(t.heap) /\ d \in Pointers(t.heap)
            BY <2>8, <2>14 DEF Holding
          <5> QED
            BY <2>13, <5>1, PointerFacts
        <4> QED
          BY <1>5, <2>11, <3>1, <4>1, <4>2
      <3>3. /\ blocks[1].struct \in Structs /\ UsedOf(blocks[1].struct) <= SizeAt(heap', ptrs[1])
            /\ blocks[2].struct \in Structs /\ UsedOf(blocks[2].struct) <= SizeAt(heap', ptrs[2])
        BY <1>5, <2>6, <2>19, <3>2
      <3> QED
        BY <2>7, <2>19, <3>3
    <2>21. Holding(heap', MemInit, DOMAIN live')
      BY <2>13, <2>14, <2>17
    <2>22. Core'
      BY <1>3, <2>16, <2>18, <2>20, <2>21, AddedCore DEF Data
    <2>23. Of("memory_map")' # {}
      <3>1. Of("memory_map") # {}
        BY <1>2 DEF Data, Progress, MapIn
      <3> QED
        BY <2>16, <3>1 DEF Of, Added
    <2> QED
      BY <2>1, <2>22, <2>23 DEF Data, Progress, NoHeader, VideoIn, ArrayIn, InfoIn, MapIn
  <1> QED
    BY <1>2, <1>4, <1>6

-----------------------------------------------------------------------------
LEMMA BufferData ==
  ASSUME Data, Control, AllocateBuffer
  PROVE  Data'
  <1>1. /\ pc = "buffer" /\ UNCHANGED machine
        /\ \/ /\ Allocate(SECTOR, Block("buffer", << >>))
              /\ pc' = "kernel" /\ UNCHANGED boot_info
           \/ Halt
    BY DEF AllocateBuffer
  <1>2. CASE Halt
    BY <1>1, <1>2, QuietData DEF Halt, memory
  <1>3. CASE Allocate(SECTOR, Block("buffer", << >>)) /\ pc' = "kernel"
    <2>1. PICK size, p : size = SECTOR /\ p = Malloc(heap, size).ptr
      OBVIOUS
    <2>2. /\ size \in Nat /\ UsedOf("buffer") <= size
          /\ "buffer" \in Structs \ {"memory_map"}
      BY <2>1, BootAssumption DEF Structs, UsedOf
    <2>3. Allocate(size, Block("buffer", << >>)) /\ Core
      BY <1>3, <2>1 DEF Data
    <2>4. /\ Core' /\ Of("buffer")' # {} /\ Of("memory_map")' = Of("memory_map")
      BY <1>1, <2>1, <2>2, <2>3, AllocateOf
    <2>5. Of("memory_map") # {}
      BY <1>1 DEF Data, Progress, MapIn
    <2> QED
      BY <1>3, <2>4, <2>5 DEF Data, Progress, NoHeader, VideoIn, ArrayIn, InfoIn, MapIn
  <1> QED
    BY <1>1, <1>2, <1>3

\* The buffer is given back, on success and on failure.
LEMMA BufferFreedData ==
  ASSUME Data, pc = "kernel", UNCHANGED machine, BufferFreed, pc' \in {"halt", "info"}
  PROVE  Data'
  <1>1. PICK p : p = The("buffer")
    OBVIOUS
  <1>2. p \in DOMAIN live /\ live[p].struct = "buffer" /\ Core /\ Of("memory_map") # {}
    BY <1>1, TheFacts DEF Data, Progress, MapIn
  <1>3. heap' = Free(heap, p) /\ live' = Without(p)
    BY <1>1 DEF BufferFreed
  <1>4. /\ Core' /\ DOMAIN live' = DOMAIN live \ {p}
        /\ \A q \in DOMAIN live' : live'[q] = live[q]
    BY <1>2, <1>3, FreedData
  <1>5. Of("memory_map")' # {}
    BY <1>2, <1>4 DEF Of
  <1> QED
    BY <1>4, <1>5 DEF Data, Progress, NoHeader, VideoIn, ArrayIn, InfoIn, MapIn

LEMMA KernelData ==
  ASSUME Data, LoadSector \/ KernelLoaded
  PROVE  Data'
  <1>1. CASE LoadSector
    <2>1. pc = "kernel" /\ UNCHANGED <<machine, boot_info>>
      BY <1>1, SameMachine DEF LoadSector
    <2>2. \/ UNCHANGED <<heap, live>> /\ pc' \in {"kernel", "fault"}
          \/ BufferFreed /\ pc' = "halt"
      BY <1>1, <2>1 DEF LoadSector
    <2> QED
      BY <2>1, <2>2, BufferFreedData, QuietData DEF Quiet
  <1>2. CASE KernelLoaded
    BY <1>2, BufferFreedData DEF KernelLoaded
  <1> QED
    BY <1>1, <1>2

-----------------------------------------------------------------------------
LEMMA InfoData ==
  ASSUME Data, Control, AllocateInfo
  PROVE  Data'
  <1>1. /\ pc = "info" /\ UNCHANGED machine
        /\ \/ /\ Allocate(Sizeof.boot_info_t, Block("boot_info_t", << >>))
              /\ pc' = "array"
           \/ Halt
    BY DEF AllocateInfo
  <1>2. CASE Halt
    BY <1>1, <1>2, QuietData DEF Halt, memory
  <1>3. CASE Allocate(Sizeof.boot_info_t, Block("boot_info_t", << >>)) /\ pc' = "array"
    <2>1. PICK size, p : size = Sizeof.boot_info_t /\ p = Malloc(heap, size).ptr
      OBVIOUS
    <2>2. /\ size \in Nat /\ UsedOf("boot_info_t") <= size
          /\ "boot_info_t" \in Structs \ {"memory_map"}
      BY <2>1, BootAssumption DEF Structs, UsedOf
    <2>3. Allocate(size, Block("boot_info_t", << >>)) /\ Core
      BY <1>3, <2>1 DEF Data
    <2>4. /\ Core' /\ Of("boot_info_t")' # {} /\ Of("memory_map")' = Of("memory_map")
      BY <1>1, <2>1, <2>2, <2>3, AllocateOf
    <2>5. Of("memory_map") # {}
      BY <1>1 DEF Data, Progress, MapIn
    <2> QED
      BY <1>3, <2>4, <2>5 DEF Data, Progress, NoHeader, VideoIn, ArrayIn, InfoIn, MapIn
  <1> QED
    BY <1>1, <1>2, <1>3

\* Along the list of the map are the entries that the BIOS told, in order.
LEMMA ListedFacts ==
  ASSUME Core, Of("memory_map") # {}
  PROVE  Listed = [k \in 1 .. machine.told |-> k]
  <1>1. PICK list : list = live[The("memory_map")].items
    OBVIOUS
  <1>2. /\ DOMAIN list = 1 .. machine.told
        /\ \A k \in 1 .. machine.told : live[list[k]].items[1] = k
    BY <1>1, TheFacts DEF Core, ListsNodes
  <1>3. Listed = [k \in DOMAIN list |-> live[list[k]].items[1]]
    BY <1>1 DEF Listed
  <1> QED
    BY <1>2, <1>3

\* From a physical address back to the offset in the segment.
LEMMA Offset ==
  ASSUME NEW p \in Nat, NEW address, address = p + SSL
  PROVE  address - SSL = p
  BY BootAssumption

LEMMA ArrayData ==
  ASSUME Data, Control, CopyMap
  PROVE  Data'
  <1>1. PICK told, size, p, items :
          /\ told = machine.told /\ size = told * Sizeof.memory_map_entry
          /\ p = Malloc(heap, size).ptr /\ items = [k \in 1 .. told |-> k]
    OBVIOUS
  <1>2. /\ pc = "array" /\ UNCHANGED machine
        /\ \/ /\ Allocate(size, Block("map array", Listed))
              /\ boot_info' = [size |-> boot_info.size, boot_drive |-> boot_info.boot_drive,
                               memory_map |-> MapInfo(p)]
              /\ pc' = "video"
           \/ InfoFreed /\ pc' = "halt"
    BY <1>1 DEF CopyMap
  <1>3. Core /\ Of("memory_map") # {} /\ Of("boot_info_t") # {}
    BY <1>2 DEF Data, Progress, InfoIn, MapIn
  <1>4. CASE /\ Allocate(size, Block("map array", Listed))
             /\ boot_info' = [size |-> boot_info.size, boot_drive |-> boot_info.boot_drive,
                              memory_map |-> MapInfo(p)]
             /\ pc' = "video"
    <2>1. /\ size \in Nat /\ UsedOf("map array") <= size
          /\ "map array" \in Structs \ {"memory_map"}
      <3>1. size \in Nat
        BY <1>1, SizeFacts
      <3>2. UsedOf("map array") = size
        BY <1>1 DEF UsedOf
      <3>3. "map array" # "memory_map" /\ "map array" \in Structs
        BY DEF Structs
      <3>4. size <= size
        BY <3>1
      <3> QED
        BY <3>1, <3>2, <3>3, <3>4, Zenon
    <2>2. /\ Allocate(size, Block("map array", items)) /\ UNCHANGED machine
          /\ p = Malloc(heap, size).ptr
      BY <1>1, <1>2, <1>3, <1>4, ListedFacts, Zenon
    <2>3. /\ Core' /\ p \in Nat /\ p \in Of("map array")' /\ live'[p].items = items
          /\ Of("memory_map")' = Of("memory_map") /\ Of("boot_info_t")' = Of("boot_info_t")
      <3>1. PICK struct : struct = "map array"
        OBVIOUS
      <3>2. struct \in Structs \ {"memory_map"} /\ size \in Nat /\ UsedOf(struct) <= size
        BY <2>1, <3>1
      <3>3. Allocate(size, Block(struct, items))
        BY <2>2, <3>1
      <3>4. Core /\ UNCHANGED machine /\ p = Malloc(heap, size).ptr
        BY <1>3, <2>2
      <3>5. /\ Core' /\ p \in Nat /\ p \in Of(struct)' /\ live'[p].items = items
            /\ \A s : s # struct => Of(s)' = Of(s)
        BY <3>2, <3>3, <3>4, AllocateOf
      <3> QED
        BY <3>1, <3>5
    <2>4. /\ boot_info'.memory_map.address = p + SSL
          /\ boot_info'.memory_map.count = told
      BY <1>1, <1>4 DEF MapInfo, Physical
    <2>5. boot_info'.memory_map.address - SSL = p
      BY <2>3, <2>4, Offset
    <2>6. ArrayTold'
      BY <1>1, <1>2, <2>3, <2>4, <2>5 DEF ArrayTold
    <2> QED
      BY <1>3, <1>4, <2>3, <2>6 DEF Data, Progress, NoHeader, VideoIn, ArrayIn, InfoIn, MapIn
  <1>5. CASE InfoFreed /\ pc' = "halt"
    <2>1. PICK q : q = The("boot_info_t")
      OBVIOUS
    <2>2. q \in DOMAIN live /\ live[q].struct = "boot_info_t"
      BY <1>3, <2>1, TheFacts
    <2>3. heap' = Free(heap, q) /\ live' = Without(q)
      BY <1>5, <2>1 DEF InfoFreed
    <2>4. Core'
      BY <1>2, <1>3, <2>2, <2>3, FreedData
    <2> QED
      BY <1>5, <2>4 DEF Data, Progress, NoHeader, VideoIn, ArrayIn, InfoIn, MapIn
  <1> QED
    BY <1>2, <1>4, <1>5

LEMMA VideoData ==
  ASSUME Data, Control, QueryVideo
  PROVE  Data'
  <1>1. PICK size, p : size = Sizeof.video_lintext /\ p = Malloc(heap, size).ptr
    OBVIOUS
  <1>2. /\ pc = "video" /\ pc' = "finish" /\ UNCHANGED machine
        /\ \/ /\ Allocate(size, Block("video_lintext", << >>))
              /\ VideoInfo("LINTEXT", p)
           \/ VideoInfo("NOVIDEO", NULL) /\ UNCHANGED <<heap, live>>
    BY <1>1, SameMachine DEF QueryVideo
  <1>3. /\ Core /\ ArrayTold /\ Of("memory_map") # {} /\ Of("boot_info_t") # {}
    BY <1>2 DEF Data, Progress, ArrayIn, InfoIn, MapIn
  <1>4. CASE Allocate(size, Block("video_lintext", << >>)) /\ VideoInfo("LINTEXT", p)
    <2>1. /\ size \in Nat /\ UsedOf("video_lintext") <= size
          /\ "video_lintext" \in Structs \ {"memory_map"}
      BY <1>1, BootAssumption DEF Structs, UsedOf
    <2>2. /\ Core' /\ p \in Nat /\ p \in Of("video_lintext")'
          /\ Of("memory_map")' = Of("memory_map") /\ Of("boot_info_t")' = Of("boot_info_t")
          /\ Of("map array")' = Of("map array")
          /\ \A q \in DOMAIN live : live'[q] = live[q]
      <3>1. UNCHANGED machine /\ p = Malloc(heap, size).ptr
        BY <1>1, <1>2
      <3>2. Core /\ Allocate(size, Block("video_lintext", << >>))
        BY <1>3, <1>4
      <3>3. /\ Core' /\ p \in Nat /\ p \in Of("video_lintext")'
            /\ \A s : s # "video_lintext" => Of(s)' = Of(s)
            /\ \A q \in DOMAIN live : q \in DOMAIN live' /\ live'[q] = live[q]
        BY <2>1, <3>1, <3>2, AllocateOf
      <3> QED
        BY <3>3
    <2>3. /\ boot_info'.memory_map = boot_info.memory_map
          /\ boot_info'.video_info.address = p + SSL
      BY <1>4 DEF VideoInfo, Physical
    <2>4. boot_info'.video_info.address - SSL = p
      BY <2>2, <2>3, Offset
    <2>5. VideoTold'
      BY <2>2, <2>4 DEF VideoTold
    <2>6. ArrayTold'
      <3>1. PICK map : map = boot_info.memory_map.address - SSL
        OBVIOUS
      <3>2. /\ map \in Of("map array") /\ live[map].items = [k \in 1 .. machine.told |-> k]
            /\ boot_info.memory_map.count = machine.told
        BY <1>3, <3>1, Zenon DEF ArrayTold
      <3>3. map = boot_info'.memory_map.address - SSL /\ boot_info'.memory_map.count = machine.told
        BY <2>3, <3>1, <3>2, Zenon
      <3>4. map \in Of("map array")' /\ live'[map] = live[map]
        BY <2>2, <3>2, Zenon DEF Of
      <3>5. machine' = machine
        BY <1>2, Zenon
      <3> QED
        BY <3>2, <3>3, <3>4, <3>5, Zenon DEF ArrayTold
    <2> QED
      BY <1>2, <1>3, <2>2, <2>5, <2>6
      DEF Data, Progress, NoHeader, VideoIn, ArrayIn, InfoIn, MapIn
  <1>5. CASE VideoInfo("NOVIDEO", NULL) /\ UNCHANGED <<heap, live>>
    <2>1. /\ boot_info'.memory_map = boot_info.memory_map
          /\ boot_info'.video_info.type = "NOVIDEO"
      BY <1>5 DEF VideoInfo
    <2>2. /\ \A s : Of(s)' = Of(s) /\ UsedOf(s)' = UsedOf(s)
          /\ \A q : ListsNodes(q)' <=> ListsNodes(q)
      BY <1>2, <1>5 DEF Of, UsedOf, ListsNodes
    <2>3. Core'
      BY <1>3, <1>5, <2>2 DEF Core
    <2>4. ArrayTold' /\ VideoTold'
      BY <1>2, <1>3, <1>5, <2>1, <2>2 DEF ArrayTold, VideoTold
    <2> QED
      BY <1>2, <1>3, <2>2, <2>3, <2>4
      DEF Data, Progress, NoHeader, VideoIn, ArrayIn, InfoIn, MapIn
  <1> QED
    BY <1>2, <1>4, <1>5
-----------------------------------------------------------------------------
(***************************************************************************)
(* Every step keeps the invariant.                                         *)
(***************************************************************************)
LEMMA A20Kept ==
  ASSUME IInv, Next
  PROVE  A20Inv'
  <1>1. CASE EnableA20
    BY <1>1, LoaderA20Step DEF IInv, EnableA20
  <1>2. CASE KeyboardController
    BY <1>2, ControllerStep DEF IInv, KeyboardController
  <1>3. CASE ~EnableA20 /\ ~KeyboardController
    <2>1. UNCHANGED <<a20vars, machine>>
      BY <1>3
      DEF Next, Loader, CheckCpuid, check_cpu_compat, A20Done, LoadGdt, enter_unreal,
          get_memory_map, CheckSectorSize, AllocateHeader, ReadHeader, CheckHeader,
          get_partition_array, FindPartitions, LoadTsl, AllocateBuffer, LoadSector, KernelLoaded,
          AllocateInfo, CopyMap, QueryVideo, DisableInterrupts, EnterProtectedMode, JumpToTsl,
          Stay, Bios, hardware, vars
    <2> QED
      BY <2>1 DEF IInv, A20Inv, Handshake, Gated, NoKey, Wired, a20vars
  <1> QED
    BY <1>1, <1>2, <1>3

LEMMA SameControl ==
  ASSUME Control, UNCHANGED vars
  PROVE  Control'
  <1>1. UNCHANGED <<machine, gate, gdt, cpu, low, loaded, pc>>
    BY DEF vars, a20vars
  <1>2. /\ (Compatible' <=> Compatible) /\ (GdtReady' <=> GdtReady)
        /\ Kept' = Kept /\ TslRead' = TslRead
    BY <1>1 DEF Compatible, GdtReady, SegmentLimit, Kept, TslRead
  <1> QED
    BY <1>1, <1>2 DEF Control

LEMMA ControlKept ==
  ASSUME IInv, Next
  PROVE  Control'
  <1>1. Control /\ A20Inv
    BY DEF IInv
  <1>2. CASE check_cpu_compat
    BY <1>1, <1>2, CompatControl
  <1>3. CASE EnableA20 \/ KeyboardController \/ A20Done
    BY <1>1, <1>3, A20Control
  <1>4. CASE LoadGdt \/ enter_unreal
    BY <1>1, <1>4, LoadGdtControl, UnrealControl
  <1>5. CASE CheckCpuid \/ CheckHeader \/ FindPartitions
    BY <1>1, <1>5, MovedControl, CheckHeaderControl DEF CheckCpuid, FindPartitions, memory, Moves
  <1>6. CASE get_memory_map
    BY <1>1, <1>6, MovedControl DEF get_memory_map, Halt, memory, Moves
  <1>7. CASE CheckSectorSize
    BY <1>1, <1>7, MovedControl DEF CheckSectorSize, Halt, memory, Moves
  <1>8. CASE ReadHeader
    BY <1>1, <1>8, MovedControl DEF ReadHeader, Halt, memory, Moves
  <1>9. CASE get_partition_array
    BY <1>1, <1>9, MovedControl DEF get_partition_array, Halt, memory, Moves
  <1>10. CASE AllocateHeader \/ AllocateBuffer
    BY <1>1, <1>10, MovedControl DEF AllocateHeader, AllocateBuffer, Allocate, Halt, memory, Moves
  <1>11. CASE AllocateInfo \/ CopyMap
    BY <1>1, <1>11, MovedControl DEF AllocateInfo, CopyMap, Allocate, Halt, memory, Moves
  <1>12. CASE QueryVideo
    BY <1>1, <1>12, MovedControl DEF QueryVideo, Allocate, Moves
  <1>13. CASE LoadTsl \/ LoadSector \/ KernelLoaded
    BY <1>1, <1>13, LoadTslControl, LoadSectorControl, KernelLoadedControl
  <1>14. CASE DisableInterrupts \/ EnterProtectedMode \/ JumpToTsl
    BY <1>1, <1>14, AssemblyControl
  <1>15. CASE UNCHANGED vars
    BY <1>1, <1>15, SameControl
  <1> QED
    BY <1>2, <1>3, <1>4, <1>5, <1>6, <1>7, <1>8, <1>9, <1>10, <1>11, <1>12, <1>13, <1>14, <1>15
    DEF Next, Loader, Stay

LEMMA DataKept ==
  ASSUME IInv, Next
  PROVE  Data'
  <1>1. Data /\ Control
    BY DEF IInv
  <1>2. CASE CheckCpuid \/ check_cpu_compat \/ CheckHeader \/ FindPartitions
    BY <1>1, <1>2, QuietData
    DEF CheckCpuid, check_cpu_compat, CheckHeader, FindPartitions, memory, Quiet
  <1>3. CASE EnableA20 \/ KeyboardController \/ A20Done
    BY <1>1, <1>3, QuietData
    DEF EnableA20, KeyboardController, A20Done, A20Answered, memory, Quiet
  <1>4. CASE LoadGdt \/ enter_unreal
    BY <1>1, <1>4, QuietData DEF LoadGdt, enter_unreal, memory, Quiet
  <1>5. CASE CheckSectorSize \/ LoadTsl
    <2>1. UNCHANGED machine
      BY <1>5, SameMachine DEF CheckSectorSize, LoadTsl
    <2> QED
      BY <1>1, <1>5, <2>1, QuietData DEF CheckSectorSize, LoadTsl, Halt, memory, Quiet
  <1>6. CASE get_memory_map \/ AllocateHeader \/ ReadHeader \/ get_partition_array
    BY <1>1, <1>6, MapData, HeaderData, ReadData, TableData
  <1>7. CASE AllocateBuffer \/ LoadSector \/ KernelLoaded
    BY <1>1, <1>7, BufferData, KernelData
  <1>8. CASE AllocateInfo \/ CopyMap \/ QueryVideo
    BY <1>1, <1>8, InfoData, ArrayData, VideoData
  <1>9. CASE DisableInterrupts \/ EnterProtectedMode \/ JumpToTsl
    BY <1>1, <1>9, QuietData
    DEF DisableInterrupts, EnterProtectedMode, JumpToTsl, memory, Quiet
  <1>10. CASE Stay
    BY <1>1, <1>10, QuietData DEF Stay, Stopped, vars, Quiet
  <1> QED
    BY <1>2, <1>3, <1>4, <1>5, <1>6, <1>7, <1>8, <1>9, <1>10 DEF Next, Loader

\* Each field is filled by one step and carried over by the next ones.
LEMMA FieldsKept ==
  ASSUME IInv, Next
  PROVE  Fields'
  <1>1. Fields
    BY DEF IInv
  <1>2. CASE AllocateInfo
    <2>1. pc = "info" /\ UNCHANGED machine /\ loaded.drive_GUID = machine.guid
      BY <1>2 DEF AllocateInfo, IInv, Control, GuidIn, TslIn, KernelIn
    <2>2. \/ /\ pc' = "array"
             /\ boot_info' = [size |-> Sizeof.boot_info_t,
                              boot_drive |-> [GUID |-> loaded.drive_GUID]]
          \/ pc' = "halt"
      BY <1>2 DEF AllocateInfo, Halt
    <2> QED
      BY <2>1, <2>2 DEF Fields, InfoIn, ArrayIn, VideoIn
  <1>3. CASE CopyMap
    <2>1. pc = "array" /\ UNCHANGED machine
      BY <1>3 DEF CopyMap
    <2>2. PICK p :
            \/ /\ pc' = "video"
               /\ boot_info' = [size |-> boot_info.size, boot_drive |-> boot_info.boot_drive,
                                memory_map |-> MapInfo(p)]
            \/ pc' = "halt"
      BY <1>3 DEF CopyMap
    <2>3. boot_info.boot_drive = [GUID |-> machine.guid]
      BY <1>1, <2>1 DEF Fields, InfoIn
    <2>4. CASE pc' = "video"
      <3>1. /\ boot_info'.boot_drive = boot_info.boot_drive
            /\ boot_info'.memory_map.entry_size = Sizeof.memory_map_entry
        BY <2>2, <2>4 DEF MapInfo
      <3> QED
        BY <2>1, <2>3, <2>4, <3>1 DEF Fields, InfoIn, ArrayIn, VideoIn
    <2> QED
      BY <2>2, <2>4 DEF Fields, InfoIn, ArrayIn, VideoIn
  <1>4. CASE QueryVideo
    <2>1. pc = "video" /\ pc' = "finish" /\ UNCHANGED machine
      BY <1>4, SameMachine DEF QueryVideo
    <2>2. /\ boot_info.boot_drive = [GUID |-> machine.guid]
          /\ boot_info.memory_map.entry_size = Sizeof.memory_map_entry
      BY <1>1, <2>1 DEF Fields, InfoIn, ArrayIn
    <2>3. PICK type, p : VideoInfo(type, p)
      BY <1>4 DEF QueryVideo
    <2>4. /\ boot_info'.boot_drive = boot_info.boot_drive
          /\ boot_info'.memory_map = boot_info.memory_map
          /\ boot_info'.RAMFS = [address |-> RAMFS]
      BY <2>3 DEF VideoInfo
    <2> QED
      BY <2>1, <2>2, <2>4 DEF Fields
  <1>5. CASE ~AllocateInfo /\ ~CopyMap /\ ~QueryVideo
    <2>1. UNCHANGED <<machine, boot_info>>
      BY <1>5
      DEF Next, Loader, CheckCpuid, check_cpu_compat, EnableA20, KeyboardController, A20Done,
          LoadGdt, enter_unreal, get_memory_map, CheckSectorSize, Halt, AllocateHeader,
          ReadHeader, CheckHeader, get_partition_array, FindPartitions, LoadTsl, AllocateBuffer,
          LoadSector, KernelLoaded, DisableInterrupts, EnterProtectedMode, JumpToTsl,
          Stay, Bios, memory, vars
    <2>2. CASE \/ CheckCpuid \/ check_cpu_compat \/ EnableA20 \/ KeyboardController \/ A20Done
               \/ LoadGdt \/ enter_unreal \/ get_memory_map \/ CheckSectorSize \/ AllocateHeader
               \/ ReadHeader \/ CheckHeader \/ get_partition_array \/ FindPartitions \/ LoadTsl
               \/ AllocateBuffer \/ LoadSector \/ KernelLoaded
      <3>1. pc' \notin InfoIn \cup ArrayIn \cup VideoIn
        BY <2>2
        DEF CheckCpuid, check_cpu_compat, EnableA20, KeyboardController, A20Done, A20Answered,
            LoadGdt, enter_unreal, get_memory_map, CheckSectorSize, Halt, AllocateHeader,
            ReadHeader, CheckHeader, get_partition_array, FindPartitions, LoadTsl,
            AllocateBuffer, LoadSector, KernelLoaded, InfoIn, ArrayIn, VideoIn
      <3> QED
        BY <3>1 DEF Fields
    <2>3. CASE DisableInterrupts \/ EnterProtectedMode \/ JumpToTsl
      <3>1. pc \in VideoIn
        BY <2>3 DEF DisableInterrupts, EnterProtectedMode, JumpToTsl, VideoIn
      <3>2. pc \in InfoIn /\ pc \in ArrayIn
        BY <3>1 DEF InfoIn, ArrayIn
      <3> QED
        BY <1>1, <2>1, <3>1, <3>2 DEF Fields
    <2>4. CASE Stay
      BY <1>1, <2>4 DEF Stay, vars, Fields
    <2> QED
      BY <1>5, <2>2, <2>3, <2>4 DEF Next, Loader
  <1> QED
    BY <1>2, <1>3, <1>4, <1>5

LEMMA SameData ==
  ASSUME Data, UNCHANGED vars
  PROVE  Data'
  <1>1. /\ \A s : Of(s)' = Of(s) /\ UsedOf(s)' = UsedOf(s)
        /\ \A p : ListsNodes(p)' <=> ListsNodes(p)
    BY DEF Of, UsedOf, ListsNodes, vars
  <1>2. (ArrayTold' <=> ArrayTold) /\ (VideoTold' <=> VideoTold)
    BY DEF ArrayTold, VideoTold, Of, vars
  <1> QED
    BY <1>1, <1>2 DEF Data, Core, Progress, vars

\* The invariant holds throughout.
THEOREM Invariance == Spec => []IInv
  <1>1. Init => IInv
    <2>1. Init => Fields
      BY DEF Init, Fields, InfoIn, ArrayIn, VideoIn
    <2> QED
      BY <2>1, InitA20, InitControl, InitData DEF IInv
  <1>2. IInv /\ [Next]_vars => IInv'
    <2> SUFFICES ASSUME IInv, [Next]_vars PROVE IInv'
      OBVIOUS
    <2>1. CASE Next
      BY <2>1, A20Kept, ControlKept, DataKept, FieldsKept DEF IInv
    <2>2. CASE UNCHANGED vars
      <3>1. A20Inv'
        BY <2>2 DEF IInv, A20Inv, Handshake, Gated, NoKey, Wired, a20vars, vars
      <3>2. Control'
        BY <2>2, SameControl DEF IInv
      <3>3. Data'
        BY <2>2, SameData DEF IInv
      <3>4. Fields'
        BY <2>2 DEF IInv, Fields, vars
      <3> QED
        BY <3>1, <3>2, <3>3, <3>4 DEF IInv
    <2> QED
      BY <2>1, <2>2
  <1> QED
    BY <1>1, <1>2, PTL DEF Spec

\* The state keeps the shape the declarations give it; in particular the
\* blocks of the heap stay a list, through all the stages.
THEOREM TypeCorrect == Spec => []TypeOK
  <1>1. IInv => TypeOK
    <2> SUFFICES ASSUME IInv PROVE TypeOK
      OBVIOUS
    <2>1. gate \in BOOLEAN /\ ram \in [{"low", "high"} -> 0 .. 255]
      BY DEF IInv, A20Inv
    <2>2. IsList(heap.blocks) /\ heap.max_alloc \in Nat
      BY HeapFacts DEF IInv, Data, Core, Holding, SoundHeap, WellFormed
    <2>3. \A p \in DOMAIN live :
            live[p].struct \in DOMAIN Sizeof \cup {"entries", "map array", "buffer"}
      BY DEF IInv, Data, Core, Structs
    <2> QED
      BY <2>1, <2>2, <2>3 DEF IInv, Control, Kept, TypeOK
  <1> QED
    BY <1>1, Invariance, PTL

\* enable_A20 leaves the probed bytes as they are, says "on" exactly if the
\* line is on, and gives up only where no method works, whatever the keyboard
\* controller does meanwhile.
THEOREM A20Right == Spec => []A20Exact
  <1>1. IInv => A20Exact
    BY DEF IInv, A20Inv, Handshake, Gated, NoKey, Wired, A20Exact
  <1> QED
    BY <1>1, Invariance, PTL

\* The TSL is entered only with everything in place (of a partition of 128
\* sectors the last one may be wrong), no interrupt comes when the vectors are
\* gone, and the copy faults only where a BIOS reloads limits.
THEOREM EntryReady == Spec => []EntersReady
  <1>1. IInv => EntersReady
    <2> SUFFICES ASSUME IInv PROVE EntersReady
      OBVIOUS
    <2>1. /\ machine.level => machine.claims \cap {"PAE"} \subseteq machine.features
          /\ machine.extlevel => machine.claims \cap {"LM", "PG1G"} \subseteq machine.features
      BY BootAssumption DEF IInv, Control
    <2>2. pc = "tsl" => Compatible
      BY DEF IInv, Control
    <2>3. ASSUME pc = "tsl"
          PROVE  /\ machine.level => "PAE" \in machine.features
                 /\ machine.extlevel => {"LM", "PG1G"} \subseteq machine.features
      <3>1. "PAE" \in machine.claims /\ "LM" \in machine.claims /\ "PG1G" \in machine.claims
        BY <2>2, <2>3 DEF Compatible
      <3> QED
        BY <2>1, <3>1
    <2>4. ASSUME pc = "tsl"
          PROVE  loaded.tsl # "not" /\ (~machine.large => loaded.tsl = "whole")
      BY <2>4 DEF IInv, Control, TslRead, TslIn, KernelIn
    <2> QED
      BY <2>3, <2>4
      DEF IInv, Control, EntersReady, Steps, Enabled, Described, GuidIn, TslIn, KernelIn, Masked
  <1> QED
    BY <1>1, Invariance, PTL

\* What is allocated is what the loader refers to, in blocks large enough,
\* after every stage and every failure of one; and boot_info leads the TSL to
\* the drive's GUID, the map as the BIOS told it, the video mode and the kernel.
THEOREM HandedOver == Spec => []InfoComplete
  <1>1. IInv => InfoComplete
    <2> SUFFICES ASSUME IInv PROVE InfoComplete
      OBVIOUS
    <2>1. Core /\ Progress
      BY DEF IInv, Data
    <2>2. DOMAIN live = Pointers(heap)
      BY <2>1, InitHeapFacts DEF Core, Holding
    <2>3. \A p \in DOMAIN live : Used(p) = UsedOf(live[p].struct)
      BY DEF Used, UsedOf
    <2>4. HeapInUse
      BY <2>1, <2>2, <2>3 DEF Core, HeapInUse, Pointers, Taken, SizeAt
    <2>5. ASSUME pc = "tsl" PROVE InfoFound
      <3>1. ArrayTold /\ VideoTold /\ Of("boot_info_t") # {}
        BY <2>1, <2>5 DEF Progress, VideoIn, ArrayIn, InfoIn
      <3>2. The("boot_info_t") \in DOMAIN live
        BY <3>1, TheFacts
      <3>3. /\ boot_info.boot_drive = [GUID |-> machine.guid]
            /\ boot_info.memory_map.entry_size = Sizeof.memory_map_entry
            /\ boot_info.RAMFS = [address |-> RAMFS]
        BY <2>5 DEF IInv, Fields, VideoIn, ArrayIn, InfoIn
      <3>4. PICK map : map = boot_info.memory_map.address - SSL
        OBVIOUS
      <3>5. map \in DOMAIN live /\ live[map].struct = "map array"
            /\ boot_info.memory_map.count = machine.told
        BY <3>1, <3>4 DEF ArrayTold, Of
      <3>6. machine.told * Sizeof.memory_map_entry <= heap.blocks[map - HDR].size
        <4>1. Used(map) = machine.told * Sizeof.memory_map_entry
          BY <3>5 DEF Used
        <4> QED
          BY <2>4, <3>5, <4>1 DEF HeapInUse
      <3>7. live[map].items = [k \in 1 .. machine.told |-> k]
        BY <3>1, <3>4 DEF ArrayTold
      <3>8. boot_info.memory_map.count * boot_info.memory_map.entry_size
              <= heap.blocks[map - HDR].size
        BY <3>3, <3>5, <3>6
      <3>9. boot_info.boot_drive.GUID = machine.guid /\ boot_info.RAMFS.address = RAMFS
        BY <3>3
      <3> QED
        BY <3>1, <3>2, <3>4, <3>5, <3>7, <3>8, <3>9, Zenon DEF InfoFound, VideoTold, Of
    <2> QED
      BY <2>4, <2>5 DEF InfoComplete
  <1> QED
    BY <1>1, Invariance, PTL
=============================================================================
