--------------------------------- MODULE A20 ---------------------------------
(***************************************************************************)
(* enable_A20 (SSL/src/utils.c): while the A20 line is gated, an address   *)
(* above 1 MB is the address 1 MB below it.  The loader probes for that    *)
(* and tries the BIOS, the keyboard controller and the fast gate in turn.  *)
(*                                                                         *)
(* The keyboard controller is a processor of its own: it takes what the    *)
(* loader sends from its input buffer whenever it gets to it, and its one  *)
(* output buffer holds the answer to a command or the code of a key.  The  *)
(* loader leaves interrupts on, so that the BIOS's handler may empty it.   *)
(***************************************************************************)
EXTENDS Integers

VARIABLES
  gate,       \* the A20 line is on
  ram,        \* the bytes at 0x7BF0 (low) and 0x107BF0 (high)
  kbc,        \* the keyboard controller
  kb_data,    \* the local variable of enable_A20
  a20         \* the step of enable_A20

a20vars == <<gate, ram, kbc, kb_data, a20>>

(* What a machine is like, as far as this module goes:
     gated  : A20 is off at the start;
     bios   : int 15h, function 2401h, "works", "lies" or "fails";
     kbc    : the controller is "wired" to the gate, "not wired" or "absent";
     fast   : port 92h works;
     key    : a key may be pressed;
     irq1   : the controller interrupts and the BIOS reads what it has.    *)

\* The output port: the gate bit, and the other bits.
Port(gatebit, others) == [a20 |-> gatebit, others |-> others]

\* The code of a key, when it is taken for the output port.
KEYCODE == Port(FALSE, "key code")

NOTHING == Port(FALSE, "nothing")

A20Init(machine) ==
  /\ gate = ~machine.gated
  /\ ram = [low |-> 1, high |-> 2]
  /\ kbc = [input |-> IF machine.kbc = "absent" THEN "floating" ELSE "none",
            output |-> NOTHING, port |-> Port(FALSE, "reset line"), keyboard |-> TRUE,
            writing |-> FALSE, keys |-> IF machine.key THEN 1 ELSE 0]
  /\ kb_data = NOTHING
  /\ a20 = "probe"

-----------------------------------------------------------------------------
(***************************************************************************)
(* _check_A20: 0 goes to 0000:7BF0 and FF to FFFF:7C00, and both bytes go  *)
(* back.                                                                   *)
(***************************************************************************)
\* The byte that FFFF:7C00 addresses.
Test == IF gate THEN "high" ELSE "low"

Marked == [[ram EXCEPT !["low"] = 0] EXCEPT ![Test] = 255]

\* Mutant: the byte at FFFF:7C00 is saved after the writes.
RestoredLate == [[Marked EXCEPT !["low"] = ram["low"]] EXCEPT ![Test] = Marked[Test]]

Restored == [[Marked EXCEPT !["low"] = ram["low"]] EXCEPT ![Test] = ram[Test]]

check_A20 == Marked["low"] = 0

-----------------------------------------------------------------------------
(***************************************************************************)
(* The loader.                                                             *)
(***************************************************************************)
\* The first probe, and the last two.
Probe(step, otherwise) ==
  /\ a20 = step
  /\ ram' = Restored
  /\ a20' = IF check_A20 THEN "on" ELSE otherwise
  /\ UNCHANGED <<gate, kbc, kb_data>>

BiosGate(machine) ==
  /\ a20 = "bios"
  /\ gate' = (gate \/ machine.bios = "works")
  /\ a20' = IF machine.bios = "fails" THEN "disable keyboard" ELSE "bios probe"
  /\ UNCHANGED <<ram, kbc, kb_data>>

\* Wait until the input buffer is empty; send a byte.
Send(step, byte, next) ==
  /\ a20 = step
  /\ kbc.input = "none"
  /\ kbc' = [kbc EXCEPT !.input = byte]
  /\ a20' = next
  /\ UNCHANGED <<gate, ram, kb_data>>

\* Wait until the output buffer is full; read it.
Receive ==
  /\ a20 = "receive"
  /\ kbc.output # NOTHING
  /\ kb_data' = kbc.output
  /\ kbc' = [kbc EXCEPT !.output = NOTHING]
  /\ a20' = "write port"
  /\ UNCHANGED <<gate, ram>>

\* Mutant: the other bit of the status register is looked at.
SettledFull == kbc.output # NOTHING

\* The byte sent last was taken.
Settled == kbc.input = "none"

Settle ==
  /\ a20 = "settle"
  /\ Settled
  /\ a20' = "controller probe"
  /\ UNCHANGED <<gate, ram, kbc, kb_data>>

FastGate(machine) ==
  /\ a20 = "fast"
  /\ gate' = (gate \/ machine.fast)
  /\ a20' = "fast probe"
  /\ UNCHANGED <<ram, kbc, kb_data>>

\* The status register is read again until the buffer waited for is ready;
\* there is no other end to it.
Poll ==
  /\ \/ /\ a20 \in {"disable keyboard", "read port", "write port", "port data",
                    "enable keyboard"}
        /\ kbc.input # "none"
     \/ a20 = "receive" /\ kbc.output = NOTHING
     \/ a20 = "settle" /\ ~Settled
  /\ UNCHANGED a20vars

enable_A20(machine) ==
  \/ Poll
  \/ Probe("probe", "bios")
  \/ BiosGate(machine)
  \/ Probe("bios probe", "disable keyboard")
  \/ Send("disable keyboard", "AD", "read port")
  \/ Send("read port", "D0", "receive")
  \/ Receive
  \/ Send("write port", "D1", "port data")
  \/ Send("port data", "data", "enable keyboard")
  \/ Send("enable keyboard", "AE", "settle")
  \/ Settle
  \/ Probe("controller probe", "fast")
  \/ FastGate(machine)
  \/ Probe("fast probe", "off")

-----------------------------------------------------------------------------
(***************************************************************************)
(* The keyboard controller, the keyboard and the BIOS's interrupt handler. *)
(***************************************************************************)
\* The controller takes a byte; one that follows D1 is for its output port.
\* It has no room for an answer while its output buffer is full.
TakeByte(machine) ==
  /\ machine.kbc # "absent"
  /\ kbc.input # "none"
  /\ kbc.input = "D0" => kbc.output = NOTHING
  /\ LET taken == [kbc EXCEPT !.input = "none", !.writing = kbc.input = "D1"]
         writes == kbc.input = "data" /\ kbc.writing
     IN  /\ kbc' = CASE kbc.input = "AD" -> [taken EXCEPT !.keyboard = FALSE]
                      [] kbc.input = "AE" -> [taken EXCEPT !.keyboard = TRUE]
                      [] kbc.input = "D0" -> [taken EXCEPT !.output = kbc.port]
                      [] writes           -> [taken EXCEPT !.port = Port(TRUE, kb_data.others)]
                      [] OTHER            -> taken
         /\ gate' = (gate \/ (writes /\ machine.kbc = "wired"))
  /\ UNCHANGED <<ram, kb_data, a20>>

PressKey(machine) ==
  /\ machine.kbc # "absent"
  /\ kbc.keyboard /\ kbc.keys > 0 /\ kbc.output = NOTHING
  /\ kbc' = [kbc EXCEPT !.output = KEYCODE, !.keys = @ - 1]
  /\ UNCHANGED <<gate, ram, kb_data, a20>>

\* IRQ 1: the BIOS reads the output buffer, whatever it holds.
Interrupt(machine) ==
  /\ machine.irq1
  /\ kbc.output # NOTHING
  /\ kbc' = [kbc EXCEPT !.output = NOTHING]
  /\ UNCHANGED <<gate, ram, kb_data, a20>>

Controller(machine) == TakeByte(machine) \/ PressKey(machine) \/ Interrupt(machine)
=============================================================================
