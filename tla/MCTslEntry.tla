----------------------------- MODULE MCTslEntry -----------------------------
(***************************************************************************)
(* The kernel and three dlls in every import graph of a few (chains,       *)
(* diamonds, one dll twice, circles of one to three, one image too many    *)
(* for the table), with one flaw or none and hints that are right or       *)
(* wrong.  The archive may begin with a file whose name begins with a's.   *)
(* The PCI devices have one function, three, or are not there; the RSDP is *)
(* there twice or not at all.  Some of the kernels do not fit pml1.        *)
(***************************************************************************)
EXTENDS TslEntry, TLC

kernelName == <<"kernel">>
a      == <<"a">>
b      == <<"b">>
c      == <<"c">>
aOld   == <<"a", "old">>

Graphs ==
  {[n \in {kernelName, a, b, c} |->
      CASE n = kernelName -> k [] n = a -> x [] n = b -> y [] n = c -> z] :
     k \in {<<a>>, <<a, b>>, <<b, a>>, <<a, a>>}, x \in {<<>>, <<b>>, <<kernelName>>, <<a>>},
     y \in {<<>>, <<a>>, <<c>>},                  z \in {<<>>, <<kernelName>>}}

Flaws == {"none", "no b", "no a", "a invalid", "ordinal", "unexported", "c exports nothing"}

Symbol(name, ordinal, hinted) ==
  [name |-> name, ordinal |-> ordinal, hint |-> IF hinted = (name = "f") THEN 2 ELSE 1]

\* The kernel wants f and g of its dlls, a dll only g.
Wants(n, flaw, hinted) ==
  CASE n = kernelName /\ flaw = "ordinal"    -> <<Symbol("f", FALSE, hinted), Symbol("g", TRUE, hinted)>>
    [] n = kernelName                        -> <<Symbol("f", FALSE, hinted), Symbol("g", FALSE, hinted)>>
    [] n = a      /\ flaw = "unexported" -> <<Symbol("h", FALSE, hinted)>>
    [] OTHER                             -> <<Symbol("g", FALSE, hinted)>>

File(n, imports, flaw, hinted) ==
  [name    |-> n,
   valid   |-> ~(n = a /\ flaw = "a invalid"),
   length  |-> IF n = kernelName THEN 3 ELSE 1,
   size    |-> CASE n = kernelName -> 2 [] n = b -> 3 [] OTHER -> 1,
   entry   |-> 0,
   stack   |-> IF hinted THEN 3 ELSE 2,
   imports |-> [d \in DOMAIN imports |->
                  [dll |-> imports[d], symbols |-> Wants(n, flaw, hinted)]],
   exports |-> IF n = c /\ flaw = "c exports nothing"
               THEN <<>>
               ELSE <<[name |-> "g", entry |-> 3], [name |-> "f", entry |-> 4]>>]

Archive(graph, flaw, hinted, older) ==
  LET files == [k \in 1 .. 4 |-> LET n == <<kernelName, a, b, c>>[k]
                                 IN  File(n, graph[n], flaw, hinted)]
      there == SelectSeq(files, LAMBDA f : ~\/ f.name = a /\ flaw = "no a"
                                            \/ f.name = b /\ flaw = "no b")
  IN  IF older THEN <<File(aOld, <<>>, "none", TRUE)>> \o there ELSE there

MCArchives ==
  {Archive(graph, flaw, hinted, older) :
     graph \in Graphs, flaw \in Flaws, hinted \in BOOLEAN, older \in BOOLEAN}

On  == [io |-> TRUE, memory |-> TRUE, master |-> TRUE, errors |-> TRUE]
Off == [io |-> FALSE, memory |-> TRUE, master |-> FALSE, errors |-> FALSE]

Full    == [info_size_ok |-> TRUE, pci |-> <<0, 0>> :> On @@ <<2, 0>> :> On @@ <<2, 1>> :> Off @@ <<2, 2>> :> On,
            multi |-> {2}, rsdp |-> {41, 43}]
Bare    == [Full EXCEPT !.pci = <<1, 0>> :> Off, !.multi = {}, !.rsdp = {}]
Stale   == [Full EXCEPT !.info_size_ok = FALSE]

MCFirmwares == {Full, Bare, Stale}
=============================================================================
