------------------------------ MODULE Allocator ------------------------------
(***************************************************************************)
(* What malloc, realloc and free promise their callers (mem.h), without    *)
(* blocks, headers or a list: every owner holds at most one region, the    *)
(* regions are aligned, lie inside the heap and do not overlap, an owner   *)
(* finds in its region what it wrote there, and a request is only refused  *)
(* when no stretch of the heap is vacant that holds it with its overhead;  *)
(* the empty heap serves every request up to its capacity.                 *)
(***************************************************************************)
EXTENDS Integers

CONSTANTS
  Owner,      \* holders of an allocation
  Requests,   \* sizes asked for
  Bytes,      \* addresses of the heap
  ALIGN,      \* alignment of every region
  Capacity,   \* the largest request the empty heap serves
  Overhead    \* the bytes a vacant stretch needs beyond the request

VARIABLES
  region,     \* owner -> the bytes it holds: [addr, len], addr 0 for none
  contents,   \* owner -> what reading its region yields: position -> writer
  refused     \* the size the last call asked for, if it got NULL

vars == <<region, contents, refused>>

None == [addr |-> 0, len |-> 0]

Holds(o) == region[o].addr # 0

Span(r) == r.addr .. (r.addr + r.len - 1)

\* A region that owner o may be given while the others keep theirs.
Grantable(o, r) ==
  /\ r.addr > 0
  /\ r.addr % ALIGN = 0
  /\ Span(r) \subseteq Bytes
  /\ \A p \in Owner \ {o} : Holds(p) =>
       /\ region[p].addr # r.addr
       /\ Span(region[p]) \cap Span(r) = {}

\* n bytes from a on that nobody holds.
Vacant(a, n) ==
  /\ a .. (a + n - 1) \subseteq Bytes
  /\ \A p \in Owner : Holds(p) =>
       /\ region[p].addr \notin a .. (a + n - 1)
       /\ a \notin Span(region[p])

Own(o, n) == [i \in 0 .. (n - 1) |-> o]

Init ==
  /\ region   = [o \in Owner |-> None]
  /\ contents = [o \in Owner |-> Own(o, 0)]
  /\ refused  = {}

Grant(o, n) ==
  /\ refused'  = {}
  /\ \E a \in Bytes \cup {1 + b : b \in Bytes} :
       /\ region' = [region EXCEPT ![o] = [addr |-> a, len |-> n]]
       /\ Grantable(o, [addr |-> a, len |-> n])
  /\ contents' = [contents EXCEPT ![o] = Own(o, n)]

Obtain(o, n) == ~Holds(o) /\ Grant(o, n)

\* Whatever the new place, the owner's bytes are there.
Resize(o, n) == Holds(o) /\ Grant(o, n)

Release(o) ==
  /\ Holds(o)
  /\ refused'  = {}
  /\ region'   = [region EXCEPT ![o] = None]
  /\ contents' = [contents EXCEPT ![o] = Own(o, 0)]

\* A refusal has a reason and takes nothing away.
Refuse(n) ==
  /\ refused' = {n}
  /\ UNCHANGED <<region, contents>>
  /\ n > Capacity \/ \E p \in Owner : Holds(p)
  /\ ~\E a \in Bytes : Vacant(a, n + Overhead)

Next ==
  \E o \in Owner :
    \/ \E n \in Requests : Obtain(o, n) \/ Resize(o, n) \/ Refuse(n)
    \/ Release(o)

Spec == Init /\ [][Next]_vars
=============================================================================
